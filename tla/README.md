# Verification of Algoplan

Algoplan is an issue tracker in which AI agents are assignees. A Go server
keeps issues, agents and a queue of *tasks* in PostgreSQL; a *daemon* on each
user machine polls the server, takes tasks for the *runtimes* it hosts, runs
an agent process for each and reports how it ended. Users work with a web
application or with a desktop application (Electron) that also manages the
daemon of its machine; both show what a query cache holds, which requests fill
and WebSocket events patch. This directory holds TLA+ models of the parts of
that system where several actors meet, the TLC configurations that check them
on small instances, and proofs checked by TLAPS.

Paths below are relative to the root of the repository; those of the server
to `server/`.

## 1. The system

### The server

| component | state | operations | who it talks to |
|---|---|---|---|
| task queue (`internal/service/task.go`, `pkg/db/queries/agent.sql`) | `agent_task_queue`: agent, issue / chat session / autopilot run, runtime, status, attempt, parent, failure reason; `agent.status` | enqueue, claim, start, complete, fail, retry, rerun, cancel, post-failure handling, status reconciliation | called by the handlers, the daemon endpoints and the sweeper; publishes events |
| issue updates and triggers (`internal/handler/issue.go`, `comment.go`) | `issue.status`, `issue.assignee` | UpdateIssue, comments, mentions | cancels and enqueues tasks |
| agents (`internal/handler/agent.go`) | `archived_at`, `runtime_id` | archive, restore, move | cancels tasks |
| chat sessions (`internal/handler/chat.go`) | messages, `session_id`, `work_dir`, unread mark | send a message, resume | enqueues tasks, updated when a task ends |
| runtime registry and sweeper (`internal/handler/daemon.go`, `cmd/server/runtime_sweeper.go`) | `agent_runtime.status`, `last_seen_at` | register, heartbeat, deregister, two sweeps every 30 s, deletion | fails tasks |
| autopilots (`internal/service/autopilot.go`, `cmd/server/autopilot_scheduler.go`, `autopilot_listeners.go`) | `autopilot_trigger.next_run_at`, `autopilot_run.status` | scheduler tick, manual dispatch, recovery at start, synchronisation from issues and tasks | creates issues or tasks, listens to the event bus |
| daemon (`internal/daemon`) | slots, running tasks, a cancellation poll for each | poll loop, heartbeats, orphan recovery at start, usage report, garbage collection | HTTP calls to the server |
| request stores (`internal/handler/runtime_local_skills*.go`, `runtime_update.go`, `runtime_models.go`) | pending and running requests, in memory or in Redis | create, pop by heartbeat, report, time out | user requests, heartbeats |
| realtime hub and relay (`internal/realtime`), event bus (`internal/events`) | clients, rooms, subscriptions; consumer groups; listeners | subscribe, broadcast, evict; relay through Redis streams; synchronous publish | everything above, the clients |

### The clients

| component | state | operations | who it talks to |
|---|---|---|---|
| session (`packages/core/auth`, `core/platform`, `core/realtime/provider.tsx`, `packages/views/auth`) | the token in storage and in the API client, the user, the current workspace, drafts stored per workspace, the connection | restore at launch, sign in by code, password, deep link; sign out; rejected tokens | the server; clears the query cache and the stores of the workspace |
| query cache and realtime client (`packages/core/issues`, `core/realtime`, `core/api/ws-client.ts`) | cached lists, pages and timelines, fetches and mutations in flight, the connection | fetch, optimistic update, rollback, invalidation, patch by events, reconnection | the server, pages |
| chat window (`packages/core/chat`, `packages/views/chat`) | cached sessions, messages, pending task, timeline of the task; which session is open | send, stop, select, mark as read | the server, events |
| tabs of the desktop application (`apps/desktop/src/renderer/src`: `stores/tab-store.ts`, `platform/navigation.tsx`, hooks) | a group of tabs per workspace, a router per tab, the overlay over them, the workspace list | open, close, move, navigate, switch, validate against the list, persist and migrate | routers, the query cache, the session |
| daemon manager of the desktop application (`apps/desktop/src/main/daemon-manager.ts`, panel and effects of the renderer) | state of the daemon as shown, guard of the operations, the command line client, the token on disk and the user it is filed under | start, stop, restart, poll, install, restart for a new version, sync and clear the token | the daemon, the command line client, the session |
| pages, editor, user interface kit, landing pages | local state of forms, drag and drop | rendering | the query cache |

### What is hard about it

* **Interleaving on the server.** Every handler is a sequence of SQL
  statements, mostly outside a transaction, and the server may run as several
  processes. What one statement reads may be stale when the next one uses it.
* **One table, many writers.** Five code paths fail tasks, and all of them may
  meet on one row; retry and rollback of the issue must happen once.
* **Lost answers.** The response of a claim may be lost, a completion may come
  after a timeout or a cancellation.
* **Liveness by sweeping only.** Nothing but the 30 s sweeper frees the lane of
  a task whose daemon is gone; nothing but the next poll takes up a restart
  that had to wait.
* **Awaits in the clients.** JavaScript runs one piece of code at a time, but
  every `await` lets another effect, event or answer in: what was read before
  may have changed after.
* **Two sources for one cache.** What is shown is written by answers of
  fetches, by optimistic mutations and their rollbacks, and by events that come
  on another connection, in no fixed order to the answers.
* **State that outlives its session.** Tokens on disk, drafts in storage, tabs
  of workspaces, a daemon that runs: each must follow a user who signs out or
  is replaced, although parts of it are cleared in different places.

### What makes each component correct

* task queue: one task at a time for each agent and issue; chats served
  serially and in order; ended tasks stay ended; failures retried once within
  their budget and never dropped; no issue left `in_progress` with nobody at
  work; every active task ends and every queued task is reached.
* issue updates: the queue follows the assignee. Agents: an archived agent has
  no task.
* autopilots: a due trigger runs once for each period, a run ends as its issue
  or its task does and stays ended.
* session: token, cache, drafts and connection are those of who is signed in;
  no path leaves the splash screen up.
* query cache: once nothing is under way, what is shown is what the server has;
  no issue is in two columns at any time.
* chat window: the same of messages, pending task, timeline and badge; a message is
  never shown twice; what the user looks at does not stay unread.
* tabs: groups refer to tabs they have; nobody is left without a page; a tab
  disappears only when it was closed, or its workspace or session ended.
* daemon manager: operations of the user do not overlap; the daemon works for
  the user who is signed in; what is shown converges to what runs.

## 2. The modules

| module | models |
|---|---|
| `TaskRows` | the table `agent_task_queue`: the rows, the partial unique index and each SQL statement that reads or writes them |
| `TaskQueue` | the handlers, the daemon endpoints and the sweeper, as sequences of those statements; properties, inductive invariant, refinement mapping, fairness |
| `AgentLanes` | the abstract specification: each (agent, issue) pair is a lane with one waiting place and one task that is worked on |
| `TaskQueueProofs`, `RetryProofs` | theorems about `TaskQueue`: types, lanes and claims, and that it implements `AgentLanes`; then failures and retries, and requests that do not overlap |
| `Autopilot` | the scheduler of each server, the dispatch of runs, the listeners that end them, the requests that interfere |
| `AutopilotProofs` | theorems about `Autopilot` |
| `DaemonManager` | the desktop application and the daemon of its machine |
| `DesktopTabs` | tabs, routers, overlays and the workspace list |
| `TabProofs` | theorems about `DesktopTabs`: what is shown, then the tabs and their groups |
| `QueryCache` | one entry of the query cache: what the calls of `@tanstack/react-query` do to it |
| `IssueCache` | the issues of a workspace as a client sees them; extends `QueryCache` |
| `ChatWindow` | the chat of a client with its agents; extends `QueryCache` |
| `Session` | who is signed in, and what has to follow |
| `SessionProofs` | theorems about `Session` |
| `DaemonProofs` | theorems about `DaemonManager` |
| `ChatProofs` | theorems about `ChatWindow` |
| `IssueProofs` | theorems about `IssueCache` |
| `MCTaskQueue`, `MCAutopilot`, `MCDaemonManager`, `MCDesktopTabs`, `MCIssueCache`, `MCChatWindow`, `MCSession` | the instances for TLC |

`TaskQueue` extends `TaskRows` and instantiates `AgentLanes` for the
refinement. `Autopilot` stands beside `TaskQueue` and shares the daemons' side
of it in the coarsest form: a task of a run is live until it ends, once, in any
of the ways in which the queue ends a task. That a task ends once and stays
ended is `TerminalIsForever` of `TaskQueue`. `ChatWindow` sees the same queue
from the other side: its server has tasks that live, report, end and may be
retried. `Session`, `DaemonManager` and `DesktopTabs` each contain the part of
signing in and out that concerns them.

### State of the task queue

A row of `agent_task_queue` is a number `t`; numbers grow with `created_at`.
`status[t]` and `reason[t]` are the columns that are updated and `row[t]` holds
those written by INSERT only. The issue, the chat session or the autopilot run
that a task serves is one field, `work`, as the code sets exactly one of the
three columns. `issue`, `archived`, `runtimeOf`, `agentStatus` and `online` are
the columns of the other tables that matter to the queue. `delivered` is the
set of tasks that a daemon alive knows of: a claim whose response is lost does
not put its task there, and a daemon that dies takes its tasks out.

`h[p]` is the handler that runs in process `p`, the program counter and the
locals that survive from one statement to the next. A handler begins with an
action of `UserRequest`, `DaemonCall` or `Sweep` and goes on with the actions
of `Continue`. **The grain is the SQL statement**: an action is one statement
(PostgreSQL runs it atomically), or a run of reads of which none depends on
another, and transactions of the code (`CompleteTask`) are one action.

The claim has a finer grain, because its statement is
`UPDATE ... WHERE id = (SELECT ... FOR UPDATE SKIP LOCKED)`: `ClaimSelect` is
the snapshot of the sub-select and `ClaimUpdate` the moment the row is locked
and written. Rows taken by others in between are skipped, rows cancelled in
between are skipped or found changed, and the `NOT EXISTS` is not evaluated
again. This is what makes `SerialPerIssueAgent` worth a proof.

### Handlers and actions

| code | actions |
|---|---|
| `CreateComment`, `EnqueueTaskForIssue`, `EnqueueTaskForMention` | `CommentOrMention`, `LoadAgent`, `InsertTask` |
| `UpdateIssue` | `AssignIssue` / `MoveIssue` / `AgentSetsIssue`, `SaveIssue`, `CancelTasksForIssue`, `LoadAgent`, `InsertTask` |
| `RerunIssue` | `RerunIssue`, `CancelForRerun`, `ReconcileCount`, `ReconcileWrite`, `LoadAgent`, `InsertTask` |
| `SendChatMessage`, `dispatchRunOnly` | the action of the same name, `LoadAgent`, `InsertTask` |
| `CancelTask` | `CancelTask`, `ReconcileCount`, `ReconcileWrite` |
| `ArchiveAgent`, `RestoreAgent`, `UpdateAgent` | `ArchiveAgent`, `CancelTasksOfAgent`; `RestoreAgent`; `MoveAgent` |
| `ClaimTaskForRuntime`, `ClaimTask` | `ClaimTaskForRuntime`, `ClaimCount`, `ClaimSelect`, `ClaimUpdate`, `ClaimReturn` |
| `StartTask`, `CompleteTask` | the action of the same name, then the reconciliation |
| `FailTask` | `FailTask`, `RetryOne`, then the reconciliation |
| `RecoverOrphanedTasks`, `sweepStaleTasks`, `HandleFailedTasks` | `RecoverOrphans` / `SweepStaleTasks`, `BatchRetry`, `BatchGetIssue`, `BatchHasActive`, `BatchResetIssue`, `BatchDone`, then the reconciliation |
| `sweepStaleRuntimes` | `MarkStaleRuntimes`, `FailOffline`, then `HandleFailedTasks` |
| `DaemonHeartbeat`, `DaemonDeregister` | `Heartbeat`, `Deregister` |

Simplifications of `TaskQueue`:

* a request of `UpdateIssue` names an assignee or a status, not both, and the
  other fields are left out;
* `LoadAgent` merges the checks of `isAgentAssigneeReady` with the `GetAgent`
  that follows it: both read the same row;
* a rerun reconciles the status of the agent once for all the tasks it
  cancelled;
* the `on_comment` trigger and each mention of one comment are requests of
  their own;
* statuses `in_review` and `blocked` make no difference to the queue;
* there is no clock: a runtime may miss its heartbeats, and a task may time
  out, at any moment. This allows more than the code, never less, except where
  a liveness property needs a timeout: see the fairness below.

### State and actions of the autopilots

`trigger[t]` has the columns `enabled` and `next_run_at`, `run[k]` is a row of
`autopilot_run`; its field `due` is not a column, it remembers the period whose
claim made the run. A run makes one issue or one task, so `issue[k]` and
`task[k]` are those of run `k`; `in_review` counts as `done` and `blocked` as
`cancelled`, as `SyncRunFromIssue` treats them. `g[p]` is a goroutine: the
scheduler of a server (`Schedulers`) or a request (`Handlers`).

| code | actions |
|---|---|
| `runAutopilotScheduler`, `recoverLostTriggers` | `StartScheduler`, `RecoverTrigger`, `LoopDone` |
| `tickScheduledAutopilots`, `advanceNextRun` | `ClaimDue`, `NextTrigger`, the dispatch, `Advance`, `LoopDone` |
| `DispatchAutopilot` | `CreateRun`; `CreateIssue`, `LinkIssue`, `EnqueueTaskForIssue` or `LoadAgent`, `CreateAutopilotTask`, `LinkTask`; `FailRun` when one of them fails |
| `TriggerAutopilot` | the action of the same name, then the dispatch |
| the listeners of `autopilot_listeners.go` | `EndTask`, `SyncRunFromTask`; `SetIssueStatus`, `GetIssue`, `GetRun`, `EndRun` |
| `DeleteIssue` | `DeleteIssue`, `DeleteIssueRow` |
| `UpdateAutopilot`, `UpdateAutopilotTrigger`, `ArchiveAgent` | the action of the same name; `CancelTasksOfAgent` |

Simplifications of `Autopilot`:

* a schedule fires once per unit of time, so `ComputeNextRun` gives `now + 1`;
  the servers and the database share one clock, and no period ends between
  `ComputeNextRun` and the statement that stores its result (milliseconds in
  the code, where a period is a minute or more). Without either, a period may
  fire twice: a server whose clock is behind the database's computes the period
  that was just claimed;
* `last_run_at`, `last_fired_at`, payloads and events other than those that the
  listeners hear are left out;
* the events of an issue's creation are left out: no listener of them touches
  a run.

### The daemon manager

The main process is one JavaScript thread. `calls[c]` is an asynchronous
function in flight and its `pc` the await it is suspended at; what runs between
two awaits is one action. `polls[k]` are the health polls, `daemon` the process
on the port, with the credentials and the version it was started with.

| code | actions |
|---|---|
| `withGuard` and the `daemon:start`, `daemon:stop`, `daemon:restart` handlers | `ClickStart`, `ClickStop`, `ClickRestart`, `FirstWorkspace` |
| `startDaemon`, `stopDaemon`, `restartDaemon` | `Resolved`, `Kill`, `Killed`, `KillFails`, `Probed`, `Spawn`, `SpawnFails`, `Spawned`, `Refused` |
| `pollOnce`, `fetchHealth` | `PollTick`, `PollAnswer`, `PollApply` |
| `bootstrapCli`, `resolveCliBinary` | `Bootstrapped`, `RetryInstall` |
| `ensureRunningDaemonVersionMatches` | `Versioned` |
| `syncToken`, the auto-start handler, `clearToken` | `Read`, `Mint`, `MintFails`, `WriteConfig`, `WriteUserId`, `RestartOnSwitch`, `AutoResolved`, `AutoProbed`, `ClearConfig`, `RemoveUserId` |
| the effects of `App.tsx`, quitting and launching | `SignIn`, `SignOut`, `Relaunch` |

One profile and one port; no foreign daemon on it; the `algoplan daemon`
commands are external and do what their names say; file operations do not fail.

### The tabs

A tab holds what the store knows of it (`path`, `historyIndex`,
`historyLength`), its memory router (`entries`, `at`) and the references of
`useTabRouterSync` (`index`, `length`). Effects that follow a change of the
list run before the next event and belong to the action that changes it.

| code | actions |
|---|---|
| `openTab`, `addTab`, `closeTab`, `setActiveTab`, `moveTab` and the tab bar | `OpenInNewTab`, `AddTab`, `CloseTab`, `ActivateTab`, `MoveTab` |
| `useTabHistory`, `useTabRouterSync` | `GoBack`, `GoForward`, part of every navigation |
| the three navigation adapters of `navigation.tsx` and links in texts | `PagePush`, `Go`, `FollowLink` |
| `validateWorkspaceSlugs`, the effects of `App.tsx`, `WorkspaceRouteLayout` | `ListArrives`, `ServerChanges` |
| `WindowOverlay`, creating, joining, leaving and losing workspaces, onboarding | `CreateWorkspace`, `AcceptInvite`, `Land`, `DeclineInvite`, `Leave`, `LeaveEnds`, `CloseOverlay`, `OpenNewWorkspace`, `OpenInvite`, `OnboardingSkips` |
| `merge`, `migrateV1ToV2`, signing in and out | `Relaunch`, `Init`, `SignIn`, `SignOut` |

A path is a workspace and a page; titles and icons are left out, and the
sign-up and password overlays are like that of an invitation.

### The query cache

An entry of `QueryCache` has its data, the mark of an invalidation, and a fetch
that is *asked* until the server has read what it will answer and *read* until
the answer arrives: between the two lies every race of an answer with an event.
A cancelled fetch returns to what was there before it. The library is external;
its operators are what `core/query-client.ts` configures.

`IssueCache` has three entries: the list with its columns, the page of one
issue and its timeline; `muts[m]` is a mutation of this client, from the
optimistic write until its answer, and `wire` the events on their way.

| code | actions |
|---|---|
| `useCreateIssue`, `useUpdateIssue`, `useDeleteIssue`, the batch mutations, comments | `Mutate` (`onMutate`), `Handle` (the server), `Settle` (`onSuccess` / `onError`, `onSettled`) |
| changes by other clients | `OthersChange` |
| `onIssueCreated`, `onIssueUpdated`, `onIssueDeleted`, the comment handlers | `Deliver` |
| `WSClient`, the handler of a reconnection, `hub.go` | `Drop`, `Reconnect`, `Join` |
| the query functions | `ServerReads`, `ServerReadsColumns`, `Arrive`, `Lose` |
| pages that mount | `Go` |

`ChatWindow` has the sessions, the messages and the pending task of each
session and the reports of each task.

| code | actions |
|---|---|
| `handleSend`, the seed of the pending task | `Send`, `CreateSession`, `Created`, `SendMessage`, `Sent` |
| `handleStop`, the effect that marks as read, `useMarkChatSessionRead` | `Stop`, `Marked` |
| `useChatStore`, the effects of `ChatWindow` | `Toggle`, `SelectSession`, `NewChat` |
| the chat and task handlers of `use-realtime-sync.ts` | part of `Progress` |
| the server: tasks report, end, are retried | `Report`, `End` |

`Progress` joins what happens without the user: requests are served, answers
and events arrive, effects run.

### The session

`stored` is the token in storage, `token` that of the API client, `call` the
asynchronous function that restores or begins a session, `requests` those of
pages, `draft` what a store shows and `kept` what is stored for each workspace,
`ws` the connection. The user whose token fetched something names it.

| code | actions |
|---|---|
| `AuthInitializer` | `Relaunch`, `RestoreMe`, `Restored`, `RestoreFails` |
| `LoginPage`, `verifyCode`, passwords | `SubmitForm`, `Verified`, `CodeRefused`, `Listed`, `SignInFails` |
| the deep link handler of `App.tsx` | `FollowLink`, `LinkMe`, `Listed`, `SignInFails` |
| `useLogout` | `SignOut` |
| `ApiClient` and its handler of a 401 | `Ask`, `Answer`, `Fail` |
| `refreshMe` | `Refresh`, `Refreshed`, `RefreshFails` |
| `workspace-storage.ts`, the draft stores | `Enter`, `Write` |
| `WSProvider` | part of every action that changes user or workspace |

### Known races

`IssueCache`, `ChatWindow` and `Session` do not withstand everything that can
happen to them. Each has a constant `Races`, a set of named situations that its
instances may include; the module says what each of them is. The runs have
`Races = {}`, so that a property says: *this is the complete list of what goes
wrong*. Putting any one of the names into `Races` makes TLC find a behaviour
that violates a property of the module; section 5 says what happens.

## 3. What is checked

Deadlock is checked in all runs but `issue_cache`, where a connected client to
which nothing happens any more may stop. In `TaskQueue` and `Autopilot` a state
in which the system may stay, `Quiet`, has nothing in flight and no task that
waits or runs.

### The server

| run | instance | what it shows |
|---|---|---|
| `issue_tasks` | one agent, one issue, two handlers, four rows, two requests; comments, reruns, cancellations and every kind of failure | `SerialPerIssueAgent`; `RetriedAtMostOnce`; `FailureIsFollowedUp`; `NoIssueLeftInProgress`: batches that overlap do not leave an issue to one another; `TerminalIsForever`; `ImplementsLanes` |
| `requests` | two agents, an issue, a chat of higher priority, two runtimes, three rows, one handler | after any sequence of assignments, status changes, archivings, restorations and moves `OnlyAssigneeHasTasks` and `ArchivedAgentHasNoTask`; `ChatsAreSerial` |
| `sweeper_liveness` | one agent, one issue, an autopilot run, two handlers, two rows, crashes of servers | `ActiveTaskEnds` and `QueuedTaskLeavesQueue` under `FairSpec`; `OvershootIsBounded`: claims that overlap exceed the limit by less than the number of claims in flight |
| `autopilot_runs` | one server, two triggers, one period, runs that create issues; issues are closed, reopened and deleted, autopilots paused and resumed | `DueTriggerFires` under `FairSpec`: a due trigger leads to a run although the dispatch of another one in the same tick fails; `EndIsFinal` |
| `autopilot_crashes` | two servers, one trigger, two periods, four `run_only` runs; crashes and restarts, manual runs, changes of the trigger, archiving of the agent | `FiresOncePerPeriod`; `NoTriggerLost`; `CompletedRunsDidComplete` |

`MaxTasks` bounds the rows ever inserted, `MaxAttempts` is the retry budget (2
in migration 055), `Procs` the handlers in flight, `MaxRequests` the requests of
users and, where they are an event, the crashes of servers; `MaxTime` the
periods and `MaxRuns` the runs. Sweeps, claims, reports and recoveries are not
bounded. `Events` selects the kinds of requests of an instance, so that each
run spends its states on one question.

Two handlers are enough for every race between two statements of two requests;
no property here needs three parties but the overshoot, whose bound grows with
the number of handlers and is stated with it. Four rows allow a chain of a task
and its retry beside a second task of the lane, and a batch of several failed
tasks. With `MaxAttempts = 2` both the retry and the exhausted budget occur. A
run with one handler is about sequences of requests, and its properties are
known to fail when requests overlap (section 5). Two servers are what it takes
for a recovery at start to meet a dispatch in flight, two periods for a trigger
that was rescheduled too early to fire again, two triggers for one dispatch of
a tick to fail before the other.

### The clients

| run | instance | what it shows |
|---|---|---|
| `daemon_sessions` | two users who change when nothing is in flight, three calls at a time, a task, a restart for a new version | `GuardHasItsHolder`; `SessionOwnsDaemon`; `SidecarVouches` |
| `daemon_failures` | one user, two calls; installation, commands and minting fail, the daemon dies | `SetupFailedMeansNoCli`; under `FairSpec` `ShowsRunning` and `PendingRestartIsTried` |
| `desktop_tabs` | two workspaces, three tabs, one pushed entry | `GroupsAreSound`; `NobodyIsStranded`; `TabsAreKept` |
| `issue_cache` | two issues, one of which is created; a comment and a reply; two changes by this client or others, two mutations in flight, one lost connection | `CacheIsFresh`; `NoDuplicates` |
| `chat` | one session, one message of this client, two tasks, two events on their way, one lost request | `MessagesAreFresh`; `PendingTaskIsFresh`; `NoEcho` |
| `chat_badges` | one session, one task with two reports | `TimelineIsComplete`; `BadgeIsFresh`; `UnreadClears` under `FairSpec` |
| `sessions` | two users, a workspace of both and one of the first, three tokens, two requests of pages | `NoEndlessSplash`; `SessionIsWhole`; `CacheIsPrivate`; `DraftsArePrivate`; `HearsTheWorkspace` |

`Slots`, `PollSlots`, `Marks`, `MaxRequests` bound what is in flight;
`MaxChanges`, `MaxDrops`, `MaxSends`, `MaxTasks`, `MaxSteps`, `MaxWire`,
`MaxLost`, `MaxBegun`, `MaxInstalls` what happens in all; `MaxBehind` the
entries of histories. Why they are enough: a call of the daemon manager meets
at most one that it started itself (the restart of `syncToken`) and one of the
user, which three slots hold. Two workspaces are what a switch, an eviction and
a move between groups take, three tabs are a group of two beside another one.
A freshness property needs one change that crosses a fetch or a mutation; a
second change lets a mutation cross another one, and its rollback. One message
with a retry makes two tasks, which is what a late answer could confuse; one
session is enough as no entry depends on two. Three tokens are two sessions of
a user with one of another in between, and `CacheIsPrivate` holds for any
number (section 6).

## 4. Fairness

`FairSpec` of `TaskQueue` assumes that

* a handler goes on (`WF` of `Continue`): the code between two statements never
  waits for another handler;
* the sweeper eventually takes each task that stays dispatched or running
  (`SF` for each task): `runRuntimeSweeper` has a ticker of 30 s and
  `FailStaleTasks` takes every row older than five minutes (dispatched) or two
  and a half hours (running), with no limit on the number of rows. The sweeper
  has a goroutine of its own; as `Procs` bounds the goroutines of the model, it
  may find all of them busy, and strong fairness stands for the goroutine that
  is always there;
* daemons poll for each runtime for ever (`SF` of the claim): the daemon loop
  of `internal/daemon/daemon.go` polls round robin.

Nothing is assumed of agents, of daemons that hold a task, or of servers, which
may crash in the middle of a handler.

`FairSpec` of `Autopilot` assumes that goroutines in flight go on (the code of
a dispatch or a listener waits for nothing but the database), that a server
that is down starts again and that its ticker, every 30 s, claims what is due.
Nothing is assumed of users and agents, nor that time goes on.


`FairSpec` of `DaemonManager` assumes that a call goes on (promises settle:
commands and requests have timeouts), that the interval timer of the polls
fires and is answered, that an installation ends one way or the other, and that
a task of the daemon ends. `FairSpec` of `ChatWindow` assumes that requests are
served, answers and events arrive and effects run (`Progress`): a lost request
is counted by `MaxLost`. Nothing is assumed of users or agents in either.

## 5. Where the code and what it says of itself part

What the models above leave out on purpose, because it does not hold, and what
was seen while modelling. None of it has a run.

### The server

* `agent.sql:121` says that chat tasks "use chat_session_id for serialization".
  Two claims that overlap take two messages of one session: there is no unique
  index, and the `NOT EXISTS` of each is evaluated before the other commits.
  `ChatsAreSerial` is about claims that do not overlap.
* `task.go:673`: "All callers that surface a task as failed — sweepers,
  FailTask, recover-orphans — funnel through here". `FailTask` does not, so the
  issue of a task that fails for good stays `in_progress`.
* `issue.go:1128` reconciles the queue "when assignee changes". An explicit null
  leaves both fields of the request nil, and the tasks of the old assignee go on.
* `autopilot_listeners.go:13` keeps runs "in sync with their linked issues and
  tasks". `ArchiveAgent` cancels the tasks of the agent and publishes nothing:
  their runs stay `running`.
* A task is enqueued, or the issue closed, between `HasActiveTaskForIssue` and
  the unconditional `UpdateIssueStatus` of `task.go:717`.
* Two reconciliations write the status of an agent in the other order than they
  counted (`task.go:804`).
* A task is inserted after `ArchiveAgent` has cancelled those it found.
* `task.go:174` says that a claim respects `max_concurrent_tasks` atomically.
  The count and the claim are two statements; `OvershootIsBounded` says how far
  this goes.
* `issue.go:1008` says that nullable fields are overridden "only when explicitly
  present in JSON". They are written back from the row read at line 958, so a
  status update that overlaps with a reassignment restores the old assignee.
* A batch of `HandleFailedTasks` that begins with a task out of budget resets
  the issue to `todo` and then retries another agent's task of the same issue
  (`task.go:687` wants to avoid this "flapping").
* `ClaimTaskForRuntime` may dispatch a task of another runtime, when the agent
  was moved, and drop it at line 292: it stays dispatched until it times out.
* A server that dies between the statement that fails tasks and
  `HandleFailedTasks` loses the retries, as no later sweep looks at failed
  tasks. `FailureIsFollowedUp` is therefore checked without server crashes.
* A `run_only` task may end before `dispatchRunOnly` links it to its run:
  `UpdateAutopilotRunRunning` has no guard, and the run that has ended is
  `running` again and stays so (`autopilot.go:201`).
* Two status changes of an issue may both find its run open and end it, first
  in one way and then in the other (`autopilot.go:225`). So may a status change
  and a dispatch that fails after it has linked its run, because the agent was
  archived (`autopilot.go:298`). `EndIsFinal` is about runs that are no longer
  dispatched, one request at a time, and agents that stay.
* A dispatch that links its run and enqueues its task between
  `FailAutopilotRunsByIssue` and the deletion of the issue's row succeeds, and
  the run stays open without an issue.
* `RecoverLostTriggers` passes over autopilots that are paused. A trigger lost
  in a crash, whose autopilot is paused at the restart and resumed later, has no
  next time until another server starts or the trigger is edited: `NoTriggerLost`
  is checked with crashes and without pauses.
* `docs/product-overview.md:439-443` describes a concurrency policy (skip,
  queue, replace) that migration 043 has removed: runs of one autopilot overlap.

### The daemon manager

* `withGuard` does not cover the restarts of `syncToken`, of the auto-start and
  of a new version (`daemon-manager.ts:588`, `:623`): they overlap with
  operations of the user.
* Signing out does not wait for the daemon to stop (`App.tsx:186-190`): with
  `Hasty = TRUE` a user who signs in at once may find the daemon of the one
  before him, `SessionOwnsDaemon` is violated.
* An application that dies between writing the token of a new user and
  restarting the daemon (`:574`) leaves the daemon with the old one.
* A restart for a new version may stop a daemon that began a task after the
  health check (`:455-470`).
* A daemon that exits at once leaves "starting" shown for ever (`:240-256`).
* The answer of an installation that was retried meanwhile replaces that of the
  retry (`:876`); `MaxInstalls = 1` leaves this out.
* A watcher of the log is left when its start crosses a stop (`:785-846`).
* A profile update runs the effect of the session again, and with it the
  auto-start, although the user had stopped the daemon (`App.tsx:73`).

### The tabs

* Whether Back and Forward are offered comes from indices that part from the
  router after a restart or a `replace` (`use-tab-router-sync.ts:29`).
* `tab-store.ts:16` says "Every tab path is workspace-scoped": a link in a text
  leads a tab to a path of another workspace (`navigation.tsx:52`), and the next
  launch drops it. `ForeignLinks` selects this.

### The query cache

* (`overtaken`) An event that arrives before the answer of an older fetch is
  overwritten by it, and nothing asks again.
* (`torn`) The columns of a list are fetched separately: an issue that moves
  between two reads is in both or in none. Also, an issue that a column already
  has may be appended to it (`cache-helpers.ts:95`, `use-realtime-sync.ts:172`).
* (`reborn`) A change of an issue whose creation has not been announced is lost.
* (`unmounted`) Entries that no page uses are only marked when the connection
  is lost, and a patch removes the mark (`use-realtime-sync.ts:211-214`,
  `:496-505`).
* (`seeded`) The page of an issue that starts with a row of the list keeps it,
  although a fetch or a rollback corrects the list.
* (`unjoined`) The hub adds a client after it has acknowledged it
  (`hub.go:686`, `:711`): a change in between reaches neither the reconnection
  handler's fetch nor the client.
* An issue that leaves `cancelled`, which has no column, is not added to the one
  it enters; "load more" skips rows after a move (`mutations.ts:69-92`).

### The chat window

* (`missed`) The handler of a reconnection asks for no chat
  (`use-realtime-sync.ts:496-521`).
* (`cancelled`) A task that somebody else stops leaves its spinner: nothing
  handles `task:cancelled` (`chat-window.tsx:253`, `task.go:168`).
* (`swept`) So does a task that the server fails by itself: the event does not
  name the chat session (`task.go:736-746`).
* (`refused`) A message that does not reach the server leaves its bubble, and
  the draft is gone (`chat-window.tsx:215`, `chat-input.tsx:70-72`).
* (`late`) The pending task is seeded after its end was announced
  (`chat-window.tsx:223`).
* (`overtaken`) As above.
* (`headless`) The first report that arrives creates a timeline that counts as
  complete (`use-realtime-sync.ts:378`).
* The answer to a creation selects its session although the user has gone on to
  another one (`:196`); the effect that restores the selection runs before the
  sessions are loaded (`:123-143`); marking as read is retried without delay as
  long as it fails (`:155`); two sends before the first answer create two
  sessions or tasks.

### The session

* (`switch`) A deep link replaces a session, or one that is being restored,
  without clearing anything of it (`App.tsx:53`).
* (`late`) Answers of `refreshMe`, and lists that a sign-in asks for, are
  written without a look at the session (`use-logout.ts:34`).
* (`revoked`) A 401 drops the token and leaves the user signed in; that of a
  request of the session before removes the new token (`client.ts:200-207`).
* (`forgotten`) A session that cannot be restored leaves its drafts.
* (`kept`) Stores built on `persist` keep what they show when nothing is stored
  for the new workspace (`draft-store.ts:53`), where `use-logout.ts:31-34` wants
  no draft to "leak to the next user on this device".
* (`password`) A password yields a user without a token (`login-page.tsx:243`).
* `auth-initializer.tsx:118-124` clears the token on any failure, although
  `auth/store.ts:63-69` says that only a 401 does; nothing calls that
  `initialize`.
* A deep link that launches the application on Windows or Linux is lost
  (`apps/desktop/src/main/index.ts:46-51`, `:215-221`).
* A profile update replaces the user object, and with it the connection: events
  in between are missed (`provider.tsx:79-116`).
* `storage-cleanup.ts:10-20` clears neither recent issues nor collapsed comments.

## 6. What is proved

For every value of the constants that satisfies the assumptions named in the
modules (any number of agents, issues, handlers, servers, rows, periods, users,
workspaces, tokens, chat sessions, messages, issues, columns, comments, events
on their way and requests in flight). The theorems about `Session` and
`CachesHeal` also assume `Races = {}`, as the runs do; the others about
`IssueCache` and `ChatWindow` exclude the races they name and admit all others.
A theorem states every property of the runs but those about liveness.

| module | theorem | statement |
|---|---|---|
| `TaskQueueProofs` | `TypesAlways` | `Spec => []TypeOK` |
| | `InvariantAlways` | `Spec => []IInv` |
| | `SerialAlways` | `Spec => []SerialPerIssueAgent` |
| | `EndedTasksStay` | `Spec => TerminalIsForever` |
| | `OvershootBounded` | `Procs` finite implies `Spec => []OvershootIsBounded` |
| | `QueueImplementsLanes` | `Spec => ImplementsLanes` |
| `RetryProofs` | `RetriedOnceAlways` | `Spec => []RetriedAtMostOnce` |
| | `FollowedUpAlways` | no `"crash"` in `Events` implies `Spec => []FailureIsFollowedUp` |
| | `NoIssueIsLeft` | no `"crash"`, no `"status"` in `Events`, no `"in_progress"` in `AgentSets`, `DaemonReasons \subseteq {"agent_error"}` imply `Spec => []NoIssueLeftInProgress` |
| | `ChatsAreServedInOrder` | `Procs = {p}` implies `Spec => []ChatsAreSerial` |
| | `ArchivedHasNothingToDo` | `Procs = {p}`, no `"crash"` imply `Spec => []ArchivedAgentHasNoTask` |
| | `OnlyTheAssigneeWorks` | `Procs = {p}`, no `"crash"`, no `"comment"` imply `Spec => []OnlyAssigneeHasTasks` |
| `AutopilotProofs` | `TypesAlways` | `Spec => []TypeOK` |
| | `InvariantAlways` | `Spec => []FireInv` |
| | `FiresOnceAlways` | `Spec => []FiresOncePerPeriod` |
| | `NoTriggerIsLost` | `Statuses \subseteq {"active"}` implies `Spec => []NoTriggerLost` |
| | `CompletedRunsCompleted` | `Spec => []CompletedRunsDidComplete` |
| | `EndsAreFinal` | at most one handler, no `"archive"` in `Events` imply `Spec => EndIsFinal` |
| `TabProofs` | `NobodyIsEverStranded` | `Spec => []NobodyIsStranded` |
| | `GroupsAreAlwaysSound` | `Spec => []GroupsAreSound` |
| | `TabsAreAlwaysKept` | `Spec => TabsAreKept` |
| `SessionProofs` | `TypeCorrect` | `Spec => []TypeOK` |
| | `SplashGoesAway` | `Spec => []NoEndlessSplash` |
| | `SessionStaysWhole` | `Spec => []SessionIsWhole` |
| | `CacheStaysPrivate` | `Spec => []CacheIsPrivate` |
| | `DraftsStayPrivate` | `Spec => []DraftsArePrivate` |
| | `WorkspaceIsHeard` | `Spec => []HearsTheWorkspace` |
| `DaemonProofs` | `GuardIsHeld` | `Spec => []GuardHasItsHolder` |
| | `SetupIsShown` | `MaxInstalls = 1` implies `Spec => []SetupFailedMeansNoCli` |
| | `SidecarIsTrue` | `Hasty = FALSE` implies `Spec => []SidecarVouches` |
| | `DaemonIsOwned` | `Hasty = FALSE`, `CliMayFail = FALSE` imply `Spec => []SessionOwnsDaemon` |
| `ChatProofs` | `MessagesAreShownOnce` | `Spec => []NoEcho` |
| | `MessagesAreShown` | no `"missed"`, `"overtaken"`, `"refused"` in `Races` implies `Spec => []MessagesAreFresh` |
| | `PendingTaskIsShown` | no `"missed"`, `"overtaken"`, `"late"`, `"swept"`, `"cancelled"` implies `Spec => []PendingTaskIsFresh` |
| | `BadgeIsShown` | no `"missed"`, `"overtaken"` implies `Spec => []BadgeIsFresh` |
| | `TimelineIsShown` | no `"missed"`, `"overtaken"`, `"headless"` implies `Spec => []TimelineIsComplete` |
| `IssueProofs` | `NoIssueIsListedTwice` | no `"torn"`, `"reborn"` in `Races` implies `Spec => []NoDuplicates` |
| | `CachesHeal` | `Races = {}` implies `Spec => []CacheIsFresh` |

### The task queue

`SerialPerIssueAgent` is not inductive. A claim takes its row in `ClaimUpdate`
on the evidence of a snapshot: that nobody else is active in the lane *now*
follows from nothing in the state that the claim has read. The strengthening
`IInv` has the two facts that close the gap:

* `OnePendingTask`: at most one task of an (agent, issue) pair is queued or
  dispatched. This is the partial unique index of migration 037, kept by every
  insertion and disturbed by no update;
* `SnapshotStaysValid`: a row in the snapshot of a claim in flight has, as long
  as it is queued, nobody active in its lane. It holds when the snapshot is
  taken, because of the `NOT EXISTS`; afterwards only a dispatch could break
  it, and a task that is dispatched in this lane was pending before, hence is
  this row itself.

The remaining conjuncts say that the locals of handlers are what they are used
as (`LocalsOK`) and that rows that exist have an agent (`RowsComplete`).

Actions change the table in six ways only: not at all, by inserting a queued
row, by failing or cancelling live rows, by dispatching a row, by starting or
by completing one. `RowStep` lists them, and the lemmas `RowStepTyped`,
`RowStepTerminal` and `RowStepSafe` prove once for each of them what
every action needs; the lemma of an action then shows which `RowStep` it is and
that the locals it leaves behind are good (`GotoOK`, `GotoStep`). `NextStep`
puts the actions together, and the theorems follow by temporal reasoning.

`QueueImplementsLanes` maps each of the six to the lanes. Only rows of the lanes it touches
matter (`UntouchedLane`); an insertion finds the waiting place free because the
index admits the row, a dispatch finds nobody at work because of
`SnapshotStaysValid`, and where tasks end the lane loses what it holds
(`EndingLane`).

`OvershootIsBounded` is inductive as soon as the snapshot of a claim is known to
hold tasks of its agent only (`CandOfAgent`): a claim that passes `ClaimCount`
saw fewer running tasks than the limit, every other claim in flight is one of at
most `Cardinality(Procs) - 1`, and a dispatch turns a claim into a running task.
It is the one theorem that counts handlers, so it needs finitely many of them.

**Failures.** Which handler still owes a failed task its retry is not in the
table: it is in the locals of the handler whose UPDATE failed it. `Held(h[p])`
is that set. The failed tasks move in four ways (`RetryStep`): nothing happens
to them, an UPDATE fails some and its handler takes them, a handler drops one
that may not be retried or whose retry the index refuses, or it inserts the
retry and drops it.

* `RetriedAtMostOnce` follows from `HeldIsUnretried` (what is held has no child)
  and `HeldOnce` (two handlers hold no task in common), because an UPDATE fails
  only live rows, which nobody holds.
* `FailureIsFollowedUp` follows from `HeldOrFollowed`: a failure that may be
  retried is held, or a later task of its lane exists. The delicate way is the
  refused insertion, where the index says only that *some* task of the lane is
  pending; `LatestIsPending` says that this is the latest one, hence a later one.
  A server that dies drops what it holds (section 5): no `"crash"`.
* `NoIssueLeftInProgress` follows from `AbandonedIsReset`: for an issue that all
  its tasks have left, the last having died of the infrastructure, some batch
  `Resets` it, that is, has failed one of its tasks and has not yet come to it.
  When batches overlap, each may see the other's task as active only until
  it is failed, and whoever fails the last one comes after. Three things break
  this in the code and are excluded: a server that dies; somebody who sets
  the issue to `in_progress` by hand when its tasks are over (`"status"`,
  `AgentSets`), which is his wish; and a failure that a daemon reports through
  `FailTask` for another reason than that of the agent, which resets no issue
  (`DaemonReasons`, section 5).

**Requests one at a time.** With one handler, what it has read stays true until
it is idle: `ChatInv`, `ArchiveInv` and `AssigneeInv` say for each program
counter what it knows. The snapshot of a claim is still `Claimable` when it is
used (`ChatInv`), so the `NOT EXISTS` of `ClaimAgentTask` and its `ORDER BY` hold
for the chats, which no index guards. An agent found ready by `LoadAgent` is not
archived at the insertion, and a retry goes to an agent that is not archived
(`ArchiveInv`). Whoever is about to be enqueued is the assignee, and between the
UPDATE of the assignee and the cancellation the handler stands at `cancelIssue`
of this issue (`AssigneeInv`). The argument needs the origin of every inserted
row, of the one the handler was about to enqueue, or of its parent (`Descends`).
`Procs = {p}` is no convenience: with two handlers TLC violates all three
properties (section 5). A mention enqueues any agent, hence no `"comment"`, and
a server that dies loses the cancellation that follows an assignment or an
archiving.

The theorems of these modules rest on one more assumption of `TaskRows`: `None`
is none of the values it stands beside, in particular no number of a row.

### The autopilots

`FiresOncePerPeriod` compares runs with each other, and the period of the next
run comes from a claim that was made many steps earlier, by a server that may
meanwhile have been taken for dead. `FireInv` adds what makes the next run new:

* `ClaimsOK`: a claim in the hands of a goroutine lies before the next time of
  its trigger, belongs to that goroutine only, and has no run;
* `RunsOK`: the period of a run lies before the next time of its trigger.

A claim takes the time that `next_run_at` has, which lies *after* all claims and
runs of the trigger, and sets it to NULL; whoever gives the trigger a new time,
the dispatcher, a server that starts, or a user, gives one after `now`, and
everything that was claimed lies at or before `now`. So a recovery that takes a
claimed trigger for a lost one does no harm. Seen from the schedule a step
claims (`ClaimDueKeeps`), turns a claim into a run (`CreateRunKeeps`), or does
neither (`MovesOnKeeps`); `NextStep` says which action is which. The other
conjuncts are `TypeOK`, `LocalsOK` (a goroutine at work on a run works on one
that exists) and `KnownRuns` (only runs that exist have an issue or a task).

`NoTriggerLost` needs to know where a goroutine forgets what it holds: `HandsOK`
says that, outside of a tick, a recovery or a dispatch, it holds no trigger, so
every return of the code is one at which nothing is lost. A crash leads to
"down", from which the server recovers what is `Lost` when it starts, whoever
lost it. That holds as long as the recovery sees all triggers, which it does
not for a paused autopilot (section 5), hence `Statuses \subseteq {"active"}`.

`CompletedRunsDidComplete` compares the run with its task and its issue, which
other goroutines write. `ResultInv` adds that a run is dispatched by one
goroutine, that this one makes its only task and has not made it before, and
that a listener on the way to ending a run for its issue has seen an issue; an
issue row that is deleted remains one that existed. No assumption: all listeners
and dispatches may overlap, which `EndIsFinal` does not survive.

`EndIsFinal` is about a step, but whether a run may be ended was read in an
earlier one. `EndInv` says what makes that reading last: a run has an issue or a
task, never both (`OneEnd`); a listener that is about to end a run finds it open
still; and a dispatch that is about to fail has lost its issue (`EndOK`), so it
ends a run that no listener is on the way to end. Any number of servers may
dispatch, crash and start again meanwhile. A second handler, or an agent that is
archived between the link and the enqueue, breaks it in the code (section 5), and
TLC finds both.

### The tabs

`NobodyIsStranded` speaks of one moment; which tabs, workspaces and overlays are
there depends on answers and navigations that come in any order. `ShownInv` says
what they leave behind: once the list has arrived only listed workspaces have
tabs; if there is one, a listed workspace is active, and otherwise an overlay is
up or about to be; a workspace that was just accepted stays listed until the
timer navigates to it. Seen from this invariant an operation of the store stays
in its workspace (`Stays`) or opens one (`Opens`), which the lemmas of the first
part show for each; the second part goes through the actions and uses that every
workspace opened is a listed one.

`GroupsAreSound` is nearly inductive by itself: what its types do not say is
that a router stands at one of its entries and that a tab's length is at least
one. Without the first, synchronising a tab with its router (`Synced`) could
give it anything as a path; without the second, `OnForward` could lead before
the first entry. `GroupsInv` adds these two (`TabOK`), and gives the rest the
form in which operations keep it: each group is sound by itself (`GroupOK`), and
two of them have no id in common (`GroupsOK`). Then an operation need only say
which ids the group it replaces has: those it had (`WithinOK`), or a fresh one
besides (`OpenedOK`, `AloneOK`).

The difficulty is in the sequences: `closeTab` and `moveTab` remove and insert,
a launch and a migration filter. Each is a bijection between old and new
places (`PicksAllBut`, `OfWorkspaceIsFilter`), which no proof by induction is
needed for: `OfWorkspace` numbers the tabs it keeps by their rank, the
number of kept tabs up to them, and an injection between finite sets of the same
size reaches all of them (`RanksAreABijection`).

`TabsAreKept` comes with the same lemmas. `StoreKeeps(S)` says that an operation
leaves sound groups in which the ids of `S` are still found, and `S` is all ids
but the closed one for `closeTab`, those of the valid workspaces for
`validateWorkspaceSlugs`, and all ids for everything else; only the launch is
seen tab by tab (`RelaunchOK`).

### The session

That the cache is private depends on everything that can put something into it:
answers of requests, of a sign-in that asks for the list, of a restoration that
was begun before something else happened. The inductive invariant is the
conjunction of

* `Types` and `AllIssued`: every token that is kept, sent or connected with was
  issued to a user;
* `Calls`: what the one asynchronous function in flight has in its hands fits
  the stores. A restoration works with the stored token and nobody is signed
  in before it ends; a sign-in by code or link has stored its token;
* `SessionIsWhole` and `CacheIsPrivate`: user, stored token and token of the
  client belong together; what is cached, and every request whose answer will
  still be written, is of the user who is signed in;
* `Place` and `Kept`: who has a workspace is signed in and a member of it, and
  drafts, shown or stored, are of that user;
* `Hears`: the connection is that of user and workspace.

Signing out is where they meet: it clears the cache, and thereby the requests
in flight, the drafts of all workspaces, the tokens and the user in one action
of the thread; the mutants of the runs that reorder or drop one of these break
`CacheIsPrivate` or `DraftsArePrivate`. The proof has a lemma for each conjunct
with one step per action.

### The daemon manager

Four inductive invariants, the later ones on top of the first.

* `GuardInv`: who holds the guard of `withGuard` is inside start, stop or
  restart (`Operating`), and every way out of these is `Return`, which frees
  it. No assumption on what fails or how sessions change: `GuardIsHeld` covers
  the restarts that run beside the guard as well.
* `SetupInv`: while the CLI is being resolved no call stands where a CLI is
  needed and no poll is in flight, so nothing overwrites what the window shows
  of the set-up. A second installation breaks this (section 5), hence
  `MaxInstalls = 1`.
* `SidecarInv`: one call at a time files a token, and what it is about to
  write fits the user it works for. Two sessions that file at once break it,
  hence `Hasty = FALSE`; commands may fail and the application may be launched
  again.
* `Owned`: `FilesOwned` says how far the two files are from those of the user
  by where the call that files stands; `DaemonFixed` says that a daemon with
  somebody else's credentials has a call in flight that leads to its restart or
  its end (`Fixing`). When nothing is in flight there is no such call, which is
  `SessionOwnsDaemon`. A kill that fails loses that call for good, hence
  `CliMayFail = FALSE`.

### The chat window

What the client shows once all is quiet follows from how it got there, so the
invariants speak of what is still under way. An entry of the cache is `Current`
when what it shows, or will show after the fetch in flight, is what the server
has; and it is *awaited* when something is in flight that will have it fetched
anew. Each entry is one or the other:

* messages (`MessagesInv`): an event that invalidates them is on the wire, or a
  message of the session is being sent, whose answer will invalidate them;
* the pending task (`PendingInv`): such an event, a request to stop it, or a
  task that has completed and whose reply is not yet stored and announced;
* the badge (`BadgeInv`): such an event, a request to mark a session as read,
  which ends in a refetch whether it succeeds or not, or a session that was
  created and whose answer is on its way.

When all is quiet nothing is awaited; and an entry in use is fetched or has data
that count as fresh (`InUseIsServed`), so it shows what the server has. Each of
the races excluded is a way to lose the one without gaining the other: an event
that is missed, or arrives before the answer that was read before it; a message
that is refused after its bubble was written; a task that ends without an event
for its session; a seed that arrives after the end.

The timelines are never invalidated: reports are appended one by one.
`TimelineInv` says that every report that is not among the data, or in the answer
under way, is on the wire, and that after a report on the wire come all later
ones. The second part is what a lookup of a timeline that was just created by a
report needs; a timeline created by a later report than the first is the race
`"headless"`.

`NoEcho` needs no exclusion. `Unechoed` says that data which hold a message as
stored do not hold its bubble, that an answer under way has no bubbles, that what
is held as stored is stored, and that a stored message is not about to be sent: so
a bubble, which is written before its message is sent, is never written beside
the message.

`Typed` carries the rest. There is one lemma for each action (`SendIsTyped` and so
on) that also states what the action does to the server, the cache and the wire;
the invariants are proved from these lemmas, not from the actions.
`NoneIsNothing` says that `None` is none of the values it stands beside.

### The issues

The list is harder than the entries of the chat: an event does not have it
fetched but changes it in place, one issue at a time, so it may be right for one
issue and behind for another, and an event that is applied twice, or to a list
that has been fetched since, must do no harm.

`NoDuplicates` is not inductive: an event of a creation adds its issue to the
column it names, whatever the other columns have. `Homes` is what a list may be,
shown, fetched, saved by a mutation for its rollback or put aside by a fetch:
every issue is in it at most once, and a *young* one, whose creation a mutation
or an event on its way has still to announce to this client, is at most in the
column it was born in. So the late event finds it there or nowhere. The price is
that a young issue is not changed (race `"reborn"`) and that the columns of an
answer belong together (`"torn"`). `Typed` says this of all places at which a
list is kept. The helpers of `cache-helpers.ts` are seen through `Places`: which
cells of which issue they change, and where the issue is afterwards.

`CacheIsFresh` says what holds when nothing is under way; `Fresh` says it of all
states:

* `Current`: each entry is `Awaited`, as a mutation whose end invalidates it is
  in flight, the connection is down, or, for the timeline, a comment event is on
  the wire, which invalidates it; or what it shows and what its fetch has read
  is `Due`;
* what is `Due` of a list: an issue of which no event on the wire speaks
  (`Silent`) is exactly where the server has it, and one that an event is about
  to move is in some column, since `patchIssueInBuckets` ignores an issue that
  it does not find (`Right`);
* `Told`: the last event about an issue on the wire tells what has become of it.
  This is what makes an event a step towards the server: after the last one the
  issue is silent and where it should be; before that nothing is claimed. It
  also says that after a deletion nothing else is told, so no event brings a
  deleted issue back;
* `Used`: an entry in use is fetched or has data that count as fresh;
* `Offline` and `Commenting`: who is not connected is on a page that has its
  entries invalidated by the reconnection, and who changes a comment has a
  timeline that the end of the mutation invalidates.

A change of the server appends its events, so it makes the issue loud instead of
wrong; without a connection there is no event, but then everything is fetched
after the reconnection, and between the acknowledgement and the hub nothing
changes (`"unjoined"`). A rollback restores what is out of date, but its entry is
invalidated in the same step. Each of the other races breaks one of these parts:
an event, or a write of this client, that is overwritten by an answer read before
it (`"overtaken"`), an invalidated entry that no page fetches
(`"unmounted"`), a row of the list that is copied although it is awaited
(`"seeded"`).

The proof has one lemma for each action in both parts; the second uses only what
those of the first say. `NoneIsNothing` says that `None` and `Gone` are none of
the values they stand beside, `ColumnsAreInOrder` that there is a column, and
`NamesAreDistinct` that issues and comments are finitely many (a batch is
announced by a sequence) and have different ids.

### Model-checked only

Liveness (`ActiveTaskEnds`, `QueuedTaskLeavesQueue`, `DueTriggerFires`,
`ShowsRunning`, `PendingRestartIsTried`, `UnreadClears`) rests on fairness and is
beyond the prover.

## 7. What is not modelled

* In the modelled components of the server: `CreateIssue`, `DeleteIssue` and
  `BatchUpdateIssues` (the same cancel-and-enqueue code for each issue),
  deletion of rows, changes of `max_concurrent_tasks`, the merge of legacy
  runtimes, the resume pointer of chats, payloads and events; creation and
  deletion of autopilots and triggers, and errors of the database.
* In the modelled components of the clients: streaming of the daemon's log and
  its preferences; pushes of hidden tabs that come late; labels, reactions,
  subscribers and usage of issues; archived chat sessions; sign-in with cookies
  and that of the command line client.
* The hub, the relay and the event bus: the clients see them as a wire that
  keeps its order and may be cut.
* The poll loop of the daemon, its slots and the poll for cancelled tasks;
  request stores polled by heartbeats.
* Listeners for inbox, notifications, subscribers and activity: derived data,
  written after the fact.
* Authentication, workspaces and invitations on the server: sequential handlers
  over single rows.
* The board. Its state is a copy of the lists of `IssueCache` that drags freeze
  (`packages/views/issues/components/board-view.tsx`). Read, not checked: the
  flag that the comment at line 137 describes as a lock of one animation frame
  is set at the end of every drag (`:211`), but released only by an effect of
  `[columns]` (`:149-154`), and the columns are not rebuilt while it is set
  (`:144`); a board seems to follow its lists again only when it is mounted
  anew. The test of it (`board-view.test.tsx:278`) matches the text of the source.
* Pages, editor, user interface kit, landing pages and documentation
  site: rendering, forms of one request and pure functions. They are most of
  the lines of the clients.
* Agent backends, the command line client, storage, analytics and email: input
  and output.
