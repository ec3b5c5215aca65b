------------------------------ MODULE TaskRows ------------------------------
(***************************************************************************)
(* The table agent_task_queue and the SQL statements that write it         *)
(* (server/pkg/db/queries/agent.sql, runtime.sql).  Each operator below is *)
(* ONE statement: PostgreSQL runs it atomically, and everything that the   *)
(* Go code does between two statements may interleave with other requests. *)
(* The modules of the handlers EXTEND this one and string the statements   *)
(* together in the order of the code.                                      *)
(*                                                                         *)
(* A row is identified by its number, and numbers grow with created_at.    *)
(* The columns nobody rewrites are kept together in row[t]; work is the    *)
(* issue, the chat session or the autopilot run that the task serves:      *)
(* exactly one of the three columns is set by the code that inserts rows.  *)
(***************************************************************************)
EXTENDS Naturals, FiniteSets

CONSTANTS
    Agents,       \* agents that own tasks
    Issues,       \* values of issue_id
    Chats,        \* values of chat_session_id
    Runs,         \* values of autopilot_run_id (run_only autopilots)
    Runtimes,     \* values of runtime_id
    MaxTasks,     \* bound: number of rows ever inserted
    MaxAttempts,  \* max_attempts, 2 by default in migration 055
    Priority,     \* Priority[w]: the priority copied into the tasks of w
    None          \* NULL

ASSUME TaskRowsAssumption ==
    /\ MaxTasks \in Nat
    /\ MaxAttempts \in Nat \ {0}
    /\ Priority \in [Issues \cup Chats \cup Runs -> Nat]
    /\ Issues \cap Chats = {} /\ Issues \cap Runs = {} /\ Chats \cap Runs = {}
    /\ None \notin Agents \cup Issues \cup Chats \cup Runs \cup Runtimes \cup (1..MaxTasks)

VARIABLES
    created,  \* number of rows inserted so far
    row,      \* row[t]: the columns that are written by INSERT only
    status,   \* status[t], "none" before the row exists
    reason    \* failure_reason[t]

rowVars == <<created, row, status, reason>>

TaskId    == 1..MaxTasks
Works     == Issues \cup Chats \cup Runs
Active    == {"dispatched", "running"}
Pending   == {"queued", "dispatched"}      \* what the partial unique index covers
Live      == {"queued", "dispatched", "running"}
Terminal  == {"completed", "failed", "cancelled"}
Status    == {"none"} \cup Live \cup Terminal
Retryable == {"runtime_offline", "runtime_recovery", "timeout"}
Reason    == {"agent_error", None} \cup Retryable

Row == [agent   : Agents \cup {None},
        work    : Works \cup {None},
        runtime : Runtimes \cup {None},
        attempt : 0..MaxAttempts,
        parent  : TaskId \cup {None}]

NoRow == [agent |-> None, work |-> None, runtime |-> None,
          attempt |-> 0, parent |-> None]

RowsTypeOK ==
    /\ created \in 0..MaxTasks
    /\ row \in [TaskId -> Row]
    /\ status \in [TaskId -> Status]
    /\ reason \in [TaskId -> Reason]
    /\ \A t \in TaskId : (status[t] = "none") <=> (t > created)

RowsInit ==
    /\ created = 0
    /\ row = [t \in TaskId |-> NoRow]
    /\ status = [t \in TaskId |-> "none"]
    /\ reason = [t \in TaskId |-> None]

-----------------------------------------------------------------------------
(* Reads *)

TasksIn(S) == {t \in TaskId : status[t] \in S}

\* Two tasks that must not run together: same agent, same issue or chat.
SameLane(t, u) ==
    /\ row[t].agent = row[u].agent
    /\ row[t].work = row[u].work
    /\ row[t].work \in Issues \cup Chats

\* Mutant: queued tasks count too.
CountLiveTasks(a) ==
    Cardinality({t \in TasksIn(Live) : row[t].agent = a})

\* CountRunningTasks
CountRunningTasks(a) ==
    Cardinality({t \in TasksIn(Active) : row[t].agent = a})

\* HasPendingTaskForIssueAndAgent
HasPendingTask(a, w) ==
    \E t \in TasksIn(Pending) : row[t].agent = a /\ row[t].work = w

\* HasActiveTaskForIssue
HasActiveTask(i) == \E t \in TasksIn(Live) : row[t].work = i

\* idx_one_pending_task_per_issue_agent; NULL issue_id never conflicts.
IndexAdmits(a, w) == w \in Issues => ~HasPendingTask(a, w)

\* Mutant: the sub-select without its NOT EXISTS.
ClaimableAnyLane(a) == {t \in TasksIn({"queued"}) : row[t].agent = a}

\* Mutant: the NOT EXISTS compares issues only, and never chat sessions.
ClaimableAnyChat(a) ==
    {t \in TasksIn({"queued"}) :
        /\ row[t].agent = a
        /\ \A u \in TasksIn(Active) : row[t].work \in Issues => ~SameLane(t, u)}

\* The rows the sub-select of ClaimAgentTask finds for agent a.
Claimable(a) ==
    {t \in TasksIn({"queued"}) :
        /\ row[t].agent = a
        /\ \A u \in TasksIn(Active) : ~SameLane(t, u)}

\* ORDER BY priority DESC, created_at ASC
Before(t, u) ==
    \/ Priority[row[t].work] > Priority[row[u].work]
    \/ Priority[row[t].work] = Priority[row[u].work] /\ t < u

-----------------------------------------------------------------------------
(* Writes *)

\* CreateAgentTask, CreateChatTask and CreateAutopilotTask (attempt 1, no
\* parent) and CreateRetryTask insert one queued row, or fail on the index.
Insert(r) ==
    /\ created < MaxTasks
    /\ IndexAdmits(r.agent, r.work)
    /\ created' = created + 1
    /\ row' = [row EXCEPT ![created + 1] = r]
    /\ status' = [status EXCEPT ![created + 1] = "queued"]
    /\ UNCHANGED reason

FreshRow(a, w, r) ==
    [agent |-> a, work |-> w, runtime |-> r, attempt |-> 1, parent |-> None]

RetryRow(t) ==
    [row[t] EXCEPT !.attempt = @ + 1, !.parent = t]

\* Every UPDATE of the status column: the rows of S go to state s.
SetStatus(S, s) ==
    /\ status' = [t \in TaskId |-> IF t \in S THEN s ELSE status[t]]
    /\ UNCHANGED <<created, row>>

\* CancelAgentTask, CancelAgentTasksByIssue, ...ByIssueAndAgent, ...ByAgent
Cancel(S) ==
    /\ SetStatus(S \cap TasksIn(Live), "cancelled")
    /\ UNCHANGED reason

\* FailAgentTask, RecoverOrphanedTasksForRuntime, FailTasksForOfflineRuntimes
\* and FailStaleTasks: S holds dispatched and running rows only.
Fail(S, why) ==
    /\ SetStatus(S, "failed")
    /\ reason' = [t \in TaskId |-> IF t \in S THEN why ELSE reason[t]]
=============================================================================
