\* One agent and one issue, two handlers at a time: comments, reruns,
\* cancellations and every way a task can fail.
SPECIFICATION Spec
CONSTANTS
    None = None
    a1 = a1  a2 = a2  i1 = i1  i2 = i2  c1 = c1  x1 = x1
    r1 = r1  r2 = r2  p1 = p1  p2 = p2
    Agents = {a1}
    Issues = {i1}
    Chats = {}
    Runs = {}
    Runtimes = {r1}
    Procs = {p1, p2}
    MaxTasks = 4
    MaxAttempts = 2
    MaxConcurrent = 2
    MaxRequests = 2
    AgentSets = {"done"}
    InitialStatus = {"in_progress"}
    DaemonReasons = {"agent_error"}
    Events = {"comment", "rerun", "cancel"}
    Priority <- SamePriority
    ChatAgent <- FirstAgent
SYMMETRY Symmetry
INVARIANTS TypeOK SerialPerIssueAgent RetriedAtMostOnce FailureIsFollowedUp NoIssueLeftInProgress
PROPERTIES TerminalIsForever ImplementsLanes
