\* What must happen in the end, whatever daemons do and although servers die;
\* claims that overlap.
SPECIFICATION FairSpec
CONSTANTS
    None = None
    a1 = a1  a2 = a2  i1 = i1  i2 = i2  c1 = c1  x1 = x1
    r1 = r1  r2 = r2  p1 = p1  p2 = p2
    Agents = {a1}
    Issues = {i1}
    Chats = {}
    Runs = {x1}
    Runtimes = {r1}
    Procs = {p1, p2}
    MaxTasks = 2
    MaxAttempts = 1
    MaxConcurrent = 1
    MaxRequests = 2
    AgentSets = {}
    InitialStatus = {"in_progress"}
    DaemonReasons = {"agent_error"}
    Events = {"comment", "run", "crash"}
    Priority <- SamePriority
    ChatAgent <- FirstAgent
INVARIANTS OvershootIsBounded
PROPERTIES ActiveTaskEnds QueuedTaskLeavesQueue
