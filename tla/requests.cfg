\* One request at a time: issues that are assigned, parked and closed, agents that
\* are archived and move, a chat session, and two runtimes that go offline and
\* come back.
SPECIFICATION Spec
CONSTANTS
    None = None
    a1 = a1  a2 = a2  i1 = i1  i2 = i2  c1 = c1  x1 = x1
    r1 = r1  r2 = r2  p1 = p1  p2 = p2
    Agents = {a1, a2}
    Issues = {i1}
    Chats = {c1}
    Runs = {}
    Runtimes = {r1, r2}
    Procs = {p1}
    MaxTasks = 3
    MaxAttempts = 2
    MaxConcurrent = 2
    MaxRequests = 2
    AgentSets = {}
    InitialStatus = {"in_progress"}
    DaemonReasons = {"timeout"}
    Events = {"assign", "status", "archive", "chat", "move", "stale", "deregister"}
    Priority <- ChatFirst
    ChatAgent <- FirstAgent
INVARIANTS OnlyAssigneeHasTasks ArchivedAgentHasNoTask ChatsAreSerial
