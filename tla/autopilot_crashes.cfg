\* Two servers that crash and start again: run_only runs of one trigger that is
\* changed, of manual requests and of an agent that is archived.
SPECIFICATION Spec
CONSTANTS
    None = None
    t1 = t1  t2 = t2  ap1 = ap1  ap2 = ap2  ag1 = ag1  s1 = s1  s2 = s2  p1 = p1
    Triggers = {t1}
    Autopilots = {ap1}
    Agents = {ag1}
    Schedulers = {s1, s2}
    Handlers = {p1}
    Modes = {"run_only"}
    Statuses = {"active"}
    TaskEnds = {"completed", "cancelled"}
    Events = {"crash", "trigger", "archive", "manual"}
    MaxTime = 2
    MaxRuns = 4
    MaxRequests = 2
    Owner <- OwnOwner
    Assignee <- OneAgent
SYMMETRY Symmetry
INVARIANTS FiresOncePerPeriod NoTriggerLost CompletedRunsDidComplete
