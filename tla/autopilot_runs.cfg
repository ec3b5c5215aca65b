\* One server and two triggers: runs whose issues are closed, reopened and
\* deleted while they are dispatched, of autopilots that are paused and resumed.
SPECIFICATION FairSpec
CONSTANTS
    None = None
    t1 = t1  t2 = t2  ap1 = ap1  ap2 = ap2  ag1 = ag1  s1 = s1  s2 = s2  p1 = p1
    Triggers = {t1, t2}
    Autopilots = {ap1, ap2}
    Agents = {ag1}
    Schedulers = {s1}
    Handlers = {p1}
    Modes = {"create_issue"}
    Statuses = {"active", "paused"}
    TaskEnds = {}
    Events = {"status", "delete", "update"}
    MaxTime = 1
    MaxRuns = 2
    MaxRequests = 2
    Owner <- OwnOwner
    Assignee <- OneAgent
PROPERTIES EndIsFinal DueTriggerFires
