\* What a task reports, and the unread badge; a request may be lost.
SPECIFICATION FairSpec
CONSTANTS
    None = None
    s1 = s1  s2 = s2  m1 = m1  m2 = m2
    Sessions = {s1}
    Marks = {m1}
    MaxSends = 1
    MaxTasks = 1
    MaxSteps = 2
    MaxWire = 2
    MaxLost = 1
    Races = {}
    Followed = {"messages", "taskMessages", "sessions"}
INVARIANTS  BadgeIsFresh
PROPERTIES UnreadClears
