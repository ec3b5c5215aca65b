\* The messages and the pending task of a chat: one message is sent, here or by
\* another client, and a task may fail and be tried again.
SPECIFICATION Spec
CONSTANTS
    None = None
    s1 = s1  s2 = s2  m1 = m1  m2 = m2
    Sessions = {s1}
    Marks = {m1}
    MaxSends = 1
    MaxTasks = 2
    MaxSteps = 0
    MaxWire = 2
    MaxLost = 1
    Races = {}
    Followed = {"messages", "pendingTask"}
INVARIANTS MessagesAreFresh  NoEcho
