----------------------------- MODULE AgentLanes -----------------------------
(***************************************************************************)
(* What the task queue promises for issues, seen from outside: every       *)
(* (agent, issue) pair is a lane with room for one task that waits and one *)
(* task that is worked on.  A task that waits moves up when nobody is      *)
(* worked on; while a task is only dispatched, and has not started, no     *)
(* other task may wait: new triggers coalesce with it.                     *)
(***************************************************************************)
CONSTANT Lanes

VARIABLES
    waiting,  \* waiting[l]: a task of lane l is queued
    holder    \* holder[l]: the task of lane l that an agent has, if any

Holder == {"nobody", "dispatched", "running"}

Init ==
    /\ waiting = [l \in Lanes |-> FALSE]
    /\ holder = [l \in Lanes |-> "nobody"]

TypeOK ==
    /\ waiting \in [Lanes -> BOOLEAN]
    /\ holder \in [Lanes -> Holder]

\* A trigger, a rerun or a retry puts a task in the empty waiting place.
Enqueue(l) ==
    /\ ~waiting[l] /\ holder[l] # "dispatched"
    /\ waiting'[l] /\ holder'[l] = holder[l]

\* The waiting task moves up to a free agent.
Claim(l) ==
    /\ waiting[l] /\ holder[l] = "nobody"
    /\ ~waiting'[l] /\ holder'[l] = "dispatched"

Start(l) ==
    /\ holder[l] = "dispatched" /\ holder'[l] = "running"
    /\ waiting'[l] <=> waiting[l]

\* The task ends, a waiting one is cancelled, or both.
Leave(l) ==
    /\ holder'[l] \in {holder[l], "nobody"}
    /\ waiting'[l] => waiting[l]

\* One statement may end tasks of many lanes.
Next ==
    /\ waiting' \in [Lanes -> BOOLEAN]
    /\ holder' \in [Lanes -> Holder]
    /\ \A l \in Lanes : Enqueue(l) \/ Claim(l) \/ Start(l) \/ Leave(l)

Spec == Init /\ [][Next]_<<waiting, holder>>
=============================================================================
