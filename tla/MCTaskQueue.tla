---------------------------- MODULE MCTaskQueue ----------------------------
(* Instances of TaskQueue for TLC. *)
EXTENDS TaskQueue, TLC

CONSTANTS a1, a2, i1, i2, c1, x1, r1, r2, p1, p2

Symmetry == Permutations(Procs)

SamePriority == [w \in Works |-> 0]
ChatFirst    == [w \in Works |-> IF w \in Chats THEN 2 ELSE 0]
FirstAgent   == [c \in Chats |-> a1]
=============================================================================
