---- MODULE MCSession ----
\* Instances of Session for TLC.
EXTENDS Session, TLC
CONSTANTS u1, u2, w1, w2, t1, t2, t3

\* One workspace is shared by all users, the other is the first user's own.
Belongs == [w \in {w1, w2} |-> IF w = w1 THEN {u1, u2} ELSE {u1}]

TokensAlike == Permutations({t1, t2, t3})
====
