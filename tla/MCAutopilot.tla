---------------------------- MODULE MCAutopilot ----------------------------
(* Instances of Autopilot for TLC. *)
EXTENDS Autopilot, TLC

CONSTANTS t1, t2, ap1, ap2, ag1, s1, s2, p1

Symmetry == Permutations(Schedulers)

\* One autopilot per trigger, and one agent for all.
OwnOwner == [t \in Triggers |-> IF t = t1 THEN ap1 ELSE ap2]
OneAgent == [a \in Autopilots |-> ag1]
=============================================================================
