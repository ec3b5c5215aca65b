-------------------------- MODULE MCDaemonManager --------------------------
(* Instances of DaemonManager for TLC. *)
EXTENDS DaemonManager, TLC

CONSTANTS u1, u2, c1, c2, c3, k1

\* Users and slots are interchangeable.
Symmetry == Permutations(Users) \cup Permutations(Slots)
=============================================================================
