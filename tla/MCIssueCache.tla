---------------------------- MODULE MCIssueCache ----------------------------
(* Instances of IssueCache for TLC. *)
EXTENDS IssueCache, TLC

CONSTANTS i1, i2, c1, c2, m1, m2
Symmetry == Permutations(Slots)
Columns == <<"todo", "done">>
=============================================================================
