--------------------------- MODULE MCDesktopTabs ---------------------------
(* Instances of DesktopTabs for TLC. *)
EXTENDS DesktopTabs, TLC

CONSTANTS sA, sB, issues, inbox, t1, t2, t3, t4

Symmetry == Permutations(Slugs) \cup Permutations(Ids)
=============================================================================
