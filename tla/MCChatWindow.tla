---------------------------- MODULE MCChatWindow ----------------------------
(* Instances of ChatWindow for TLC. *)
EXTENDS ChatWindow, TLC

CONSTANTS s1, s2, m1, m2
=============================================================================
