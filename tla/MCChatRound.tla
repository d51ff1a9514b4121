----------------------------- MODULE MCChatRound -----------------------------
(* Small instances of ChatRound for TLC.                                     *)
EXTENDS ChatRound

CONSTANTS q1, q2, a1, a2

\* two requests of different assistants may run at the same time
OwnAssistant == [q \in Request |-> IF q = q1 THEN a1 ELSE a2]
==============================================================================
