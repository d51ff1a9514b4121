------------------------- MODULE MCRetentionCleanup -------------------------
(* A small instance of RetentionCleanup for TLC.                           *)
EXTENDS RetentionCleanup, TLC

CONSTANTS m1, p1, p2, k1, k2, k3

\* both previews would clear the one text
OneText == [q \in Preview |-> {m1}]
Clearing == [q \in Preview |-> "empty"]

\* two calls decide about the first preview
TwoForTheFirst == (k1 :> p1) @@ (k2 :> p2) @@ (k3 :> p1)
=============================================================================
