----------------------------- MODULE MCReminders -----------------------------
(* Small instances of Reminders for TLC.                                     *)
EXTENDS Reminders

CONSTANTS i1, i2

\* two reminders of one item: the catch-up rule has something to choose
SameItem == [r \in Reminder |-> i1]
\* one reminder per item: merged notifications have independent members
OwnItem == [r \in Reminder |-> IF r = 1 THEN i1 ELSE i2]

\* catch-up switched off with separate notices, and the unconfigured policy
SavedPolicies ==
  {[mode |-> "EXPLICIT", catchUp |-> 0, merge |-> FALSE],
   [mode |-> "UNCONFIGURED", catchUp |-> 0, merge |-> FALSE]}
==============================================================================
