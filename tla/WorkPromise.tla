----------------------------- MODULE WorkPromise -----------------------------
(***************************************************************************)
(* What the background services promise the user who pays for them: a      *)
(* model call is charged to the budget before it is made, a piece of work  *)
(* has at most one accepted result, a result comes from a call, and what   *)
(* was cancelled is accepted no more.  BackgroundJobs implements it.       *)
(***************************************************************************)
EXTENDS Naturals

CONSTANT Work          \* the pieces of work

VARIABLES
  charged,   \* charges made for each piece of work
  called,    \* calls made for it
  accepted,  \* the work whose result is accepted
  dropped    \* the work that was cancelled

promise == <<charged, called, accepted, dropped>>

Begin ==
  /\ charged = [w \in Work |-> 0]
  /\ called = [w \in Work |-> 0]
  /\ accepted = {}
  /\ dropped = {}

Charge(w) ==
  /\ w \notin accepted \cup dropped
  /\ charged' = [charged EXCEPT ![w] = @ + 1]
  /\ UNCHANGED <<called, accepted, dropped>>

Call(w) ==
  /\ w \notin accepted \cup dropped
  /\ called[w] < charged[w]
  /\ called' = [called EXCEPT ![w] = @ + 1]
  /\ UNCHANGED <<charged, accepted, dropped>>

Accept(w) ==
  /\ w \notin accepted \cup dropped
  /\ called[w] > 0
  /\ accepted' = accepted \cup {w}
  /\ UNCHANGED <<charged, called, dropped>>

Cancel(w) ==
  /\ w \notin accepted
  /\ dropped' = dropped \cup {w}
  /\ UNCHANGED <<charged, called, accepted>>

(* Deleting an assistant takes everything it has.                          *)
Erase(W) ==
  /\ accepted \subseteq W
  /\ dropped' = dropped \cup W
  /\ accepted' = {}
  /\ UNCHANGED <<charged, called>>

WorkStep ==
  \/ \E w \in Work : Charge(w) \/ Call(w) \/ Accept(w) \/ Cancel(w)
  \/ \E W \in SUBSET Work : Erase(W)

Promise == Begin /\ [][WorkStep]_promise
==============================================================================
