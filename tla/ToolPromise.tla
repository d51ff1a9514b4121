----------------------------- MODULE ToolPromise -----------------------------
(***************************************************************************)
(* What the tool ledger (provider/tool-repository.ts) promises its reader  *)
(* about the operations of a round, whatever happens around them.          *)
(*                                                                         *)
(* An operation opens once and is settled once: "done", "refused" (proven  *)
(* to have had no effect) or "unknown".  A business effect is made by an   *)
(* operation in the very step that reports it done, and only the first one *)
(* of a round has it.  An unknown operation may later be proven refused;   *)
(* nothing else is ever revised.                                           *)
(***************************************************************************)
EXTENDS Naturals

CONSTANTS Request, Call

VARIABLES
  outcome,  \* what the ledger says of an operation
  effect    \* how often the operation changed the business data

promise == <<outcome, effect>>

Outcome == {"none", "open", "done", "refused", "unknown"}

Settled(old, new) ==
  \/ new = old
  \/ old = "none" /\ new = "open"
  \/ old = "open" /\ new \in {"done", "refused", "unknown"}
  \/ old = "unknown" /\ new = "refused"

EffectFree(q) == \A c \in Call : effect[q][c] = 0

Init ==
  /\ outcome = [q \in Request |-> [c \in Call |-> "none"]]
  /\ effect = [q \in Request |-> [c \in Call |-> 0]]

(* One operation is applied: its effect and its report are one step.       *)
Apply(q, c) ==
  /\ outcome[q][c] = "open" /\ EffectFree(q)
  /\ outcome' = [outcome EXCEPT ![q][c] = "done"]
  /\ effect' = [effect EXCEPT ![q][c] = 1]

(* Any number of operations open or are settled without an effect.         *)
Report ==
  /\ outcome' \in [Request -> [Call -> Outcome]]
  /\ \A q \in Request, c \in Call : Settled(outcome[q][c], outcome'[q][c])
  /\ UNCHANGED effect

Next == Report \/ \E q \in Request, c \in Call : Apply(q, c)

Spec == Init /\ [][Next]_promise
==============================================================================
