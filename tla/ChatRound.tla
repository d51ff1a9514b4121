------------------------------ MODULE ChatRound ------------------------------
(***************************************************************************)
(* A chat round in normal mode: startChat() of provider/provider-service,  *)
(* the tool chain of provider/tool-execution with its ledger               *)
(* (tool-repository), the memory command a write tool issues               *)
(* (memory-service), and what takes a round away: cancelling, withdrawn    *)
(* authority, data governance, exit and crash.                             *)
(*                                                                         *)
(* The main process is single threaded.  "pc" says where a round stands;   *)
(* in a place of Resting it awaits something and others may run, anywhere  *)
(* else its section is running.  A section is cut at its commits, between  *)
(* which the process can die, and at the event callbacks, which may call   *)
(* the service again.                                                      *)
(***************************************************************************)
EXTENDS Integers, FiniteSets

CONSTANTS
  Request,       \* request ids: each names one round
  AssistantOf,   \* the assistant a request addresses
  Tooled,        \* the requests that run with tools
  MaxCalls,      \* bound: tool calls of one round
  Argument,      \* arguments a memory write may carry
  MaxGovernance, \* bound: governance generations
  MaxStops,      \* bound: exits and crashes
  MaxFaults      \* bound: storage errors

Call == 1..MaxCalls
Read == "read"
Tools == {Read} \cup Argument
Final == {"completed", "failed", "interrupted", "cancelled"}
Refusals == {"CONFIRMED_NOT_APPLIED", "CANCELLED_BEFORE_DISPATCH",
             "BLOCKED_BY_CURRENT_STATE"}
Open == {"PREPARED", "DISPATCHING"}
OpState == {"NONE", "SUCCEEDED", "RESULT_UNKNOWN"} \cup Open \cup Refusals
Resting == {"idle", "waiting", "returned", "ended", "gone"}
Callback == {"prepared", "dispatching", "recorded", "closing"}
Place == {"begun", "ready", "calls", "writing"} \cup Resting \cup Callback

ASSUME RoundAssumption ==
  /\ Tooled \subseteq Request
  /\ MaxCalls \in Nat /\ MaxGovernance \in Nat /\ MaxStops \in Nat
  /\ MaxFaults \in Nat
  /\ Read \notin Argument

VARIABLES
  rows,       \* durable: status of the answer in timeline_messages
  stored,     \* durable: answers whose row holds text
  segments,   \* durable: protocol_segments
  ops,        \* durable: tool_operations
  results,    \* durable: protocol_results, the operations with a kept body
  commands,   \* durable: memory_commands, one per round
  generation, \* durable: retention_state.generation
  granted,    \* rounds whose connection, binding, credential, permissions
              \* and sources are still those the round started with
  moving,     \* volatile: a policy batch has moved objects, not yet told
  phase,      \* "down"; "ledger", "memory": recovery steps due; "run"
  pc,         \* where a round stands
  call,       \* volatile: index of the round's latest operation
  verdict,    \* volatile: what the chain returned, or "error"
  inflight,   \* volatile: the in-flight map
  seen,       \* volatile: the generation a round started in
  aborted,    \* volatile: rounds whose controller was aborted
  expired,    \* volatile: rounds whose tool timer fired
  overrun,    \* volatile: rounds aborted for too long an answer
  partial,    \* volatile: rounds whose response holds text
  lost,       \* history: final writes that failed, of "row" or "ledger"
  exports,    \* history: requests sent to the model for a round
  effects,    \* history: memory changes made by an operation
  outdated,   \* history: rounds in flight when another one changed memory
  unwarned,   \* history: rounds in flight when a batch moved, not yet told
  stops, faults \* bound counters

timeline == <<rows, stored>>
ledger == <<segments, ops, results, commands>>
world == <<generation, granted, moving, phase, stops>>
round == <<pc, call, verdict>>
signals == <<aborted, expired, overrun>>
volatile == <<inflight, seen, signals, partial, lost, faults>>
history == <<exports, effects, outdated, unwarned>>
vars == <<timeline, ledger, world, round, volatile, history>>

NoCommand == [state |-> "NONE", call |-> 0, argument |-> Read]
NoOp == [state |-> "NONE", tool |-> Read]

(* Wrong variant: overlooks that the authority has changed.                *)
CheckSignals(q) == q \notin aborted \cup expired /\ generation = seen[q]

(* check() of the tool chain, which ends with assertCurrent().             *)
Check(q) ==
  /\ q \notin aborted \cup expired
  /\ generation = seen[q]
  /\ granted[q]

Free == \A q \in Request : pc[q] \in Resting
At(q, place) == pc[q] = place
Goto(q, place) == pc' = [pc EXCEPT ![q] = place]

(* Leaves the chain: the segment is closed, then the answer is finished.   *)
Leave(q, how) ==
  /\ Goto(q, IF q \in Tooled THEN "closing" ELSE "ended")
  /\ verdict' = [verdict EXCEPT ![q] = how]

CurrentOp(q) == ops[q][call[q]]
Record(q, state) == ops' = [ops EXCEPT ![q][call[q]].state = state]
KeepBody(q) == results' = results \cup {<<q, call[q]>>}

-----------------------------------------------------------------------------
(***************************************************************************)
(* startChat(): the user message and the pending answer are committed, the *)
(* round enters the in-flight map, its segment is opened, the model called.*)
(***************************************************************************)
Start(q) ==
  /\ phase = "run" /\ Free /\ rows[q] = "NONE"
  /\ \A other \in inflight : AssistantOf[other] # AssistantOf[q]
  /\ rows' = [rows EXCEPT ![q] = "pending"]
  /\ inflight' = inflight \cup {q}
  /\ seen' = [seen EXCEPT ![q] = generation]
  /\ Goto(q, "begun")
  /\ UNCHANGED <<stored, ledger, world, call, verdict, signals, partial, lost,
                 faults, history>>

OpenSegment(q) ==
  /\ At(q, "begun") /\ q \in Tooled
  /\ segments' = [segments EXCEPT ![q] = "active"]
  /\ Goto(q, "ready")
  /\ UNCHANGED <<timeline, ops, results, commands, world, call, verdict,
                 volatile, history>>

Send(q) ==
  /\ At(q, IF q \in Tooled THEN "ready" ELSE "begun")
  /\ Check(q)
  /\ exports' = [exports EXCEPT ![q] = @ + 1]
  /\ Goto(q, "waiting")
  /\ UNCHANGED <<timeline, ledger, world, call, verdict, volatile, effects,
                 outdated, unwarned>>

(* A failing check, a size limit or a protocol error before sending, or    *)
(* before the next call, ends the chain.                                   *)
GiveUp(q) ==
  /\ pc[q] \in {"begun", "ready", "calls", "recorded"}
  /\ Leave(q, "error")
  /\ UNCHANGED <<timeline, ledger, world, call, volatile, history>>

-----------------------------------------------------------------------------
(***************************************************************************)
(* While the model is asked: parts of the answer, limits, the answer.      *)
(***************************************************************************)
Delta(q) ==
  /\ Free /\ At(q, "waiting")
  /\ q \notin aborted \cup expired /\ generation = seen[q]
  /\ q \in Tooled => Check(q)
  /\ partial' = partial \cup {q}
  /\ \/ UNCHANGED <<aborted, overrun>>
     \/ aborted' = aborted \cup {q} /\ overrun' = overrun \cup {q}
  /\ UNCHANGED <<timeline, ledger, world, round, inflight, seen, expired, lost,
                 faults, history>>

ToolTimeout(q) ==
  /\ Free /\ At(q, "waiting") /\ q \in Tooled
  /\ expired' = expired \cup {q}
  /\ UNCHANGED <<timeline, ledger, world, round, inflight, seen, aborted,
                 overrun, partial, lost, faults, history>>

(* Wrong variant: a given-up round keeps waiting for its model.            *)
ResumeUnraced(q) == Free /\ At(q, "waiting") /\ q \notin aborted \cup expired

Resume(q) == Free /\ At(q, "waiting")

(* The transport failed, stopped early, broke the protocol, or the check   *)
(* that follows it fails: cancelling and withdrawal win over any result.   *)
AnswerFails(q) ==
  /\ Resume(q)
  /\ \E how \in {"error", "failed", "interrupted", "cancelled"} :
       Leave(q, IF q \in Tooled /\ ~Check(q) THEN "error" ELSE how)
  /\ UNCHANGED <<timeline, ledger, world, call, volatile, history>>

AnswerCompletes(q) ==
  /\ Resume(q)
  /\ q \in Tooled => Check(q)
  /\ Leave(q, "completed")
  /\ segments' = [segments EXCEPT ![q] = IF q \in Tooled THEN "closed" ELSE @]
  /\ UNCHANGED <<timeline, ops, results, commands, world, call, volatile,
                 history>>

AnswerCalls(q) ==
  /\ Resume(q) /\ q \in Tooled /\ Check(q)
  /\ Goto(q, "calls")
  /\ UNCHANGED <<timeline, ledger, world, call, verdict, volatile, history>>

-----------------------------------------------------------------------------
(***************************************************************************)
(* executeCall(): one operation after the other, each change of its state  *)
(* a commit followed by an event, and a check after every event.           *)
(***************************************************************************)
Prepare(q) ==
  /\ At(q, "calls") /\ Check(q) /\ call[q] < MaxCalls
  /\ call' = [call EXCEPT ![q] = @ + 1]
  /\ \E tool \in Tools :
       ops' = [ops EXCEPT ![q][call[q] + 1] =
                 [state |-> "PREPARED", tool |-> tool]]
  /\ Goto(q, "prepared")
  /\ UNCHANGED <<timeline, segments, results, commands, world, verdict,
                 volatile, history>>

(* A step of the chain that only settles the current operation.            *)
Settle(q, state) ==
  /\ Record(q, state)
  /\ UNCHANGED <<timeline, segments, commands, world, call, volatile, history>>

(* Wrong variant: the refused operation is not written down.               *)
NoRefusal(q) == CurrentOp(q).state

Refusal(q) ==
  IF q \in aborted \cup expired THEN "CANCELLED_BEFORE_DISPATCH"
  ELSE "BLOCKED_BY_CURRENT_STATE"

Refuse(q) ==
  /\ At(q, "prepared") /\ ~Check(q)
  /\ Settle(q, Refusal(q))
  /\ Leave(q, "error") /\ UNCHANGED results

Dispatch(q) ==
  /\ At(q, "prepared") /\ Check(q)
  /\ Settle(q, "DISPATCHING")
  /\ Goto(q, "dispatching") /\ UNCHANGED <<verdict, results>>

Withhold(q) ==
  /\ At(q, "dispatching") /\ ~Check(q)
  /\ Settle(q, "CONFIRMED_NOT_APPLIED")
  /\ Leave(q, "error") /\ UNCHANGED results

ReadLocal(q) ==      \* the clock, a history or a memory search
  /\ At(q, "dispatching") /\ Check(q) /\ CurrentOp(q).tool = Read
  /\ \/ Settle(q, "DISPATCHING") /\ Goto(q, "returned") /\ UNCHANGED verdict
     \/ Settle(q, "RESULT_UNKNOWN") /\ Leave(q, "error")
  /\ UNCHANGED results

(***************************************************************************)
(* toolMutation() and apply(): a round has one memory command, whatever    *)
(* the model repeats.  Its row is committed first, then object, command    *)
(* and operation in one transaction.                                       *)
(***************************************************************************)
Writing(q) ==
  At(q, "dispatching") /\ Check(q) /\ CurrentOp(q).tool \in Argument

(* Wrong variant: the command is named by the call, not by the round.      *)
UnknownCall(q) == commands[q].call # call[q]

UnknownCommand(q) == commands[q].state = "NONE"

WriteIntent(q) ==
  /\ Writing(q) /\ UnknownCommand(q)
  /\ commands' = [commands EXCEPT ![q] =
       [state |-> "PREPARED", call |-> call[q], argument |-> CurrentOp(q).tool]]
  /\ Goto(q, "writing")
  /\ UNCHANGED <<timeline, segments, ops, results, world, call, verdict,
                 volatile, history>>

Replies(q) ==        \* the receipt of the same command is returned again
  commands[q].state = "SUCCEEDED" /\ commands[q].argument = CurrentOp(q).tool

WriteRepeated(q) ==
  /\ Writing(q) /\ Replies(q)
  /\ Goto(q, "returned")
  /\ UNCHANGED <<timeline, ledger, world, call, verdict, volatile, history>>

ProvenNotApplied(q) == commands[q].state # "SUCCEEDED"

(* The target or a grant is wrong, or the command is another one.          *)
WriteRejected(q) ==
  /\ Writing(q) /\ ~Replies(q)
  /\ Settle(q, IF ProvenNotApplied(q) THEN "CONFIRMED_NOT_APPLIED"
               ELSE "RESULT_UNKNOWN")
  /\ Leave(q, "error") /\ UNCHANGED results

(* Wrong variant: the operation is settled after the transaction.          *)
ReceiptLater(q) == CurrentOp(q).state

Receipt(q) == "SUCCEEDED"

(* Wrong variant: a change of memory disturbs nobody.                      *)
NoReaders(q) == {}

Readers(q) == inflight \ {q}   \* rounds that may have read what changes

WriteCommit(q) ==
  /\ At(q, "writing")
  /\ commands' = [commands EXCEPT ![q].state = "SUCCEEDED"]
  /\ Record(q, Receipt(q)) /\ KeepBody(q)
  /\ effects' = [effects EXCEPT ![q][call[q]] = @ + 1]
  /\ aborted' = aborted \cup Readers(q)
  /\ outdated' = outdated \cup (inflight \ {q})
  /\ Goto(q, "returned")
  /\ UNCHANGED <<timeline, segments, world, call, verdict, inflight, seen,
                 expired, overrun, partial, lost, faults, exports, unwarned>>

(* Files, capacity or the transaction failed: proven not applied.  When    *)
(* the policy refused, the model is told so and the chain goes on.         *)
WriteFails(q) ==
  /\ At(q, "writing")
  /\ Settle(q, "CONFIRMED_NOT_APPLIED")
  /\ \/ Leave(q, "error") /\ UNCHANGED results
     \/ KeepBody(q) /\ Goto(q, "returned") /\ UNCHANGED verdict

(* The check after the work: a result nobody may have any more is noted as *)
(* done, without its body.                                                 *)
Done(q) ==
  IF CurrentOp(q).state = "DISPATCHING" THEN "SUCCEEDED" ELSE CurrentOp(q).state

KeepResult(q) ==
  /\ Free /\ At(q, "returned") /\ Check(q)
  /\ Settle(q, Done(q)) /\ KeepBody(q)
  /\ Goto(q, "recorded") /\ UNCHANGED verdict

DropResult(q) ==
  /\ Free /\ At(q, "returned") /\ ~Check(q)
  /\ Settle(q, Done(q))
  /\ Leave(q, "error") /\ UNCHANGED results

NextCall(q) ==       \* the messages are kept; another call, or ask again
  /\ At(q, "recorded") /\ Check(q)
  /\ \E place \in {"calls", "ready"} : Goto(q, place)
  /\ UNCHANGED <<timeline, ledger, world, call, verdict, volatile, history>>

(* The ledger cannot be written: the chain ends and the operation stays    *)
(* as it was, or is noted as unknown after all.                            *)
LedgerFault(q) ==
  /\ pc[q] \in {"prepared", "dispatching", "writing", "returned"}
  /\ At(q, "returned") => Free
  /\ faults < MaxFaults /\ faults' = faults + 1
  /\ lost' = lost \cup {<<q, "ledger">>}
  /\ \/ UNCHANGED ops
     \/ At(q, "writing") /\ Record(q, "RESULT_UNKNOWN")
  /\ Leave(q, "error")
  /\ UNCHANGED <<timeline, segments, results, commands, world, call, inflight,
                 seen, signals, partial, history>>

CallStep(q) ==
  \/ Prepare(q) \/ Refuse(q) \/ Dispatch(q) \/ Withhold(q) \/ ReadLocal(q)
  \/ WriteIntent(q) \/ WriteRepeated(q) \/ WriteRejected(q)
  \/ WriteCommit(q) \/ WriteFails(q)
  \/ KeepResult(q) \/ DropResult(q) \/ NextCall(q) \/ LedgerFault(q)

-----------------------------------------------------------------------------
(***************************************************************************)
(* The end of a round.                                                     *)
(***************************************************************************)
Interrupted(segment) == IF segment = "active" THEN "interrupted" ELSE segment

CloseSegment(q) ==
  /\ At(q, "closing")
  /\ segments' = [segments EXCEPT ![q] = Interrupted(@)]
  /\ Goto(q, "ended")
  /\ UNCHANGED <<timeline, ops, results, commands, world, call, verdict,
                 volatile, history>>

(* Wrong variant: the outcome of the chain is written as it is.            *)
OutcomesRaw(q) == {verdict[q]}

(* Wrong variant: a chain that broke off still counts as an answer.        *)
OutcomesLenient(q) == {"completed"}

Outcomes(q) ==       \* an answer of a wrong form counts as failed
  CASE q \in overrun -> {"failed"}
    [] q \in aborted \ overrun -> {"cancelled"}
    [] OTHER -> {"failed"} \cup ({verdict[q]} \ {"error"})

Departs(q) ==
  /\ Free /\ At(q, "ended")
  /\ Goto(q, "gone") /\ inflight' = inflight \ {q}
  /\ UNCHANGED <<ledger, world, call, verdict, seen, signals, history>>

(* Wrong variant: writes the answer of a generation that is over.          *)
FinishesAlways(q) == TRUE

(* Wrong variant: leaves a cancelled answer to the next start.             *)
FinishesUncancelled(q) == generation = seen[q] /\ q \notin aborted

Finishes(q) == generation = seen[q]

Finish(q) ==
  /\ Departs(q) /\ Finishes(q)
  /\ \E outcome \in Outcomes(q) :
       /\ rows' = [rows EXCEPT ![q] = IF @ = "pending" THEN outcome ELSE @]
       /\ \/ stored' = stored \cup ({q} \cap partial)
          \/ outcome = verdict[q] /\ q \notin aborted /\ stored' = stored \cup {q}
  /\ UNCHANGED <<partial, lost, faults>>

FinishGoverned(q) == \* blanked, and its row is left as it is
  /\ Departs(q) /\ ~Finishes(q)
  /\ partial' = partial \ {q}
  /\ UNCHANGED <<timeline, lost, faults>>

FinishFault(q) ==
  /\ Departs(q) /\ Finishes(q)
  /\ faults < MaxFaults /\ faults' = faults + 1
  /\ lost' = lost \cup {<<q, "row">>}
  /\ UNCHANGED <<timeline, partial>>

-----------------------------------------------------------------------------
(***************************************************************************)
(* What reaches a round from outside: while it rests, or from an event     *)
(* callback.                                                               *)
(***************************************************************************)
Outside == phase = "run" /\ \A q \in Request : pc[q] \in Resting \cup Callback

Cancel(q) ==
  /\ Outside /\ q \in inflight
  /\ aborted' = aborted \cup {q}
  /\ UNCHANGED <<timeline, ledger, world, round, inflight, seen, expired,
                 overrun, partial, lost, faults, history>>

(* Connections, credentials, permissions, archiving and sources abort the  *)
(* rounds they concern; binding another model is only seen by the checks.  *)
Withdraw(q) ==
  /\ Outside /\ q \in inflight
  /\ granted' = [granted EXCEPT ![q] = FALSE]
  /\ aborted' \in {aborted, aborted \cup {q}}
  /\ UNCHANGED <<timeline, ledger, generation, moving, phase, stops, round,
                 inflight, seen, expired, overrun, partial, lost, faults,
                 history>>

(***************************************************************************)
(* Data governance.  A confirmed cleanup or a move commits a generation    *)
(* and calls the hook in one section.  A policy batch commits one for each *)
(* object, gives way in between, and calls the hook once at its end, when  *)
(* it gets there.                                                          *)
(***************************************************************************)
(* Wrong variant: the hook aborts the rounds but leaves their text.        *)
KeepText == partial

BlankText == partial \ inflight

Hook ==
  /\ partial' = BlankText
  /\ aborted' = aborted \cup inflight
  /\ unwarned' = {}
  /\ UNCHANGED <<timeline, ledger, granted, phase, stops, round, inflight,
                 seen, expired, overrun, lost, faults, exports, effects,
                 outdated>>

Governing == phase = "run" /\ Free

Commit == generation < MaxGovernance /\ generation' = generation + 1

Govern == Governing /\ Commit /\ Hook /\ UNCHANGED moving

PolicyMove ==
  /\ Governing /\ Commit
  /\ moving' = TRUE /\ unwarned' = unwarned \cup inflight
  /\ UNCHANGED <<timeline, ledger, granted, phase, stops, round, volatile,
                 exports, effects, outdated>>

PolicyReport ==
  /\ Governing /\ moving
  /\ moving' = FALSE /\ Hook /\ UNCHANGED generation

PolicyFault ==       \* the run's own record cannot be written
  /\ Governing /\ moving
  /\ moving' = FALSE
  /\ faults < MaxFaults /\ faults' = faults + 1
  /\ UNCHANGED <<timeline, ledger, generation, granted, phase, stops, round,
                 inflight, seen, signals, partial, lost, history>>

-----------------------------------------------------------------------------
(***************************************************************************)
(* Process life.  A closing service finishes what is in flight, whatever   *)
(* the generation; a crash finishes nothing.                               *)
(***************************************************************************)
Halt ==
  /\ stops < MaxStops /\ stops' = stops + 1
  /\ phase' = "down" /\ moving' = FALSE
  /\ pc' = [q \in Request |-> IF rows[q] = "NONE" THEN "idle" ELSE "gone"]
  /\ inflight' = {} /\ aborted' = {} /\ expired' = {} /\ overrun' = {}
  /\ partial' = {} /\ lost' = {}
  /\ UNCHANGED <<ledger, generation, granted, call, verdict, seen, faults,
                 history>>

Exit ==
  /\ phase = "run" /\ Free
  /\ rows' = [q \in Request |->
                IF q \in inflight /\ rows[q] = "pending"
                THEN IF q \in aborted THEN "cancelled" ELSE "interrupted"
                ELSE rows[q]]
  /\ stored' = stored \cup (partial \cap inflight)
  /\ Halt

Crash == phase # "down" /\ Halt /\ UNCHANGED timeline

RecoverTimeline ==
  /\ phase = "down" /\ phase' = "ledger"
  /\ rows' = [q \in Request |->
                IF rows[q] = "pending" THEN "interrupted" ELSE rows[q]]
  /\ UNCHANGED <<stored, ledger, generation, granted, moving, stops, round,
                 volatile, history>>

(* Wrong variant: what was dispatched waits for somebody to settle it.     *)
RecoveredLazily(state) ==
  IF state = "PREPARED" THEN "CONFIRMED_NOT_APPLIED" ELSE state

(* Wrong variant: everything that is not refused becomes unknown.          *)
RecoveredAll(state) ==
  CASE state = "PREPARED" -> "CONFIRMED_NOT_APPLIED"
    [] state \in {"DISPATCHING", "SUCCEEDED"} -> "RESULT_UNKNOWN"
    [] OTHER -> state

Recovered(state) ==
  CASE state = "PREPARED"    -> "CONFIRMED_NOT_APPLIED"
    [] state = "DISPATCHING" -> "RESULT_UNKNOWN"
    [] OTHER                 -> state

RecoverLedger ==
  /\ phase = "ledger" /\ phase' = "memory"
  /\ ops' = [q \in Request |-> [c \in Call |->
               [ops[q][c] EXCEPT !.state = Recovered(@)]]]
  /\ segments' = [q \in Request |-> Interrupted(segments[q])]
  /\ UNCHANGED <<timeline, results, commands, generation, granted, moving,
                 stops, round, volatile, history>>

Unapplied(q, c) ==   \* the operation of a command that never committed
  /\ commands[q].state \in {"PREPARED", "NOT_APPLIED"} /\ commands[q].call = c
  /\ ops[q][c].state \in {"PREPARED", "DISPATCHING", "RESULT_UNKNOWN"}

RecoverMemory ==
  /\ phase = "memory" /\ phase' = "run"
  /\ commands' = [q \in Request |->
       IF commands[q].state = "PREPARED"
       THEN [commands[q] EXCEPT !.state = "NOT_APPLIED"] ELSE commands[q]]
  /\ ops' = [q \in Request |-> [c \in Call |->
       IF Unapplied(q, c)
       THEN [ops[q][c] EXCEPT !.state = "CONFIRMED_NOT_APPLIED"] ELSE ops[q][c]]]
  /\ UNCHANGED <<timeline, segments, results, generation, granted, moving,
                 stops, round, volatile, history>>

-----------------------------------------------------------------------------
Init ==
  /\ rows = [q \in Request |-> "NONE"] /\ stored = {}
  /\ segments = [q \in Request |-> "NONE"]
  /\ ops = [q \in Request |-> [c \in Call |-> NoOp]]
  /\ results = {} /\ commands = [q \in Request |-> NoCommand]
  /\ generation = 0 /\ granted = [q \in Request |-> TRUE] /\ moving = FALSE
  /\ phase = "down" /\ pc = [q \in Request |-> "idle"]
  /\ call = [q \in Request |-> 0] /\ verdict = [q \in Request |-> "error"]
  /\ inflight = {} /\ seen = [q \in Request |-> 0]
  /\ aborted = {} /\ expired = {} /\ overrun = {} /\ partial = {} /\ lost = {}
  /\ exports = [q \in Request |-> 0]
  /\ effects = [q \in Request |-> [c \in Call |-> 0]]
  /\ outdated = {} /\ unwarned = {}
  /\ stops = 0 /\ faults = 0

(* What the code of a round does without waiting for anybody.              *)
SectionStep(q) ==
  \/ OpenSegment(q) \/ Send(q) \/ GiveUp(q) \/ CallStep(q)
  \/ CloseSegment(q) \/ Finish(q) \/ FinishGoverned(q) \/ FinishFault(q)

AnswerStep(q) == AnswerFails(q) \/ AnswerCompletes(q) \/ AnswerCalls(q)

RoundStep(q) ==
  \/ Start(q) \/ SectionStep(q) \/ AnswerStep(q)
  \/ Delta(q) \/ ToolTimeout(q) \/ Cancel(q) \/ Withdraw(q)

GovernanceStep == Govern \/ PolicyMove \/ PolicyReport \/ PolicyFault

BootStep == RecoverTimeline \/ RecoverLedger \/ RecoverMemory

Next ==
  \/ \E q \in Request : RoundStep(q)
  \/ GovernanceStep \/ Exit \/ Crash \/ BootStep

(* A section runs to its end; every model request is answered or times out *)
(* (the transport's own limit, and the tool timer of a chain); the user    *)
(* starts the program again.                                               *)
Fairness ==
  /\ WF_vars(BootStep)
  /\ \A q \in Request : WF_vars(SectionStep(q)) /\ WF_vars(AnswerStep(q))

Spec == Init /\ [][Next]_vars
FairSpec == Spec /\ Fairness

-----------------------------------------------------------------------------
(***************************************************************************)
(* Properties.                                                             *)
(***************************************************************************)

Operation == [state : OpState, tool : Tools]
Command == [state : {"NONE", "PREPARED", "SUCCEEDED", "NOT_APPLIED"},
            call : 0..MaxCalls, argument : Tools]

LedgerTypes ==
  /\ segments \in [Request -> {"NONE", "active", "closed", "interrupted"}]
  /\ ops \in [Request -> [Call -> Operation]]
  /\ results \subseteq Request \X Call
  /\ commands \in [Request -> Command]
  /\ effects \in [Request -> [Call -> Nat]]

RoundTypes ==
  /\ rows \in [Request -> {"NONE", "pending"} \cup Final]
  /\ pc \in [Request -> Place] /\ call \in [Request -> 0..MaxCalls]
  /\ verdict \in [Request -> {"error"} \cup Final]
  /\ exports \in [Request -> Nat]

SetTypes ==
  /\ stored \cup inflight \cup aborted \cup expired \cup overrun
       \cup partial \cup outdated \cup unwarned \subseteq Request
  /\ lost \subseteq Request \X {"row", "ledger"}

WorldTypes ==
  /\ generation \in 0..MaxGovernance /\ seen \in [Request -> 0..MaxGovernance]
  /\ granted \in [Request -> BOOLEAN] /\ moving \in BOOLEAN
  /\ phase \in {"down", "ledger", "memory", "run"}
  /\ stops \in 0..MaxStops /\ faults \in 0..MaxFaults

(* Every variable keeps its shape.                                         *)
TypeOK == LedgerTypes /\ RoundTypes /\ SetTypes /\ WorldTypes

(* The ledger tells the truth about the memory a round changed, whatever   *)
(* cancellation, crash and recovery come between the commits of            *)
(* executeCall() and apply(): an operation with an effect is SUCCEEDED and *)
(* its command says so too; what is refused, unknown or still open had no  *)
(* effect.                                                                 *)
LedgerTellsTruth ==
  \A q \in Request, c \in Call :
    /\ effects[q][c] > 0 => ops[q][c].state = "SUCCEEDED"
    /\ effects[q][c] > 0 <=> commands[q].state = "SUCCEEDED" /\ commands[q].call = c

(* However often the model repeats or varies a write within a round, and   *)
(* after any crash, memory changes at most once for it (toolMutation()).   *)
OneEffectPerRound ==
  \A q \in Request : \A c, d \in Call :
    effects[q][c] > 0 /\ effects[q][d] > 0 => c = d /\ effects[q][c] = 1

(* What an operation is while its call stands in a place of executeCall(). *)
PlaceAgrees ==
  \A q \in Request :
    /\ pc[q] \in {"prepared", "dispatching", "writing", "returned"} =>
         call[q] \in Call
    /\ At(q, "prepared") => CurrentOp(q).state = "PREPARED"
    /\ pc[q] \in {"dispatching", "writing"} => CurrentOp(q).state = "DISPATCHING"
    /\ At(q, "returned") => CurrentOp(q).state \in
         {"DISPATCHING", "SUCCEEDED", "CONFIRMED_NOT_APPLIED"}
    /\ At(q, "writing") =>
         commands[q].state = "PREPARED" /\ commands[q].call = call[q]
    /\ \A c \in Call : c > call[q] => ops[q][c].state = "NONE"

(* Command, operation and memory say the same of an effect.                *)
CommandAgrees ==
  \A q \in Request :
    /\ commands[q].state = "SUCCEEDED" => commands[q].call \in Call
    /\ \A c \in Call :
         /\ effects[q][c] =
              IF commands[q].state = "SUCCEEDED" /\ commands[q].call = c THEN 1 ELSE 0
         /\ effects[q][c] = 1 => ops[q][c].state = "SUCCEEDED"

(* No section of a round runs while the program starts or is down.         *)
BootRests == phase # "run" => \A q \in Request : pc[q] \in {"idle", "gone"}

(* Sections do not overlap, and between the two commits of apply() nothing *)
(* takes the round's authority away: its first check covers the second.    *)
OneRunning ==
  \A q, r \in Request : pc[q] \notin Resting /\ pc[r] \notin Resting => q = r

WritingIsCurrent == \A q \in Request : At(q, "writing") => Check(q)

(* The ledger, the commands, the memory and the place of every round fit   *)
(* together at every moment: what makes the promises here survive each     *)
(* commit, crash and recovery (executeCall(), apply(), recover()).         *)
LedgerInv ==
  PlaceAgrees /\ CommandAgrees /\ BootRests /\ OneRunning /\ WritingIsCurrent

(* A completed answer is whole: its chain was closed, and the model got a  *)
(* kept result for every operation of it, none of them unknown.            *)
CompletedIsWhole ==
  \A q \in Tooled : rows[q] = "completed" =>
    /\ segments[q] = "closed"
    /\ \A c \in 1..call[q] :
         /\ ops[q][c].state \in {"SUCCEEDED", "CONFIRMED_NOT_APPLIED"}
         /\ <<q, c>> \in results

(* While the program runs, an open operation or an active segment belongs  *)
(* to a round in flight, unless the ledger could not be written: every way *)
(* out of a chain, and every restart, settles what it leaves.              *)
OpenHasOwner ==
  phase = "run" => \A q \in Request :
    \/ q \in inflight \/ <<q, "ledger">> \in lost
    \/ segments[q] # "active" /\ \A c \in Call : ops[q][c].state \notin Open

(* While the program runs, an answer is pending only because its round is  *)
(* in flight, its generation is over, or the write that ends it failed.    *)
PendingHasReason ==
  phase = "run" => \A q \in Request : rows[q] = "pending" =>
    q \in inflight \/ seen[q] # generation \/ <<q, "row">> \in lost

(* What a pending answer means to whoever reads the timeline: its round is *)
(* still going on, or the write that ends it failed.                       *)
PendingIsInFlight ==
  phase = "run" => \A q \in Request : rows[q] = "pending" =>
    q \in inflight \/ <<q, "row">> \in lost

Progress(q) ==
  \/ exports'[q] # exports[q] \/ effects'[q] # effects[q]
  \/ \E c \in Call : <<q, c>> \in results' \ results

(* A round that was cancelled or timed out, whose authority was withdrawn  *)
(* or whose generation is over sends nothing more to the model, changes    *)
(* nothing more and keeps no result body any more (check()).               *)
NothingAfterGiveUp ==
  [][\A q \in Request : Progress(q) =>
       q \notin aborted \cup expired /\ generation = seen[q] /\ granted[q]]_vars

(* A round that may have read memory another round has changed since is    *)
(* out: it neither sends nor writes what it had read (changed()).          *)
OutdatedIsOutStep ==
  \A q \in outdated : ~Progress(q)

OutdatedIsOut == [][OutdatedIsOutStep]_vars

(* The text of a round whose generation is over reaches the timeline no    *)
(* more, but for one case: the service closes, which writes what it has    *)
(* without looking at the generation, before a policy batch has told the   *)
(* rounds in flight.                                                       *)
BlankAfterGovernanceStep ==
  \A q \in stored' \ stored :
    seen[q] = generation \/ (q \in unwarned /\ phase' = "down")

BlankAfterGovernance == [][BlankAfterGovernanceStep]_vars

Told(state) ==
  CASE state = "NONE" -> "none"
    [] state \in Open -> "open"
    [] state = "SUCCEEDED" -> "done"
    [] state \in Refusals -> "refused"
    [] state = "RESULT_UNKNOWN" -> "unknown"

Promise == INSTANCE ToolPromise WITH
  outcome <- [q \in Request |-> [c \in Call |-> Told(ops[q][c].state)]],
  effect <- effects

(* The ledger keeps the promise of ToolPromise: an operation is settled    *)
(* once, in the very step that has its effect, and only an unknown one is  *)
(* ever settled again.                                                     *)
KeepsPromise == Promise!Spec

(* Every round ends: its answer comes, or its wait is broken off.          *)
AnswerEnds == \A q \in Request : (q \in inflight) ~> (q \notin inflight)

(* Every operation is settled in the end, by its chain or by a restart,    *)
(* unless the ledger cannot be written.                                    *)
OperationSettles ==
  \A q \in Request, c \in Call :
    (ops[q][c].state \in Open) ~>
      (ops[q][c].state \notin Open \/ <<q, "ledger">> \in lost)
==============================================================================
