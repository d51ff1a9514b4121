--------------------------- MODULE ChatRoundProofs ---------------------------
(***************************************************************************)
(* Proofs about ChatRound for every number of requests, calls, arguments,  *)
(* governance generations, crashes and storage errors: type correctness,   *)
(* that the ledger tells the truth, and that it keeps the promise of       *)
(* ToolPromise.                                                            *)
(***************************************************************************)
EXTENDS ChatRound, TLAPS

Ops == [Request -> [Call -> Operation]]

-----------------------------------------------------------------------------
(***************************************************************************)
(* Type correctness.                                                       *)
(***************************************************************************)
(* Recording a state in the ledger keeps the ledger well formed.           *)
LEMMA RecordTypes ==
  ASSUME ops \in Ops, NEW q \in Request, NEW s \in OpState, Record(q, s)
  PROVE  ops' \in Ops
<1>1. \A op \in Operation : [op EXCEPT !.state = s] \in Operation
  BY DEF Operation
<1>2. ASSUME NEW f \in [Call -> Operation], NEW c
      PROVE  [f EXCEPT ![c].state = s] \in [Call -> Operation]
  <2>1. CASE c \in Call
    BY <1>1, <2>1
  <2>2. CASE c \notin Call
    BY <2>2
  <2> QED
    BY <2>1, <2>2
<1> QED
  BY <1>2 DEF Record, Ops

(* Init gives every variable its shape.                                    *)
LEMMA InitType == Init => TypeOK
<1> SUFFICES ASSUME Init PROVE TypeOK
  OBVIOUS
<1>1. NoOp \in Operation
  BY DEF NoOp, Operation, Tools, OpState
<1>2. NoCommand \in Command
  BY RoundAssumption DEF NoCommand, Command, Tools
<1>3. LedgerTypes
  <2>1. ops \in Ops
    BY <1>1 DEF Init, Ops
  <2>2. commands \in [Request -> Command]
    BY <1>2 DEF Init
  <2> QED
    BY <2>1, <2>2 DEF Init, LedgerTypes, Ops
<1>4. RoundTypes
  BY RoundAssumption DEF Init, RoundTypes, Place, Resting
<1>5. SetTypes
  BY DEF Init, SetTypes
<1>6. WorldTypes
  <2>1. granted \in [Request -> BOOLEAN] /\ moving \in BOOLEAN
    BY Zenon DEF Init
  <2>2. 0 \in 0..MaxGovernance /\ 0 \in 0..MaxStops /\ 0 \in 0..MaxFaults
    BY RoundAssumption
  <2>3. seen \in [Request -> 0..MaxGovernance]
    BY <2>2, Zenon DEF Init
  <2>4. /\ generation \in 0..MaxGovernance /\ stops \in 0..MaxStops
        /\ faults \in 0..MaxFaults
        /\ phase \in {"down", "ledger", "memory", "run"}
    BY <2>2, Zenon DEF Init
  <2> QED
    BY <2>1, <2>3, <2>4 DEF WorldTypes
<1> QED
  BY <1>3, <1>4, <1>5, <1>6 DEF TypeOK

(* The ledger keeps its shape.                                             *)
LEMMA OpsKept == ASSUME TypeOK, [Next]_vars PROVE ops' \in Ops
<1>1. ops \in Ops
  BY DEF TypeOK, LedgerTypes, Ops
<1>2. ASSUME NEW q \in Request, NEW s \in OpState, Record(q, s)
      PROVE  ops' \in Ops
  BY <1>1, <1>2, RecordTypes
<1>3. ASSUME NEW q \in Request, Prepare(q) PROVE ops' \in Ops
  <2>1. PICK tool \in Tools : ops' = [ops EXCEPT ![q][call[q] + 1] =
                                        [state |-> "PREPARED", tool |-> tool]]
    BY <1>3 DEF Prepare
  <2>2. [state |-> "PREPARED", tool |-> tool] \in Operation
    BY DEF Operation, OpState, Open
  <2>3. \A f \in [Call -> Operation] : \A c :
          [f EXCEPT ![c] = [state |-> "PREPARED", tool |-> tool]]
            \in [Call -> Operation]
    BY <2>2
  <2> QED
    BY <1>1, <2>1, <2>3 DEF Ops
<1>4. ASSUME NEW q \in Request, CallStep(q) PROVE ops' \in Ops
  <2>1. CASE Prepare(q)
    BY <1>3, <2>1
  <2>2. CASE Refuse(q) \/ Dispatch(q) \/ Withhold(q) \/ ReadLocal(q)
             \/ WriteFails(q)
    <3>1. \E s \in OpState : Record(q, s)
      BY <2>2 DEF Refuse, Dispatch, Withhold, ReadLocal, WriteFails, Settle,
                  Refusal, OpState, Open, Refusals
    <3> QED
      BY <3>1, <1>2
  <2>3. CASE WriteRejected(q) \/ WriteCommit(q)
    <3>1. \E s \in OpState : Record(q, s)
      BY <2>3 DEF WriteRejected, WriteCommit, Receipt, Settle, OpState,
            Refusals
    <3> QED
      BY <3>1, <1>2
  <2>4. CASE KeepResult(q) \/ DropResult(q)
    <3>1. PICK s : s = Done(q) /\ Record(q, s)
      BY <2>4 DEF KeepResult, DropResult, Settle
    <3>2. CASE call[q] \in Call
      <4>1. ops[q][call[q]] \in Operation
        BY <1>1, <3>2 DEF Ops
      <4>2. s \in OpState
        BY <3>1, <4>1 DEF Done, CurrentOp, Operation, OpState
      <4> QED
        BY <3>1, <4>2, <1>2
    <3>3. CASE call[q] \notin Call
      <4>1. [ops[q] EXCEPT ![call[q]].state = s] = ops[q]
        BY <1>1, <3>3 DEF Ops
      <4> QED
        BY <1>1, <3>1, <4>1 DEF Record, Ops
    <3> QED
      BY <3>2, <3>3
  <2>5. CASE LedgerFault(q)
    <3>1. ops' = ops \/ Record(q, "RESULT_UNKNOWN")
      BY <2>5 DEF LedgerFault
    <3>2. "RESULT_UNKNOWN" \in OpState
      BY DEF OpState
    <3> QED
      BY <1>1, <1>2, <3>1, <3>2
  <2>6. CASE WriteIntent(q) \/ WriteRepeated(q) \/ NextCall(q)
    BY <1>1, <2>6 DEF WriteIntent, WriteRepeated, NextCall, ledger
  <2> QED
    BY <1>4, <2>1, <2>2, <2>3, <2>4, <2>5, <2>6 DEF CallStep
<1>5. ASSUME NEW q \in Request, RoundStep(q), ~CallStep(q) PROVE ops' \in Ops
  BY <1>1, <1>5 DEF RoundStep, SectionStep, AnswerStep, Start, OpenSegment,
        Send, GiveUp, CloseSegment, Finish, FinishGoverned, FinishFault,
        Departs, AnswerFails, AnswerCompletes, AnswerCalls, Delta,
        ToolTimeout, Cancel, Withdraw, ledger
<1>6. CASE GovernanceStep \/ Exit \/ Crash \/ RecoverTimeline \/ UNCHANGED vars
  BY <1>1, <1>6 DEF GovernanceStep, Govern, PolicyMove, PolicyReport,
        PolicyFault, Hook, Exit, Crash, Halt, RecoverTimeline, vars, ledger
<1>7. ASSUME RecoverLedger PROVE ops' \in Ops
  <2>1. \A s \in OpState : Recovered(s) \in OpState
    BY DEF Recovered, OpState, Open, Refusals
  <2>2. \A op \in Operation : [op EXCEPT !.state = Recovered(@)] \in Operation
    BY <2>1 DEF Operation
  <2> QED
    BY <1>1, <1>7, <2>2 DEF RecoverLedger, Ops
<1>8. ASSUME RecoverMemory PROVE ops' \in Ops
  <2>1. \A op \in Operation :
          [op EXCEPT !.state = "CONFIRMED_NOT_APPLIED"] \in Operation
    BY DEF Operation, OpState, Refusals
  <2> QED
    BY <1>1, <1>8, <2>1 DEF RecoverMemory, Ops
<1> QED
  BY <1>4, <1>5, <1>6, <1>7, <1>8 DEF Next, BootStep

(* So do the memory commands.                                              *)
LEMMA CommandsKept ==
  ASSUME TypeOK, [Next]_vars PROVE commands' \in [Request -> Command]
<1>1. commands \in [Request -> Command]
  BY DEF TypeOK, LedgerTypes
<1>2. ASSUME NEW q \in Request, WriteIntent(q)
      PROVE  commands' \in [Request -> Command]
  <2>1. [state |-> "PREPARED", call |-> call[q],
         argument |-> CurrentOp(q).tool] \in Command
    BY <1>2 DEF WriteIntent, Writing, Command, Tools, TypeOK, RoundTypes
  <2> QED
    BY <1>1, <1>2, <2>1 DEF WriteIntent
<1>3. ASSUME NEW q \in Request, WriteCommit(q)
      PROVE  commands' \in [Request -> Command]
  <2>1. [commands[q] EXCEPT !.state = "SUCCEEDED"] \in Command
    BY <1>1 DEF Command
  <2> QED
    BY <1>1, <1>3, <2>1 DEF WriteCommit
<1>4. ASSUME RecoverMemory PROVE commands' \in [Request -> Command]
  <2>1. \A m \in Command : [m EXCEPT !.state = "NOT_APPLIED"] \in Command
    BY DEF Command
  <2> QED
    BY <1>1, <1>4, <2>1 DEF RecoverMemory
<1>5. ASSUME NEW q \in Request, RoundStep(q), ~WriteIntent(q), ~WriteCommit(q)
      PROVE  commands' = commands
  BY <1>5 DEF RoundStep, SectionStep, AnswerStep, Start, OpenSegment, Send,
        GiveUp, CloseSegment, Finish, FinishGoverned, FinishFault, Departs,
        AnswerFails, AnswerCompletes, AnswerCalls, Delta, ToolTimeout,
        Cancel, Withdraw, ledger, CallStep, Prepare, Refuse, Dispatch,
        Withhold, ReadLocal, WriteRepeated, WriteRejected, WriteFails,
        KeepResult, DropResult, NextCall, LedgerFault, Settle
<1>6. CASE GovernanceStep \/ Exit \/ Crash \/ RecoverTimeline \/ RecoverLedger
           \/ UNCHANGED vars
  BY <1>1, <1>6 DEF GovernanceStep, Govern, PolicyMove, PolicyReport,
        PolicyFault, Hook, Exit, Crash, Halt, RecoverTimeline, RecoverLedger,
        vars, ledger
<1> QED
  BY <1>1, <1>2, <1>3, <1>4, <1>5, <1>6 DEF Next, BootStep

(* Answers and the places of rounds keep their shape.                      *)
LEMMA RoundTypesKept == ASSUME TypeOK, [Next]_vars PROVE RoundTypes'
<1> USE RoundAssumption DEF TypeOK, RoundTypes, timeline, ledger, world,
        round, signals, volatile, history, Place, Resting, Callback, Final
<1>1. ASSUME NEW q \in Request, Start(q) PROVE RoundTypes'
  BY <1>1 DEF Start, Goto
<1>2. ASSUME NEW q \in Request, OpenSegment(q) PROVE RoundTypes'
  BY <1>2 DEF OpenSegment, Goto, At
<1>3. ASSUME NEW q \in Request, Send(q) PROVE RoundTypes'
  BY <1>3 DEF Send, Goto, At, Check
<1>4. ASSUME NEW q \in Request, GiveUp(q) PROVE RoundTypes'
  BY <1>4 DEF GiveUp, Leave, Goto
<1>5. ASSUME NEW q \in Request, Delta(q) PROVE RoundTypes'
  BY <1>5 DEF Delta
<1>6. ASSUME NEW q \in Request, ToolTimeout(q) PROVE RoundTypes'
  BY <1>6 DEF ToolTimeout
<1>7. ASSUME NEW q \in Request, AnswerFails(q) PROVE RoundTypes'
  BY <1>7 DEF AnswerFails, Leave, Goto, Resume
<1>8. ASSUME NEW q \in Request, AnswerCompletes(q) PROVE RoundTypes'
  BY <1>8 DEF AnswerCompletes, Leave, Goto, Resume
<1>9. ASSUME NEW q \in Request, AnswerCalls(q) PROVE RoundTypes'
  BY <1>9 DEF AnswerCalls, Goto, Resume
<1>10. ASSUME NEW q \in Request, Prepare(q) PROVE RoundTypes'
  BY <1>10 DEF Prepare, Goto, At
<1>11. ASSUME NEW q \in Request, Refuse(q) PROVE RoundTypes'
  BY <1>11 DEF Refuse, Settle, Record, Leave, Goto, At, CurrentOp, Refusal
<1>12. ASSUME NEW q \in Request, Dispatch(q) PROVE RoundTypes'
  BY <1>12 DEF Dispatch, Settle, Record, Goto, At, CurrentOp
<1>13. ASSUME NEW q \in Request, Withhold(q) PROVE RoundTypes'
  BY <1>13 DEF Withhold, Settle, Record, Leave, Goto, At, CurrentOp
<1>14. ASSUME NEW q \in Request, ReadLocal(q) PROVE RoundTypes'
  BY <1>14 DEF ReadLocal, Settle, Record, Leave, Goto, At, CurrentOp
<1>15. ASSUME NEW q \in Request, WriteIntent(q) PROVE RoundTypes'
  BY <1>15 DEF WriteIntent, Writing, Goto, At, CurrentOp
<1>16. ASSUME NEW q \in Request, WriteRepeated(q) PROVE RoundTypes'
  BY <1>16 DEF WriteRepeated, Writing, Goto, At, CurrentOp
<1>17. ASSUME NEW q \in Request, WriteRejected(q) PROVE RoundTypes'
  BY <1>17 DEF WriteRejected, Writing, Settle, Record, Leave, Goto, At,
      CurrentOp
<1>18. ASSUME NEW q \in Request, WriteCommit(q) PROVE RoundTypes'
  BY <1>18 DEF WriteCommit, Receipt, Readers, Record, KeepBody, Goto, At,
      CurrentOp
<1>19. ASSUME NEW q \in Request, WriteFails(q) PROVE RoundTypes'
  BY <1>19 DEF WriteFails, Settle, Record, KeepBody, Leave, Goto, At,
      CurrentOp
<1>20. ASSUME NEW q \in Request, KeepResult(q) PROVE RoundTypes'
  BY <1>20 DEF KeepResult, Settle, Done, Record, KeepBody, Goto, At,
      CurrentOp
<1>21. ASSUME NEW q \in Request, DropResult(q) PROVE RoundTypes'
  BY <1>21 DEF DropResult, Settle, Done, Record, Leave, Goto, At,
      CurrentOp
<1>22. ASSUME NEW q \in Request, NextCall(q) PROVE RoundTypes'
  BY <1>22 DEF NextCall, Goto, At
<1>23. ASSUME NEW q \in Request, LedgerFault(q) PROVE RoundTypes'
  BY <1>23 DEF LedgerFault, Record, Leave, Goto, At, CurrentOp
<1>24. ASSUME NEW q \in Request, CloseSegment(q) PROVE RoundTypes'
  BY <1>24 DEF CloseSegment, Interrupted, Goto, At
<1>25. ASSUME NEW q \in Request, Finish(q) PROVE RoundTypes'
  BY <1>25 DEF Finish, Departs, Outcomes, Goto, At
<1>26. ASSUME NEW q \in Request, FinishGoverned(q) PROVE RoundTypes'
  BY <1>26 DEF FinishGoverned, Departs, Goto, At
<1>27. ASSUME NEW q \in Request, FinishFault(q) PROVE RoundTypes'
  BY <1>27 DEF FinishFault, Departs, Goto, At
<1>28. ASSUME NEW q \in Request, Cancel(q) PROVE RoundTypes'
  BY <1>28 DEF Cancel
<1>29. ASSUME NEW q \in Request, Withdraw(q) PROVE RoundTypes'
  BY <1>29 DEF Withdraw
<1>30. ASSUME Govern PROVE RoundTypes'
  BY <1>30 DEF Govern, Commit, Hook, BlankText, Governing
<1>31. ASSUME PolicyMove PROVE RoundTypes'
  BY <1>31 DEF PolicyMove, Governing, Commit
<1>32. ASSUME PolicyReport PROVE RoundTypes'
  BY <1>32 DEF PolicyReport, Governing, Hook, BlankText
<1>33. ASSUME PolicyFault PROVE RoundTypes'
  BY <1>33 DEF PolicyFault, Governing
<1>34. ASSUME Exit PROVE RoundTypes'
  BY <1>34 DEF Exit, Halt
<1>35. ASSUME Crash PROVE RoundTypes'
  BY <1>35 DEF Crash, Halt
<1>36. ASSUME RecoverTimeline PROVE RoundTypes'
  BY <1>36 DEF RecoverTimeline
<1>37. ASSUME RecoverLedger PROVE RoundTypes'
  BY <1>37 DEF RecoverLedger, Recovered, Interrupted
<1>38. ASSUME RecoverMemory PROVE RoundTypes'
  BY <1>38 DEF RecoverMemory, Unapplied
<1>39. CASE UNCHANGED vars
  BY <1>39 DEF vars
<1> QED
  BY <1>1, <1>2, <1>3, <1>4, <1>5, <1>6, <1>7, <1>8, <1>9, <1>10, <1>11,
      <1>12, <1>13, <1>14, <1>15, <1>16, <1>17, <1>18, <1>19, <1>20,
      <1>21, <1>22, <1>23, <1>24, <1>25, <1>26, <1>27, <1>28, <1>29,
      <1>30, <1>31, <1>32, <1>33, <1>34, <1>35, <1>36, <1>37, <1>38, <1>39
      DEF Next, RoundStep, SectionStep, CallStep, AnswerStep,
      GovernanceStep, BootStep

(* The sets of rounds stay sets of rounds.                                 *)
LEMMA SetTypesKept == ASSUME TypeOK, [Next]_vars PROVE SetTypes'
<1> USE RoundAssumption DEF TypeOK, SetTypes, timeline, ledger, world,
        round, signals, volatile, history
<1>1. ASSUME NEW q \in Request, Start(q) PROVE SetTypes'
  BY <1>1 DEF Start, Goto
<1>2. ASSUME NEW q \in Request, OpenSegment(q) PROVE SetTypes'
  BY <1>2 DEF OpenSegment, Goto, At
<1>3. ASSUME NEW q \in Request, Send(q) PROVE SetTypes'
  BY <1>3 DEF Send, Goto, At, Check
<1>4. ASSUME NEW q \in Request, GiveUp(q) PROVE SetTypes'
  BY <1>4 DEF GiveUp, Leave, Goto
<1>5. ASSUME NEW q \in Request, Delta(q) PROVE SetTypes'
  BY <1>5 DEF Delta
<1>6. ASSUME NEW q \in Request, ToolTimeout(q) PROVE SetTypes'
  BY <1>6 DEF ToolTimeout
<1>7. ASSUME NEW q \in Request, AnswerFails(q) PROVE SetTypes'
  BY <1>7 DEF AnswerFails, Leave, Goto, Resume
<1>8. ASSUME NEW q \in Request, AnswerCompletes(q) PROVE SetTypes'
  BY <1>8 DEF AnswerCompletes, Leave, Goto, Resume
<1>9. ASSUME NEW q \in Request, AnswerCalls(q) PROVE SetTypes'
  BY <1>9 DEF AnswerCalls, Goto, Resume
<1>10. ASSUME NEW q \in Request, Prepare(q) PROVE SetTypes'
  BY <1>10 DEF Prepare, Goto, At
<1>11. ASSUME NEW q \in Request, Refuse(q) PROVE SetTypes'
  BY <1>11 DEF Refuse, Settle, Record, Leave, Goto, At, CurrentOp, Refusal
<1>12. ASSUME NEW q \in Request, Dispatch(q) PROVE SetTypes'
  BY <1>12 DEF Dispatch, Settle, Record, Goto, At, CurrentOp
<1>13. ASSUME NEW q \in Request, Withhold(q) PROVE SetTypes'
  BY <1>13 DEF Withhold, Settle, Record, Leave, Goto, At, CurrentOp
<1>14. ASSUME NEW q \in Request, ReadLocal(q) PROVE SetTypes'
  BY <1>14 DEF ReadLocal, Settle, Record, Leave, Goto, At, CurrentOp
<1>15. ASSUME NEW q \in Request, WriteIntent(q) PROVE SetTypes'
  BY <1>15 DEF WriteIntent, Writing, Goto, At, CurrentOp
<1>16. ASSUME NEW q \in Request, WriteRepeated(q) PROVE SetTypes'
  BY <1>16 DEF WriteRepeated, Writing, Goto, At, CurrentOp
<1>17. ASSUME NEW q \in Request, WriteRejected(q) PROVE SetTypes'
  BY <1>17 DEF WriteRejected, Writing, Settle, Record, Leave, Goto, At,
      CurrentOp
<1>18. ASSUME NEW q \in Request, WriteCommit(q) PROVE SetTypes'
  BY <1>18 DEF WriteCommit, Receipt, Readers, Record, KeepBody, Goto, At,
      CurrentOp
<1>19. ASSUME NEW q \in Request, WriteFails(q) PROVE SetTypes'
  BY <1>19 DEF WriteFails, Settle, Record, KeepBody, Leave, Goto, At,
      CurrentOp
<1>20. ASSUME NEW q \in Request, KeepResult(q) PROVE SetTypes'
  BY <1>20 DEF KeepResult, Settle, Done, Record, KeepBody, Goto, At,
      CurrentOp
<1>21. ASSUME NEW q \in Request, DropResult(q) PROVE SetTypes'
  BY <1>21 DEF DropResult, Settle, Done, Record, Leave, Goto, At,
      CurrentOp
<1>22. ASSUME NEW q \in Request, NextCall(q) PROVE SetTypes'
  BY <1>22 DEF NextCall, Goto, At
<1>23. ASSUME NEW q \in Request, LedgerFault(q) PROVE SetTypes'
  BY <1>23 DEF LedgerFault, Record, Leave, Goto, At, CurrentOp
<1>24. ASSUME NEW q \in Request, CloseSegment(q) PROVE SetTypes'
  BY <1>24 DEF CloseSegment, Interrupted, Goto, At
<1>25. ASSUME NEW q \in Request, Finish(q) PROVE SetTypes'
  BY <1>25 DEF Finish, Departs, Outcomes, Goto, At
<1>26. ASSUME NEW q \in Request, FinishGoverned(q) PROVE SetTypes'
  BY <1>26 DEF FinishGoverned, Departs, Goto, At
<1>27. ASSUME NEW q \in Request, FinishFault(q) PROVE SetTypes'
  BY <1>27 DEF FinishFault, Departs, Goto, At
<1>28. ASSUME NEW q \in Request, Cancel(q) PROVE SetTypes'
  BY <1>28 DEF Cancel
<1>29. ASSUME NEW q \in Request, Withdraw(q) PROVE SetTypes'
  BY <1>29 DEF Withdraw
<1>30. ASSUME Govern PROVE SetTypes'
  BY <1>30 DEF Govern, Commit, Hook, BlankText, Governing
<1>31. ASSUME PolicyMove PROVE SetTypes'
  BY <1>31 DEF PolicyMove, Governing, Commit
<1>32. ASSUME PolicyReport PROVE SetTypes'
  BY <1>32 DEF PolicyReport, Governing, Hook, BlankText
<1>33. ASSUME PolicyFault PROVE SetTypes'
  BY <1>33 DEF PolicyFault, Governing
<1>34. ASSUME Exit PROVE SetTypes'
  BY <1>34 DEF Exit, Halt
<1>35. ASSUME Crash PROVE SetTypes'
  BY <1>35 DEF Crash, Halt
<1>36. ASSUME RecoverTimeline PROVE SetTypes'
  BY <1>36 DEF RecoverTimeline
<1>37. ASSUME RecoverLedger PROVE SetTypes'
  BY <1>37 DEF RecoverLedger, Recovered, Interrupted
<1>38. ASSUME RecoverMemory PROVE SetTypes'
  BY <1>38 DEF RecoverMemory, Unapplied
<1>39. CASE UNCHANGED vars
  BY <1>39 DEF vars
<1> QED
  BY <1>1, <1>2, <1>3, <1>4, <1>5, <1>6, <1>7, <1>8, <1>9, <1>10, <1>11,
      <1>12, <1>13, <1>14, <1>15, <1>16, <1>17, <1>18, <1>19, <1>20,
      <1>21, <1>22, <1>23, <1>24, <1>25, <1>26, <1>27, <1>28, <1>29,
      <1>30, <1>31, <1>32, <1>33, <1>34, <1>35, <1>36, <1>37, <1>38, <1>39
      DEF Next, RoundStep, SectionStep, CallStep, AnswerStep,
      GovernanceStep, BootStep

(* Generation, authority, phase and counters keep their shape.             *)
LEMMA WorldTypesKept == ASSUME TypeOK, [Next]_vars PROVE WorldTypes'
<1> USE RoundAssumption DEF TypeOK, WorldTypes, timeline, ledger, world,
        round, signals, volatile, history
<1>1. ASSUME NEW q \in Request, Start(q) PROVE WorldTypes'
  BY <1>1 DEF Start, Goto
<1>2. ASSUME NEW q \in Request, OpenSegment(q) PROVE WorldTypes'
  BY <1>2 DEF OpenSegment, Goto, At
<1>3. ASSUME NEW q \in Request, Send(q) PROVE WorldTypes'
  BY <1>3 DEF Send, Goto, At, Check
<1>4. ASSUME NEW q \in Request, GiveUp(q) PROVE WorldTypes'
  BY <1>4 DEF GiveUp, Leave, Goto
<1>5. ASSUME NEW q \in Request, Delta(q) PROVE WorldTypes'
  BY <1>5 DEF Delta
<1>6. ASSUME NEW q \in Request, ToolTimeout(q) PROVE WorldTypes'
  BY <1>6 DEF ToolTimeout
<1>7. ASSUME NEW q \in Request, AnswerFails(q) PROVE WorldTypes'
  BY <1>7 DEF AnswerFails, Leave, Goto, Resume
<1>8. ASSUME NEW q \in Request, AnswerCompletes(q) PROVE WorldTypes'
  BY <1>8 DEF AnswerCompletes, Leave, Goto, Resume
<1>9. ASSUME NEW q \in Request, AnswerCalls(q) PROVE WorldTypes'
  BY <1>9 DEF AnswerCalls, Goto, Resume
<1>10. ASSUME NEW q \in Request, Prepare(q) PROVE WorldTypes'
  BY <1>10 DEF Prepare, Goto, At
<1>11. ASSUME NEW q \in Request, Refuse(q) PROVE WorldTypes'
  BY <1>11 DEF Refuse, Settle, Record, Leave, Goto, At, CurrentOp, Refusal
<1>12. ASSUME NEW q \in Request, Dispatch(q) PROVE WorldTypes'
  BY <1>12 DEF Dispatch, Settle, Record, Goto, At, CurrentOp
<1>13. ASSUME NEW q \in Request, Withhold(q) PROVE WorldTypes'
  BY <1>13 DEF Withhold, Settle, Record, Leave, Goto, At, CurrentOp
<1>14. ASSUME NEW q \in Request, ReadLocal(q) PROVE WorldTypes'
  BY <1>14 DEF ReadLocal, Settle, Record, Leave, Goto, At, CurrentOp
<1>15. ASSUME NEW q \in Request, WriteIntent(q) PROVE WorldTypes'
  BY <1>15 DEF WriteIntent, Writing, Goto, At, CurrentOp
<1>16. ASSUME NEW q \in Request, WriteRepeated(q) PROVE WorldTypes'
  BY <1>16 DEF WriteRepeated, Writing, Goto, At, CurrentOp
<1>17. ASSUME NEW q \in Request, WriteRejected(q) PROVE WorldTypes'
  BY <1>17 DEF WriteRejected, Writing, Settle, Record, Leave, Goto, At,
      CurrentOp
<1>18. ASSUME NEW q \in Request, WriteCommit(q) PROVE WorldTypes'
  BY <1>18 DEF WriteCommit, Receipt, Readers, Record, KeepBody, Goto, At,
      CurrentOp
<1>19. ASSUME NEW q \in Request, WriteFails(q) PROVE WorldTypes'
  BY <1>19 DEF WriteFails, Settle, Record, KeepBody, Leave, Goto, At,
      CurrentOp
<1>20. ASSUME NEW q \in Request, KeepResult(q) PROVE WorldTypes'
  BY <1>20 DEF KeepResult, Settle, Done, Record, KeepBody, Goto, At,
      CurrentOp
<1>21. ASSUME NEW q \in Request, DropResult(q) PROVE WorldTypes'
  BY <1>21 DEF DropResult, Settle, Done, Record, Leave, Goto, At,
      CurrentOp
<1>22. ASSUME NEW q \in Request, NextCall(q) PROVE WorldTypes'
  BY <1>22 DEF NextCall, Goto, At
<1>23. ASSUME NEW q \in Request, LedgerFault(q) PROVE WorldTypes'
  BY <1>23 DEF LedgerFault, Record, Leave, Goto, At, CurrentOp
<1>24. ASSUME NEW q \in Request, CloseSegment(q) PROVE WorldTypes'
  BY <1>24 DEF CloseSegment, Interrupted, Goto, At
<1>25. ASSUME NEW q \in Request, Finish(q) PROVE WorldTypes'
  BY <1>25 DEF Finish, Departs, Outcomes, Goto, At
<1>26. ASSUME NEW q \in Request, FinishGoverned(q) PROVE WorldTypes'
  BY <1>26 DEF FinishGoverned, Departs, Goto, At
<1>27. ASSUME NEW q \in Request, FinishFault(q) PROVE WorldTypes'
  BY <1>27 DEF FinishFault, Departs, Goto, At
<1>28. ASSUME NEW q \in Request, Cancel(q) PROVE WorldTypes'
  BY <1>28 DEF Cancel
<1>29. ASSUME NEW q \in Request, Withdraw(q) PROVE WorldTypes'
  BY <1>29 DEF Withdraw
<1>30. ASSUME Govern PROVE WorldTypes'
  BY <1>30 DEF Govern, Commit, Hook, BlankText, Governing
<1>31. ASSUME PolicyMove PROVE WorldTypes'
  BY <1>31 DEF PolicyMove, Governing, Commit
<1>32. ASSUME PolicyReport PROVE WorldTypes'
  BY <1>32 DEF PolicyReport, Governing, Hook, BlankText
<1>33. ASSUME PolicyFault PROVE WorldTypes'
  <2>1. faults' \in 0..MaxFaults
    BY <1>33 DEF PolicyFault
  <2> QED
    BY <1>33, <2>1 DEF PolicyFault, Governing
<1>34. ASSUME Exit PROVE WorldTypes'
  <2>1. stops' \in 0..MaxStops
    BY <1>34 DEF Exit, Halt
  <2> QED
    BY <1>34, <2>1 DEF Exit, Halt
<1>35. ASSUME Crash PROVE WorldTypes'
  <2>1. stops' \in 0..MaxStops
    BY <1>35 DEF Crash, Halt
  <2> QED
    BY <1>35, <2>1 DEF Crash, Halt
<1>36. ASSUME RecoverTimeline PROVE WorldTypes'
  BY <1>36 DEF RecoverTimeline
<1>37. ASSUME RecoverLedger PROVE WorldTypes'
  BY <1>37 DEF RecoverLedger, Recovered, Interrupted
<1>38. ASSUME RecoverMemory PROVE WorldTypes'
  BY <1>38 DEF RecoverMemory, Unapplied
<1>39. CASE UNCHANGED vars
  BY <1>39 DEF vars
<1> QED
  BY <1>1, <1>2, <1>3, <1>4, <1>5, <1>6, <1>7, <1>8, <1>9, <1>10, <1>11,
      <1>12, <1>13, <1>14, <1>15, <1>16, <1>17, <1>18, <1>19, <1>20,
      <1>21, <1>22, <1>23, <1>24, <1>25, <1>26, <1>27, <1>28, <1>29,
      <1>30, <1>31, <1>32, <1>33, <1>34, <1>35, <1>36, <1>37, <1>38, <1>39
      DEF Next, RoundStep, SectionStep, CallStep, AnswerStep,
      GovernanceStep, BootStep

(* Only the commit of apply() changes memory.                              *)
LEMMA EffectsStay ==
  ASSUME [Next]_vars, ~\E q \in Request : WriteCommit(q) PROVE effects' = effects
BY DEF Next, RoundStep, SectionStep, CallStep, AnswerStep, GovernanceStep,
      BootStep, Start, OpenSegment, Send, GiveUp, Delta, ToolTimeout,
      AnswerFails, AnswerCompletes, AnswerCalls, Prepare, Refuse, Dispatch,
      Withhold, ReadLocal, WriteIntent, WriteRepeated, WriteRejected,
      WriteFails, KeepResult, DropResult, NextCall, LedgerFault, Settle,
      CloseSegment, Finish, FinishGoverned, FinishFault, Departs, Cancel,
      Withdraw, Govern, PolicyMove, PolicyReport, PolicyFault, Hook, Exit,
      Crash, Halt, RecoverTimeline, RecoverLedger, RecoverMemory, vars,
      history

(* The rest of the ledger: a kept body belongs to a call of a round, and   *)
(* only a commit of apply() has an effect.                                 *)
LEMMA LedgerTypesKept ==
  ASSUME TypeOK, LedgerInv, [Next]_vars PROVE LedgerTypes'
<1>0. /\ segments \in [Request -> {"NONE", "active", "closed", "interrupted"}]
      /\ results \subseteq Request \X Call
      /\ effects \in [Request -> [Call -> Nat]]
  BY DEF TypeOK, LedgerTypes
<1>1. segments' \in [Request -> {"NONE", "active", "closed", "interrupted"}]
  BY <1>0 DEF Next, RoundStep, SectionStep, CallStep, AnswerStep,
        GovernanceStep, BootStep, Start, OpenSegment, Send, GiveUp, Delta,
        ToolTimeout, AnswerFails, AnswerCompletes, AnswerCalls, Prepare,
        Refuse, Dispatch, Withhold, ReadLocal, WriteIntent, WriteRepeated,
        WriteRejected, WriteCommit, WriteFails, KeepResult, DropResult,
        NextCall, LedgerFault, Settle, CloseSegment, Interrupted, Finish,
        FinishGoverned, FinishFault, Departs, Cancel, Withdraw, Govern,
        PolicyMove, PolicyReport, PolicyFault, Hook, Exit, Crash, Halt,
        RecoverTimeline, RecoverLedger, RecoverMemory, vars, ledger
<1>2. ASSUME NEW q \in Request,
             WriteCommit(q) \/ WriteFails(q) \/ KeepResult(q)
      PROVE  results' \subseteq Request \X Call
  <2>1. call[q] \in Call
    BY <1>2 DEF LedgerInv, PlaceAgrees, At, WriteCommit, WriteFails,
          KeepResult
  <2> QED
    BY <1>0, <1>2, <2>1 DEF WriteCommit, WriteFails, KeepResult, KeepBody
<1>3. ASSUME ~\E q \in Request : WriteCommit(q) \/ WriteFails(q) \/ KeepResult(q)
      PROVE  results' = results
  BY <1>3 DEF Next, RoundStep, SectionStep, CallStep, AnswerStep,
        GovernanceStep, BootStep, Start, OpenSegment, Send, GiveUp, Delta,
        ToolTimeout, AnswerFails, AnswerCompletes, AnswerCalls, Prepare,
        Refuse, Dispatch, Withhold, ReadLocal, WriteIntent, WriteRepeated,
        WriteRejected, DropResult, NextCall, LedgerFault, CloseSegment,
        Finish, FinishGoverned, FinishFault, Departs, Cancel, Withdraw,
        Govern, PolicyMove, PolicyReport, PolicyFault, Hook, Exit, Crash,
        Halt, RecoverTimeline, RecoverLedger, RecoverMemory, vars, ledger
<1>4. effects' \in [Request -> [Call -> Nat]]
  <2>1. ASSUME NEW q \in Request, WriteCommit(q)
        PROVE  effects' \in [Request -> [Call -> Nat]]
    <3>1. effects[q][call[q]] + 1 \in Nat
      BY <1>0, <2>1 DEF LedgerInv, PlaceAgrees, At, WriteCommit
    <3>2. effects' = [effects EXCEPT ![q][call[q]] = effects[q][call[q]] + 1]
      BY <2>1 DEF WriteCommit
    <3> QED
      BY <1>0, <3>1, <3>2
  <2> QED
    BY <1>0, <2>1, EffectsStay
<1>5. ops' \in [Request -> [Call -> Operation]]
  BY OpsKept DEF Ops
<1> QED
  BY <1>0, <1>1, <1>2, <1>3, <1>4, <1>5, CommandsKept DEF LedgerTypes

-----------------------------------------------------------------------------
(***************************************************************************)
(* What the ledger, the commands and the places of rounds say of each      *)
(* other survives every commit, crash and recovery.                        *)
(***************************************************************************)
(* Places and operations keep agreeing.                                    *)
LEMMA PlaceKept ==
  ASSUME TypeOK, LedgerInv, [Next]_vars PROVE PlaceAgrees'
<1>0. /\ ops \in Ops /\ commands \in [Request -> Command]
      /\ pc \in [Request -> Place] /\ call \in [Request -> 0..MaxCalls]
      /\ effects \in [Request -> [Call -> Nat]]
  BY DEF TypeOK, LedgerTypes, RoundTypes, Ops
<1> USE RoundAssumption DEF LedgerInv, Ops, timeline, ledger, world, round,
      signals, volatile, history, Call, PlaceAgrees, BootRests, Operation,
      Command, CurrentOp, At
<1>1. ASSUME NEW q \in Request, Start(q) PROVE PlaceAgrees'
  BY <1>1, <1>0 DEF Start, Goto
<1>2. ASSUME NEW q \in Request, OpenSegment(q) PROVE PlaceAgrees'
  BY <1>2, <1>0 DEF OpenSegment, Goto, At
<1>3. ASSUME NEW q \in Request, Send(q) PROVE PlaceAgrees'
  BY <1>3, <1>0 DEF Send, Goto, At, Check
<1>4. ASSUME NEW q \in Request, GiveUp(q) PROVE PlaceAgrees'
  BY <1>4, <1>0 DEF GiveUp, Leave, Goto
<1>5. ASSUME NEW q \in Request, Delta(q) PROVE PlaceAgrees'
  BY <1>5, <1>0 DEF Delta
<1>6. ASSUME NEW q \in Request, ToolTimeout(q) PROVE PlaceAgrees'
  BY <1>6, <1>0 DEF ToolTimeout
<1>7. ASSUME NEW q \in Request, AnswerFails(q) PROVE PlaceAgrees'
  BY <1>7, <1>0 DEF AnswerFails, Leave, Goto, Resume
<1>8. ASSUME NEW q \in Request, AnswerCompletes(q) PROVE PlaceAgrees'
  BY <1>8, <1>0 DEF AnswerCompletes, Leave, Goto, Resume
<1>9. ASSUME NEW q \in Request, AnswerCalls(q) PROVE PlaceAgrees'
  BY <1>9, <1>0 DEF AnswerCalls, Goto, Resume
<1>10. ASSUME NEW q \in Request, Prepare(q) PROVE PlaceAgrees'
  BY <1>10, <1>0 DEF Prepare, Goto, At
<1>11. ASSUME NEW q \in Request, Refuse(q) PROVE PlaceAgrees'
  BY <1>11, <1>0 DEF Refuse, Settle, Record, Leave, Goto, At, CurrentOp,
      Refusal
<1>12. ASSUME NEW q \in Request, Dispatch(q) PROVE PlaceAgrees'
  BY <1>12, <1>0 DEF Dispatch, Settle, Record, Goto, At, CurrentOp
<1>13. ASSUME NEW q \in Request, Withhold(q) PROVE PlaceAgrees'
  BY <1>13, <1>0 DEF Withhold, Settle, Record, Leave, Goto, At, CurrentOp
<1>14. ASSUME NEW q \in Request, ReadLocal(q) PROVE PlaceAgrees'
  <2>1. CASE Settle(q, "DISPATCHING") /\ Goto(q, "returned")
    BY <1>14, <2>1, <1>0 DEF ReadLocal, Settle, Record, Goto
  <2>2. CASE Settle(q, "RESULT_UNKNOWN") /\ Leave(q, "error")
    BY <1>14, <2>2, <1>0 DEF ReadLocal, Settle, Record, Leave, Goto
  <2> QED
    BY <1>14, <2>1, <2>2 DEF ReadLocal
<1>15. ASSUME NEW q \in Request, WriteIntent(q) PROVE PlaceAgrees'
  BY <1>15, <1>0 DEF WriteIntent, Writing, Goto, At, CurrentOp
<1>16. ASSUME NEW q \in Request, WriteRepeated(q) PROVE PlaceAgrees'
  BY <1>16, <1>0 DEF WriteRepeated, Writing, Goto, At, CurrentOp
<1>17. ASSUME NEW q \in Request, WriteRejected(q) PROVE PlaceAgrees'
  BY <1>17, <1>0 DEF WriteRejected, Writing, Settle, Record, Leave, Goto,
      At, CurrentOp
<1>18. ASSUME NEW q \in Request, WriteCommit(q) PROVE PlaceAgrees'
  BY <1>18, <1>0 DEF WriteCommit, Receipt, Readers, Record, KeepBody,
      Goto, At, CurrentOp
<1>19. ASSUME NEW q \in Request, WriteFails(q) PROVE PlaceAgrees'
  BY <1>19, <1>0 DEF WriteFails, Settle, Record, KeepBody, Leave, Goto,
      At, CurrentOp
<1>20. ASSUME NEW q \in Request, KeepResult(q) PROVE PlaceAgrees'
  BY <1>20, <1>0 DEF KeepResult, Settle, Done, Record, KeepBody, Goto, At,
      CurrentOp
<1>21. ASSUME NEW q \in Request, DropResult(q) PROVE PlaceAgrees'
  BY <1>21, <1>0 DEF DropResult, Settle, Done, Record, Leave, Goto, At,
      CurrentOp
<1>22. ASSUME NEW q \in Request, NextCall(q) PROVE PlaceAgrees'
  BY <1>22, <1>0 DEF NextCall, Goto, At
<1>23. ASSUME NEW q \in Request, LedgerFault(q) PROVE PlaceAgrees'
  <2>1. CASE UNCHANGED ops
    BY <1>23, <2>1, <1>0 DEF LedgerFault, Leave, Goto
  <2>2. CASE At(q, "writing") /\ Record(q, "RESULT_UNKNOWN")
    BY <1>23, <2>2, <1>0 DEF LedgerFault, Record, Leave, Goto
  <2> QED
    BY <1>23, <2>1, <2>2 DEF LedgerFault
<1>24. ASSUME NEW q \in Request, CloseSegment(q) PROVE PlaceAgrees'
  BY <1>24, <1>0 DEF CloseSegment, Interrupted, Goto, At
<1>25. ASSUME NEW q \in Request, Finish(q) PROVE PlaceAgrees'
  BY <1>25, <1>0 DEF Finish, Departs, Outcomes, Goto, At
<1>26. ASSUME NEW q \in Request, FinishGoverned(q) PROVE PlaceAgrees'
  BY <1>26, <1>0 DEF FinishGoverned, Departs, Goto, At
<1>27. ASSUME NEW q \in Request, FinishFault(q) PROVE PlaceAgrees'
  BY <1>27, <1>0 DEF FinishFault, Departs, Goto, At
<1>28. ASSUME NEW q \in Request, Cancel(q) PROVE PlaceAgrees'
  BY <1>28, <1>0 DEF Cancel
<1>29. ASSUME NEW q \in Request, Withdraw(q) PROVE PlaceAgrees'
  BY <1>29, <1>0 DEF Withdraw
<1>30. ASSUME Govern PROVE PlaceAgrees'
  BY <1>30, <1>0 DEF Govern, Commit, Hook, BlankText, Governing
<1>31. ASSUME PolicyMove PROVE PlaceAgrees'
  BY <1>31, <1>0 DEF PolicyMove, Governing, Commit
<1>32. ASSUME PolicyReport PROVE PlaceAgrees'
  BY <1>32, <1>0 DEF PolicyReport, Governing, Hook, BlankText
<1>33. ASSUME PolicyFault PROVE PlaceAgrees'
  BY <1>33, <1>0 DEF PolicyFault, Governing
<1>34. ASSUME Exit PROVE PlaceAgrees'
  BY <1>34, <1>0 DEF Exit, Halt
<1>35. ASSUME Crash PROVE PlaceAgrees'
  BY <1>35, <1>0 DEF Crash, Halt
<1>36. ASSUME RecoverTimeline PROVE PlaceAgrees'
  BY <1>36, <1>0 DEF RecoverTimeline
<1>37. ASSUME RecoverLedger PROVE PlaceAgrees'
  <2>1. \A r \in Request : pc'[r] \in {"idle", "gone"}
    BY <1>37 DEF RecoverLedger
  <2>2. ASSUME NEW r \in Request, NEW c \in Call, c > call'[r]
        PROVE  ops'[r][c].state = "NONE"
    <3>1. ops[r][c].state = "NONE"
      BY <1>37, <2>2 DEF RecoverLedger
    <3>2. ops'[r][c] = [ops[r][c] EXCEPT !.state = Recovered(@)]
      BY <1>37 DEF RecoverLedger
    <3>3. ops[r][c] \in Operation
      BY <1>0
    <3> QED
      BY <3>1, <3>2, <3>3 DEF Recovered
  <2> QED
    BY <2>1, <2>2
<1>38. ASSUME RecoverMemory PROVE PlaceAgrees'
  BY <1>38, <1>0 DEF RecoverMemory, Unapplied
<1>39. CASE UNCHANGED vars
  BY <1>39, <1>0 DEF vars
<1> QED
  BY <1>1, <1>2, <1>3, <1>4, <1>5, <1>6, <1>7, <1>8, <1>9, <1>10, <1>11,
      <1>12, <1>13, <1>14, <1>15, <1>16, <1>17, <1>18, <1>19, <1>20,
      <1>21, <1>22, <1>23, <1>24, <1>25, <1>26, <1>27, <1>28, <1>29,
      <1>30, <1>31, <1>32, <1>33, <1>34, <1>35, <1>36, <1>37, <1>38, <1>39
      DEF Next, RoundStep, SectionStep, CallStep, AnswerStep,
      GovernanceStep, BootStep

(* So do commands, operations and memory.                                  *)
LEMMA CommandKept ==
  ASSUME TypeOK, LedgerInv, [Next]_vars PROVE CommandAgrees'
<1>0. /\ ops \in Ops /\ commands \in [Request -> Command]
      /\ pc \in [Request -> Place] /\ call \in [Request -> 0..MaxCalls]
      /\ effects \in [Request -> [Call -> Nat]]
  BY DEF TypeOK, LedgerTypes, RoundTypes, Ops
<1> USE RoundAssumption DEF LedgerInv, Ops, timeline, ledger, world, round,
      signals, volatile, history, Call, PlaceAgrees, CommandAgrees,
      BootRests, Operation, Command, CurrentOp, At
<1>1. ASSUME NEW q \in Request, Start(q) PROVE CommandAgrees'
  BY <1>1, <1>0 DEF Start, Goto
<1>2. ASSUME NEW q \in Request, OpenSegment(q) PROVE CommandAgrees'
  BY <1>2, <1>0 DEF OpenSegment, Goto, At
<1>3. ASSUME NEW q \in Request, Send(q) PROVE CommandAgrees'
  BY <1>3, <1>0 DEF Send, Goto, At, Check
<1>4. ASSUME NEW q \in Request, GiveUp(q) PROVE CommandAgrees'
  BY <1>4, <1>0 DEF GiveUp, Leave, Goto
<1>5. ASSUME NEW q \in Request, Delta(q) PROVE CommandAgrees'
  BY <1>5, <1>0 DEF Delta
<1>6. ASSUME NEW q \in Request, ToolTimeout(q) PROVE CommandAgrees'
  BY <1>6, <1>0 DEF ToolTimeout
<1>7. ASSUME NEW q \in Request, AnswerFails(q) PROVE CommandAgrees'
  BY <1>7, <1>0 DEF AnswerFails, Leave, Goto, Resume
<1>8. ASSUME NEW q \in Request, AnswerCompletes(q) PROVE CommandAgrees'
  BY <1>8, <1>0 DEF AnswerCompletes, Leave, Goto, Resume
<1>9. ASSUME NEW q \in Request, AnswerCalls(q) PROVE CommandAgrees'
  BY <1>9, <1>0 DEF AnswerCalls, Goto, Resume
<1>10. ASSUME NEW q \in Request, Prepare(q) PROVE CommandAgrees'
  BY <1>10, <1>0 DEF Prepare, Goto, At
<1>11. ASSUME NEW q \in Request, Refuse(q) PROVE CommandAgrees'
  BY <1>11, <1>0 DEF Refuse, Settle, Record, Leave, Goto, At, CurrentOp,
      Refusal
<1>12. ASSUME NEW q \in Request, Dispatch(q) PROVE CommandAgrees'
  BY <1>12, <1>0 DEF Dispatch, Settle, Record, Goto, At, CurrentOp
<1>13. ASSUME NEW q \in Request, Withhold(q) PROVE CommandAgrees'
  BY <1>13, <1>0 DEF Withhold, Settle, Record, Leave, Goto, At, CurrentOp
<1>14. ASSUME NEW q \in Request, ReadLocal(q) PROVE CommandAgrees'
  <2>1. CASE Settle(q, "DISPATCHING") /\ Goto(q, "returned")
    BY <1>14, <2>1, <1>0 DEF ReadLocal, Settle, Record, Goto
  <2>2. CASE Settle(q, "RESULT_UNKNOWN") /\ Leave(q, "error")
    BY <1>14, <2>2, <1>0 DEF ReadLocal, Settle, Record, Leave, Goto
  <2> QED
    BY <1>14, <2>1, <2>2 DEF ReadLocal
<1>15. ASSUME NEW q \in Request, WriteIntent(q) PROVE CommandAgrees'
  BY <1>15, <1>0 DEF WriteIntent, Writing, UnknownCommand, Goto
<1>16. ASSUME NEW q \in Request, WriteRepeated(q) PROVE CommandAgrees'
  BY <1>16, <1>0 DEF WriteRepeated, Writing, Goto, At, CurrentOp
<1>17. ASSUME NEW q \in Request, WriteRejected(q) PROVE CommandAgrees'
  BY <1>17, <1>0 DEF WriteRejected, Writing, Settle, Record, Leave, Goto,
      At, CurrentOp
<1>18. ASSUME NEW q \in Request, WriteCommit(q) PROVE CommandAgrees'
  BY <1>18, <1>0 DEF WriteCommit, Receipt, Readers, Record, KeepBody,
      Goto, At, CurrentOp
<1>19. ASSUME NEW q \in Request, WriteFails(q) PROVE CommandAgrees'
  BY <1>19, <1>0 DEF WriteFails, Settle, Record, KeepBody, Leave, Goto,
      At, CurrentOp
<1>20. ASSUME NEW q \in Request, KeepResult(q) PROVE CommandAgrees'
  BY <1>20, <1>0 DEF KeepResult, Settle, Done, Record, KeepBody, Goto, At,
      CurrentOp
<1>21. ASSUME NEW q \in Request, DropResult(q) PROVE CommandAgrees'
  BY <1>21, <1>0 DEF DropResult, Settle, Done, Record, Leave, Goto, At,
      CurrentOp
<1>22. ASSUME NEW q \in Request, NextCall(q) PROVE CommandAgrees'
  BY <1>22, <1>0 DEF NextCall, Goto, At
<1>23. ASSUME NEW q \in Request, LedgerFault(q) PROVE CommandAgrees'
  <2>1. CASE UNCHANGED ops
    BY <1>23, <2>1, <1>0 DEF LedgerFault, Leave, Goto
  <2>2. CASE At(q, "writing") /\ Record(q, "RESULT_UNKNOWN")
    BY <1>23, <2>2, <1>0 DEF LedgerFault, Record, Leave, Goto
  <2> QED
    BY <1>23, <2>1, <2>2 DEF LedgerFault
<1>24. ASSUME NEW q \in Request, CloseSegment(q) PROVE CommandAgrees'
  BY <1>24, <1>0 DEF CloseSegment, Interrupted, Goto, At
<1>25. ASSUME NEW q \in Request, Finish(q) PROVE CommandAgrees'
  BY <1>25, <1>0 DEF Finish, Departs, Outcomes, Goto, At
<1>26. ASSUME NEW q \in Request, FinishGoverned(q) PROVE CommandAgrees'
  BY <1>26, <1>0 DEF FinishGoverned, Departs, Goto, At
<1>27. ASSUME NEW q \in Request, FinishFault(q) PROVE CommandAgrees'
  BY <1>27, <1>0 DEF FinishFault, Departs, Goto, At
<1>28. ASSUME NEW q \in Request, Cancel(q) PROVE CommandAgrees'
  BY <1>28, <1>0 DEF Cancel
<1>29. ASSUME NEW q \in Request, Withdraw(q) PROVE CommandAgrees'
  BY <1>29, <1>0 DEF Withdraw
<1>30. ASSUME Govern PROVE CommandAgrees'
  BY <1>30, <1>0 DEF Govern, Commit, Hook, BlankText, Governing
<1>31. ASSUME PolicyMove PROVE CommandAgrees'
  BY <1>31, <1>0 DEF PolicyMove, Governing, Commit
<1>32. ASSUME PolicyReport PROVE CommandAgrees'
  BY <1>32, <1>0 DEF PolicyReport, Governing, Hook, BlankText
<1>33. ASSUME PolicyFault PROVE CommandAgrees'
  BY <1>33, <1>0 DEF PolicyFault, Governing
<1>34. ASSUME Exit PROVE CommandAgrees'
  BY <1>34, <1>0 DEF Exit, Halt
<1>35. ASSUME Crash PROVE CommandAgrees'
  BY <1>35, <1>0 DEF Crash, Halt
<1>36. ASSUME RecoverTimeline PROVE CommandAgrees'
  BY <1>36, <1>0 DEF RecoverTimeline
<1>37. ASSUME RecoverLedger PROVE CommandAgrees'
  BY <1>37, <1>0 DEF RecoverLedger, Recovered, Interrupted
<1>38. ASSUME RecoverMemory PROVE CommandAgrees'
  BY <1>38, <1>0 DEF RecoverMemory, Unapplied
<1>39. CASE UNCHANGED vars
  BY <1>39, <1>0 DEF vars
<1> QED
  BY <1>1, <1>2, <1>3, <1>4, <1>5, <1>6, <1>7, <1>8, <1>9, <1>10, <1>11,
      <1>12, <1>13, <1>14, <1>15, <1>16, <1>17, <1>18, <1>19, <1>20,
      <1>21, <1>22, <1>23, <1>24, <1>25, <1>26, <1>27, <1>28, <1>29,
      <1>30, <1>31, <1>32, <1>33, <1>34, <1>35, <1>36, <1>37, <1>38, <1>39
      DEF Next, RoundStep, SectionStep, CallStep, AnswerStep,
      GovernanceStep, BootStep

(* No section runs while the program starts.                               *)
LEMMA BootKept ==
  ASSUME TypeOK, LedgerInv, [Next]_vars PROVE BootRests'
<1>0. /\ ops \in Ops /\ commands \in [Request -> Command]
      /\ pc \in [Request -> Place] /\ call \in [Request -> 0..MaxCalls]
      /\ effects \in [Request -> [Call -> Nat]]
  BY DEF TypeOK, LedgerTypes, RoundTypes, Ops
<1> USE RoundAssumption DEF LedgerInv, Ops, timeline, ledger, world, round,
      signals, volatile, history, Call, BootRests, Free, Resting, Callback,
      Place, Outside, At
<1>1. ASSUME NEW q \in Request, Start(q) PROVE BootRests'
  BY <1>1, <1>0 DEF Start, Goto
<1>2. ASSUME NEW q \in Request, OpenSegment(q) PROVE BootRests'
  BY <1>2, <1>0 DEF OpenSegment, Goto, At
<1>3. ASSUME NEW q \in Request, Send(q) PROVE BootRests'
  BY <1>3, <1>0 DEF Send, Goto, At, Check
<1>4. ASSUME NEW q \in Request, GiveUp(q) PROVE BootRests'
  BY <1>4, <1>0 DEF GiveUp, Leave, Goto
<1>5. ASSUME NEW q \in Request, Delta(q) PROVE BootRests'
  BY <1>5, <1>0 DEF Delta
<1>6. ASSUME NEW q \in Request, ToolTimeout(q) PROVE BootRests'
  BY <1>6, <1>0 DEF ToolTimeout
<1>7. ASSUME NEW q \in Request, AnswerFails(q) PROVE BootRests'
  BY <1>7, <1>0 DEF AnswerFails, Leave, Goto, Resume
<1>8. ASSUME NEW q \in Request, AnswerCompletes(q) PROVE BootRests'
  BY <1>8, <1>0 DEF AnswerCompletes, Leave, Goto, Resume
<1>9. ASSUME NEW q \in Request, AnswerCalls(q) PROVE BootRests'
  BY <1>9, <1>0 DEF AnswerCalls, Goto, Resume
<1>10. ASSUME NEW q \in Request, Prepare(q) PROVE BootRests'
  BY <1>10, <1>0 DEF Prepare, Goto, At
<1>11. ASSUME NEW q \in Request, Refuse(q) PROVE BootRests'
  BY <1>11, <1>0 DEF Refuse, Settle, Record, Leave, Goto, At, CurrentOp,
      Refusal
<1>12. ASSUME NEW q \in Request, Dispatch(q) PROVE BootRests'
  BY <1>12, <1>0 DEF Dispatch, Settle, Record, Goto, At, CurrentOp
<1>13. ASSUME NEW q \in Request, Withhold(q) PROVE BootRests'
  BY <1>13, <1>0 DEF Withhold, Settle, Record, Leave, Goto, At, CurrentOp
<1>14. ASSUME NEW q \in Request, ReadLocal(q) PROVE BootRests'
  BY <1>14, <1>0 DEF ReadLocal, Settle, Record, Leave, Goto, At, CurrentOp
<1>15. ASSUME NEW q \in Request, WriteIntent(q) PROVE BootRests'
  BY <1>15, <1>0 DEF WriteIntent, Writing, Goto, At, CurrentOp
<1>16. ASSUME NEW q \in Request, WriteRepeated(q) PROVE BootRests'
  BY <1>16, <1>0 DEF WriteRepeated, Writing, Goto, At, CurrentOp
<1>17. ASSUME NEW q \in Request, WriteRejected(q) PROVE BootRests'
  BY <1>17, <1>0 DEF WriteRejected, Writing, Settle, Record, Leave, Goto,
      At, CurrentOp
<1>18. ASSUME NEW q \in Request, WriteCommit(q) PROVE BootRests'
  BY <1>18, <1>0 DEF WriteCommit, Receipt, Readers, Record, KeepBody,
      Goto, At, CurrentOp
<1>19. ASSUME NEW q \in Request, WriteFails(q) PROVE BootRests'
  BY <1>19, <1>0 DEF WriteFails, Settle, Record, KeepBody, Leave, Goto,
      At, CurrentOp
<1>20. ASSUME NEW q \in Request, KeepResult(q) PROVE BootRests'
  BY <1>20, <1>0 DEF KeepResult, Settle, Done, Record, KeepBody, Goto, At,
      CurrentOp
<1>21. ASSUME NEW q \in Request, DropResult(q) PROVE BootRests'
  BY <1>21, <1>0 DEF DropResult, Settle, Done, Record, Leave, Goto, At,
      CurrentOp
<1>22. ASSUME NEW q \in Request, NextCall(q) PROVE BootRests'
  BY <1>22, <1>0 DEF NextCall, Goto, At
<1>23. ASSUME NEW q \in Request, LedgerFault(q) PROVE BootRests'
  BY <1>23, <1>0 DEF LedgerFault, Record, Leave, Goto, At, CurrentOp
<1>24. ASSUME NEW q \in Request, CloseSegment(q) PROVE BootRests'
  BY <1>24, <1>0 DEF CloseSegment, Interrupted, Goto, At
<1>25. ASSUME NEW q \in Request, Finish(q) PROVE BootRests'
  BY <1>25, <1>0 DEF Finish, Departs, Outcomes, Goto, At
<1>26. ASSUME NEW q \in Request, FinishGoverned(q) PROVE BootRests'
  BY <1>26, <1>0 DEF FinishGoverned, Departs, Goto, At
<1>27. ASSUME NEW q \in Request, FinishFault(q) PROVE BootRests'
  BY <1>27, <1>0 DEF FinishFault, Departs, Goto, At
<1>28. ASSUME NEW q \in Request, Cancel(q) PROVE BootRests'
  BY <1>28, <1>0 DEF Cancel
<1>29. ASSUME NEW q \in Request, Withdraw(q) PROVE BootRests'
  BY <1>29, <1>0 DEF Withdraw
<1>30. ASSUME Govern PROVE BootRests'
  BY <1>30, <1>0 DEF Govern, Commit, Hook, BlankText, Governing
<1>31. ASSUME PolicyMove PROVE BootRests'
  BY <1>31, <1>0 DEF PolicyMove, Governing, Commit
<1>32. ASSUME PolicyReport PROVE BootRests'
  BY <1>32, <1>0 DEF PolicyReport, Governing, Hook, BlankText
<1>33. ASSUME PolicyFault PROVE BootRests'
  BY <1>33, <1>0 DEF PolicyFault, Governing
<1>34. ASSUME Exit PROVE BootRests'
  BY <1>34, <1>0 DEF Exit, Halt
<1>35. ASSUME Crash PROVE BootRests'
  BY <1>35, <1>0 DEF Crash, Halt
<1>36. ASSUME RecoverTimeline PROVE BootRests'
  BY <1>36, <1>0 DEF RecoverTimeline
<1>37. ASSUME RecoverLedger PROVE BootRests'
  BY <1>37, <1>0 DEF RecoverLedger, Recovered, Interrupted
<1>38. ASSUME RecoverMemory PROVE BootRests'
  BY <1>38, <1>0 DEF RecoverMemory, Unapplied
<1>39. CASE UNCHANGED vars
  BY <1>39, <1>0 DEF vars
<1> QED
  BY <1>1, <1>2, <1>3, <1>4, <1>5, <1>6, <1>7, <1>8, <1>9, <1>10, <1>11,
      <1>12, <1>13, <1>14, <1>15, <1>16, <1>17, <1>18, <1>19, <1>20,
      <1>21, <1>22, <1>23, <1>24, <1>25, <1>26, <1>27, <1>28, <1>29,
      <1>30, <1>31, <1>32, <1>33, <1>34, <1>35, <1>36, <1>37, <1>38, <1>39
      DEF Next, RoundStep, SectionStep, CallStep, AnswerStep,
      GovernanceStep, BootStep

(* Sections do not overlap.                                                *)
LEMMA RunningKept ==
  ASSUME TypeOK, LedgerInv, [Next]_vars PROVE OneRunning'
<1>0. pc \in [Request -> Place]
  BY DEF TypeOK, RoundTypes
<1> USE RoundAssumption DEF LedgerInv, timeline, ledger, world, round,
      signals, volatile, history, OneRunning, Free, Resting, Callback, Place,
      At
<1>1. ASSUME NEW q \in Request, Start(q) PROVE OneRunning'
  BY <1>1, <1>0 DEF Start, Goto
<1>2. ASSUME NEW q \in Request, OpenSegment(q) PROVE OneRunning'
  BY <1>2, <1>0 DEF OpenSegment, Goto, At
<1>3. ASSUME NEW q \in Request, Send(q) PROVE OneRunning'
  BY <1>3, <1>0 DEF Send, Goto, At, Check
<1>4. ASSUME NEW q \in Request, GiveUp(q) PROVE OneRunning'
  BY <1>4, <1>0 DEF GiveUp, Leave, Goto
<1>5. ASSUME NEW q \in Request, Delta(q) PROVE OneRunning'
  BY <1>5, <1>0 DEF Delta
<1>6. ASSUME NEW q \in Request, ToolTimeout(q) PROVE OneRunning'
  BY <1>6, <1>0 DEF ToolTimeout
<1>7. ASSUME NEW q \in Request, AnswerFails(q) PROVE OneRunning'
  BY <1>7, <1>0 DEF AnswerFails, Leave, Goto, Resume
<1>8. ASSUME NEW q \in Request, AnswerCompletes(q) PROVE OneRunning'
  BY <1>8, <1>0 DEF AnswerCompletes, Leave, Goto, Resume
<1>9. ASSUME NEW q \in Request, AnswerCalls(q) PROVE OneRunning'
  BY <1>9, <1>0 DEF AnswerCalls, Goto, Resume
<1>10. ASSUME NEW q \in Request, Prepare(q) PROVE OneRunning'
  BY <1>10, <1>0 DEF Prepare, Goto, At
<1>11. ASSUME NEW q \in Request, Refuse(q) PROVE OneRunning'
  BY <1>11, <1>0 DEF Refuse, Settle, Record, Leave, Goto, At, CurrentOp,
      Refusal
<1>12. ASSUME NEW q \in Request, Dispatch(q) PROVE OneRunning'
  BY <1>12, <1>0 DEF Dispatch, Settle, Record, Goto, At, CurrentOp
<1>13. ASSUME NEW q \in Request, Withhold(q) PROVE OneRunning'
  BY <1>13, <1>0 DEF Withhold, Settle, Record, Leave, Goto, At, CurrentOp
<1>14. ASSUME NEW q \in Request, ReadLocal(q) PROVE OneRunning'
  BY <1>14, <1>0 DEF ReadLocal, Settle, Record, Leave, Goto, At, CurrentOp
<1>15. ASSUME NEW q \in Request, WriteIntent(q) PROVE OneRunning'
  BY <1>15, <1>0 DEF WriteIntent, Writing, Goto, At, CurrentOp
<1>16. ASSUME NEW q \in Request, WriteRepeated(q) PROVE OneRunning'
  BY <1>16, <1>0 DEF WriteRepeated, Writing, Goto, At, CurrentOp
<1>17. ASSUME NEW q \in Request, WriteRejected(q) PROVE OneRunning'
  BY <1>17, <1>0 DEF WriteRejected, Writing, Settle, Record, Leave, Goto,
      At, CurrentOp
<1>18. ASSUME NEW q \in Request, WriteCommit(q) PROVE OneRunning'
  BY <1>18, <1>0 DEF WriteCommit, Receipt, Readers, Record, KeepBody,
      Goto, At, CurrentOp
<1>19. ASSUME NEW q \in Request, WriteFails(q) PROVE OneRunning'
  BY <1>19, <1>0 DEF WriteFails, Settle, Record, KeepBody, Leave, Goto,
      At, CurrentOp
<1>20. ASSUME NEW q \in Request, KeepResult(q) PROVE OneRunning'
  BY <1>20, <1>0 DEF KeepResult, Settle, Done, Record, KeepBody, Goto, At,
      CurrentOp
<1>21. ASSUME NEW q \in Request, DropResult(q) PROVE OneRunning'
  BY <1>21, <1>0 DEF DropResult, Settle, Done, Record, Leave, Goto, At,
      CurrentOp
<1>22. ASSUME NEW q \in Request, NextCall(q) PROVE OneRunning'
  BY <1>22, <1>0 DEF NextCall, Goto, At
<1>23. ASSUME NEW q \in Request, LedgerFault(q) PROVE OneRunning'
  BY <1>23, <1>0 DEF LedgerFault, Record, Leave, Goto, At, CurrentOp
<1>24. ASSUME NEW q \in Request, CloseSegment(q) PROVE OneRunning'
  BY <1>24, <1>0 DEF CloseSegment, Interrupted, Goto, At
<1>25. ASSUME NEW q \in Request, Finish(q) PROVE OneRunning'
  BY <1>25, <1>0 DEF Finish, Departs, Outcomes, Goto, At
<1>26. ASSUME NEW q \in Request, FinishGoverned(q) PROVE OneRunning'
  BY <1>26, <1>0 DEF FinishGoverned, Departs, Goto, At
<1>27. ASSUME NEW q \in Request, FinishFault(q) PROVE OneRunning'
  BY <1>27, <1>0 DEF FinishFault, Departs, Goto, At
<1>28. ASSUME NEW q \in Request, Cancel(q) PROVE OneRunning'
  BY <1>28, <1>0 DEF Cancel
<1>29. ASSUME NEW q \in Request, Withdraw(q) PROVE OneRunning'
  BY <1>29, <1>0 DEF Withdraw
<1>30. ASSUME Govern PROVE OneRunning'
  BY <1>30, <1>0 DEF Govern, Commit, Hook, BlankText, Governing
<1>31. ASSUME PolicyMove PROVE OneRunning'
  BY <1>31, <1>0 DEF PolicyMove, Governing, Commit
<1>32. ASSUME PolicyReport PROVE OneRunning'
  BY <1>32, <1>0 DEF PolicyReport, Governing, Hook, BlankText
<1>33. ASSUME PolicyFault PROVE OneRunning'
  BY <1>33, <1>0 DEF PolicyFault, Governing
<1>34. ASSUME Exit PROVE OneRunning'
  BY <1>34, <1>0 DEF Exit, Halt
<1>35. ASSUME Crash PROVE OneRunning'
  BY <1>35, <1>0 DEF Crash, Halt
<1>36. ASSUME RecoverTimeline PROVE OneRunning'
  BY <1>36, <1>0 DEF RecoverTimeline
<1>37. ASSUME RecoverLedger PROVE OneRunning'
  BY <1>37, <1>0 DEF RecoverLedger, Recovered, Interrupted
<1>38. ASSUME RecoverMemory PROVE OneRunning'
  BY <1>38, <1>0 DEF RecoverMemory, Unapplied
<1>39. CASE UNCHANGED vars
  BY <1>39, <1>0 DEF vars
<1> QED
  BY <1>1, <1>2, <1>3, <1>4, <1>5, <1>6, <1>7, <1>8, <1>9, <1>10, <1>11,
      <1>12, <1>13, <1>14, <1>15, <1>16, <1>17, <1>18, <1>19, <1>20,
      <1>21, <1>22, <1>23, <1>24, <1>25, <1>26, <1>27, <1>28, <1>29,
      <1>30, <1>31, <1>32, <1>33, <1>34, <1>35, <1>36, <1>37, <1>38, <1>39
      DEF Next, RoundStep, SectionStep, CallStep, AnswerStep,
      GovernanceStep, BootStep

(* A round between the commits of apply() keeps its authority.             *)
LEMMA WritingKept ==
  ASSUME TypeOK, LedgerInv, [Next]_vars PROVE WritingIsCurrent'
<1>0. /\ pc \in [Request -> Place] /\ granted \in [Request -> BOOLEAN]
      /\ seen \in [Request -> 0..MaxGovernance]
      /\ aborted \subseteq Request /\ inflight \subseteq Request
  BY DEF TypeOK, RoundTypes, SetTypes, WorldTypes
<1> USE RoundAssumption DEF LedgerInv, timeline, ledger, world, round,
      signals, volatile, history, OneRunning, WritingIsCurrent, Check, Free,
      Outside, Resting, Callback, Place, At
<1>1. ASSUME NEW q \in Request, Start(q) PROVE WritingIsCurrent'
  BY <1>1, <1>0 DEF Start, Goto
<1>2. ASSUME NEW q \in Request, OpenSegment(q) PROVE WritingIsCurrent'
  BY <1>2, <1>0 DEF OpenSegment, Goto, At
<1>3. ASSUME NEW q \in Request, Send(q) PROVE WritingIsCurrent'
  BY <1>3, <1>0 DEF Send, Goto, At, Check
<1>4. ASSUME NEW q \in Request, GiveUp(q) PROVE WritingIsCurrent'
  BY <1>4, <1>0 DEF GiveUp, Leave, Goto
<1>5. ASSUME NEW q \in Request, Delta(q) PROVE WritingIsCurrent'
  BY <1>5, <1>0 DEF Delta
<1>6. ASSUME NEW q \in Request, ToolTimeout(q) PROVE WritingIsCurrent'
  BY <1>6, <1>0 DEF ToolTimeout
<1>7. ASSUME NEW q \in Request, AnswerFails(q) PROVE WritingIsCurrent'
  BY <1>7, <1>0 DEF AnswerFails, Leave, Goto, Resume
<1>8. ASSUME NEW q \in Request, AnswerCompletes(q) PROVE WritingIsCurrent'
  BY <1>8, <1>0 DEF AnswerCompletes, Leave, Goto, Resume
<1>9. ASSUME NEW q \in Request, AnswerCalls(q) PROVE WritingIsCurrent'
  BY <1>9, <1>0 DEF AnswerCalls, Goto, Resume
<1>10. ASSUME NEW q \in Request, Prepare(q) PROVE WritingIsCurrent'
  BY <1>10, <1>0 DEF Prepare, Goto, At
<1>11. ASSUME NEW q \in Request, Refuse(q) PROVE WritingIsCurrent'
  BY <1>11, <1>0 DEF Refuse, Settle, Record, Leave, Goto, At, CurrentOp,
      Refusal
<1>12. ASSUME NEW q \in Request, Dispatch(q) PROVE WritingIsCurrent'
  BY <1>12, <1>0 DEF Dispatch, Settle, Record, Goto, At, CurrentOp
<1>13. ASSUME NEW q \in Request, Withhold(q) PROVE WritingIsCurrent'
  BY <1>13, <1>0 DEF Withhold, Settle, Record, Leave, Goto, At, CurrentOp
<1>14. ASSUME NEW q \in Request, ReadLocal(q) PROVE WritingIsCurrent'
  BY <1>14, <1>0 DEF ReadLocal, Settle, Record, Leave, Goto, At, CurrentOp
<1>15. ASSUME NEW q \in Request, WriteIntent(q) PROVE WritingIsCurrent'
  BY <1>15, <1>0 DEF WriteIntent, Writing, Goto, At, CurrentOp
<1>16. ASSUME NEW q \in Request, WriteRepeated(q) PROVE WritingIsCurrent'
  BY <1>16, <1>0 DEF WriteRepeated, Writing, Goto, At, CurrentOp
<1>17. ASSUME NEW q \in Request, WriteRejected(q) PROVE WritingIsCurrent'
  BY <1>17, <1>0 DEF WriteRejected, Writing, Settle, Record, Leave, Goto,
      At, CurrentOp
<1>18. ASSUME NEW q \in Request, WriteCommit(q) PROVE WritingIsCurrent'
  BY <1>18, <1>0 DEF WriteCommit, Receipt, Readers, Record, KeepBody,
      Goto, At, CurrentOp
<1>19. ASSUME NEW q \in Request, WriteFails(q) PROVE WritingIsCurrent'
  BY <1>19, <1>0 DEF WriteFails, Settle, Record, KeepBody, Leave, Goto,
      At, CurrentOp
<1>20. ASSUME NEW q \in Request, KeepResult(q) PROVE WritingIsCurrent'
  BY <1>20, <1>0 DEF KeepResult, Settle, Done, Record, KeepBody, Goto, At,
      CurrentOp
<1>21. ASSUME NEW q \in Request, DropResult(q) PROVE WritingIsCurrent'
  BY <1>21, <1>0 DEF DropResult, Settle, Done, Record, Leave, Goto, At,
      CurrentOp
<1>22. ASSUME NEW q \in Request, NextCall(q) PROVE WritingIsCurrent'
  BY <1>22, <1>0 DEF NextCall, Goto, At
<1>23. ASSUME NEW q \in Request, LedgerFault(q) PROVE WritingIsCurrent'
  BY <1>23, <1>0 DEF LedgerFault, Record, Leave, Goto, At, CurrentOp
<1>24. ASSUME NEW q \in Request, CloseSegment(q) PROVE WritingIsCurrent'
  BY <1>24, <1>0 DEF CloseSegment, Interrupted, Goto, At
<1>25. ASSUME NEW q \in Request, Finish(q) PROVE WritingIsCurrent'
  BY <1>25, <1>0 DEF Finish, Departs, Outcomes, Goto, At
<1>26. ASSUME NEW q \in Request, FinishGoverned(q) PROVE WritingIsCurrent'
  BY <1>26, <1>0 DEF FinishGoverned, Departs, Goto, At
<1>27. ASSUME NEW q \in Request, FinishFault(q) PROVE WritingIsCurrent'
  BY <1>27, <1>0 DEF FinishFault, Departs, Goto, At
<1>28. ASSUME NEW q \in Request, Cancel(q) PROVE WritingIsCurrent'
  BY <1>28, <1>0 DEF Cancel
<1>29. ASSUME NEW q \in Request, Withdraw(q) PROVE WritingIsCurrent'
  BY <1>29, <1>0 DEF Withdraw
<1>30. ASSUME Govern PROVE WritingIsCurrent'
  BY <1>30, <1>0 DEF Govern, Commit, Hook, BlankText, Governing
<1>31. ASSUME PolicyMove PROVE WritingIsCurrent'
  BY <1>31, <1>0 DEF PolicyMove, Governing, Commit
<1>32. ASSUME PolicyReport PROVE WritingIsCurrent'
  BY <1>32, <1>0 DEF PolicyReport, Governing, Hook, BlankText
<1>33. ASSUME PolicyFault PROVE WritingIsCurrent'
  BY <1>33, <1>0 DEF PolicyFault, Governing
<1>34. ASSUME Exit PROVE WritingIsCurrent'
  BY <1>34, <1>0 DEF Exit, Halt
<1>35. ASSUME Crash PROVE WritingIsCurrent'
  BY <1>35, <1>0 DEF Crash, Halt
<1>36. ASSUME RecoverTimeline PROVE WritingIsCurrent'
  BY <1>36, <1>0 DEF RecoverTimeline
<1>37. ASSUME RecoverLedger PROVE WritingIsCurrent'
  BY <1>37, <1>0 DEF RecoverLedger, Recovered, Interrupted
<1>38. ASSUME RecoverMemory PROVE WritingIsCurrent'
  BY <1>38, <1>0 DEF RecoverMemory, Unapplied
<1>39. CASE UNCHANGED vars
  BY <1>39, <1>0 DEF vars
<1> QED
  BY <1>1, <1>2, <1>3, <1>4, <1>5, <1>6, <1>7, <1>8, <1>9, <1>10, <1>11,
      <1>12, <1>13, <1>14, <1>15, <1>16, <1>17, <1>18, <1>19, <1>20,
      <1>21, <1>22, <1>23, <1>24, <1>25, <1>26, <1>27, <1>28, <1>29,
      <1>30, <1>31, <1>32, <1>33, <1>34, <1>35, <1>36, <1>37, <1>38, <1>39
      DEF Next, RoundStep, SectionStep, CallStep, AnswerStep,
      GovernanceStep, BootStep

(* The first state of the ledger is right.                                 *)
LEMMA InitLedger == Init => LedgerInv
<1> SUFFICES ASSUME Init PROVE LedgerInv
  OBVIOUS
<1>1. PlaceAgrees
  BY DEF Init, PlaceAgrees, At, NoOp
<1>2. CommandAgrees
  BY DEF Init, CommandAgrees, NoCommand
<1>3. BootRests
  BY DEF Init, BootRests
<1>4. OneRunning
  BY DEF Init, OneRunning, Resting
<1>5. WritingIsCurrent
  BY DEF Init, WritingIsCurrent, At
<1> QED
  BY <1>1, <1>2, <1>3, <1>4, <1>5 DEF LedgerInv

(* Types and the agreement of ledger, commands and places hold together:   *)
(* a kept body belongs to a call only because places agree.                *)
RoundInv == TypeOK /\ LedgerInv

(* Shapes and agreements together survive every step of the program, the   *)
(* commits of one round among those of the others, crashes and recovery.   *)
THEOREM RoundInductive == Spec => []RoundInv
<1>1. Init => RoundInv
  BY InitType, InitLedger DEF RoundInv
<1>2. ASSUME RoundInv, [Next]_vars PROVE RoundInv'
  <2>1. TypeOK /\ LedgerInv
    BY <1>2 DEF RoundInv
  <2>2. TypeOK'
    BY <1>2, <2>1, LedgerTypesKept, RoundTypesKept, SetTypesKept,
          WorldTypesKept DEF TypeOK
  <2>3. LedgerInv'
    BY <1>2, <2>1, PlaceKept, CommandKept, BootKept, RunningKept, WritingKept
       DEF LedgerInv
  <2> QED
    BY <2>2, <2>3 DEF RoundInv
<1> QED
  BY <1>1, <1>2, PTL DEF Spec

(* Every variable keeps its shape, in every interleaving of rounds,        *)
(* governance, crashes and storage errors.                                 *)
THEOREM RoundTypeCorrect == Spec => []TypeOK
BY RoundInductive, PTL DEF RoundInv

(* The ledger, the commands, the memory and the places of the rounds fit   *)
(* together at every moment (executeCall(), apply(), recover()).           *)
THEOREM LedgerHolds == Spec => []LedgerInv
BY RoundInductive, PTL DEF RoundInv

(* An operation with an effect is SUCCEEDED and so is its command; what    *)
(* the ledger calls refused, unknown or open had no effect.                *)
THEOREM LedgerTruth == Spec => []LedgerTellsTruth
<1>1. RoundInv => LedgerTellsTruth
  <2> SUFFICES ASSUME RoundInv, NEW q \in Request, NEW c \in Call
               PROVE  /\ effects[q][c] > 0 => ops[q][c].state = "SUCCEEDED"
                      /\ effects[q][c] > 0 <=> /\ commands[q].state = "SUCCEEDED"
                                               /\ commands[q].call = c
    BY DEF LedgerTellsTruth
  <2> QED
    BY DEF RoundInv, LedgerInv, CommandAgrees
<1> QED
  BY <1>1, RoundInductive, PTL

(* Memory changes at most once for a round, whatever the model repeats.    *)
THEOREM OneEffect == Spec => []OneEffectPerRound
<1>1. RoundInv => OneEffectPerRound
  BY DEF RoundInv, LedgerInv, CommandAgrees, OneEffectPerRound
<1> QED
  BY <1>1, RoundInductive, PTL

-----------------------------------------------------------------------------
(***************************************************************************)
(* A round that is given up does nothing more.                             *)
(***************************************************************************)
(* Only four steps send, change memory or keep a body.                     *)
LEMMA OthersQuiet ==
  ASSUME [Next]_vars,
         ~\E q \in Request : Send(q) \/ WriteCommit(q) \/ WriteFails(q) \/ KeepResult(q)
  PROVE  UNCHANGED <<exports, effects, results>>
BY DEF Next, RoundStep, SectionStep, CallStep, AnswerStep, GovernanceStep,
      BootStep, Start, OpenSegment, GiveUp, Delta, ToolTimeout, AnswerFails,
      AnswerCompletes, AnswerCalls, Prepare, Refuse, Dispatch, Withhold,
      ReadLocal, WriteIntent, WriteRepeated, WriteRejected, DropResult,
      NextCall, LedgerFault, Settle, CloseSegment, Finish, FinishGoverned,
      FinishFault, Departs, Cancel, Withdraw, Govern, PolicyMove,
      PolicyReport, PolicyFault, Hook, Exit, Crash, Halt, RecoverTimeline,
      RecoverLedger, RecoverMemory, vars, ledger, history

(* Each of the four makes progress for its own round only.                 *)
LEMMA ProgressIsOwn ==
  ASSUME TypeOK, [Next]_vars, NEW q \in Request, Progress(q)
  PROVE  Send(q) \/ WriteCommit(q) \/ WriteFails(q) \/ KeepResult(q)
<1>0. /\ exports \in [Request -> Nat]
      /\ effects \in [Request -> [Call -> Nat]]
  BY DEF TypeOK, RoundTypes, LedgerTypes
<1>1. PICK r \in Request :
        Send(r) \/ WriteCommit(r) \/ WriteFails(r) \/ KeepResult(r)
  BY OthersQuiet DEF Progress
<1>2. q = r
  <2> SUFFICES ASSUME q # r PROVE FALSE
    OBVIOUS
  <2>1. exports'[q] = exports[q]
    BY <1>0, <1>1 DEF Send, WriteCommit, WriteFails, KeepResult, Settle,
          history
  <2>2. effects'[q] = effects[q]
    BY <1>0, <1>1 DEF Send, WriteCommit, WriteFails, KeepResult, Settle,
          history
  <2>3. \A c \in Call : <<q, c>> \in results' => <<q, c>> \in results
    BY <1>1 DEF Send, WriteCommit, WriteFails, KeepResult, KeepBody, ledger
  <2> QED
    BY <2>1, <2>2, <2>3 DEF Progress
<1> QED
  BY <1>1, <1>2

(* Whoever does one of them has just been checked, or is between the two   *)
(* commits of apply(), where its authority cannot have changed.            *)
LEMMA ProgressIsCurrent ==
  ASSUME TypeOK, LedgerInv, [Next]_vars, NEW q \in Request, Progress(q)
  PROVE  Check(q)
BY ProgressIsOwn DEF Send, WriteCommit, WriteFails, KeepResult, LedgerInv,
     WritingIsCurrent

(* A round that was cancelled, timed out, lost its authority or outlived   *)
(* its generation sends nothing, changes nothing and keeps no body.        *)
THEOREM NothingIsDoneAfterGiveUp == Spec => NothingAfterGiveUp
<1>1. ASSUME RoundInv, [Next]_vars
      PROVE  [\A q \in Request : Progress(q) =>
                q \notin aborted \cup expired /\ generation = seen[q] /\ granted[q]]_vars
  BY <1>1, ProgressIsCurrent DEF RoundInv, Check
<1> QED
  BY <1>1, RoundInductive, PTL DEF Spec, NothingAfterGiveUp

(* A round whose readings another one has changed was told so, and stays   *)
(* aborted until it is gone; its answer keeps it from being started again. *)
OutdatedAborted ==
  /\ \A q \in inflight : rows[q] # "NONE"
  /\ \A q \in outdated : rows[q] # "NONE" /\ (q \in aborted \/ pc[q] = "gone")

(* No step leaves such a round running.                                    *)
LEMMA OutdatedKept ==
  ASSUME TypeOK, OutdatedAborted, [Next]_vars PROVE OutdatedAborted'
<1>0. /\ pc \in [Request -> Place] /\ inflight \subseteq Request
      /\ rows \in [Request -> {"NONE", "pending"} \cup Final]
      /\ outdated \subseteq Request
  BY DEF TypeOK, RoundTypes, SetTypes
<1> USE RoundAssumption DEF timeline, ledger, world, round, signals,
        volatile, history, OutdatedAborted, Place, Final, Resting, At
<1>1. ASSUME NEW q \in Request, Start(q) PROVE OutdatedAborted'
  BY <1>1, <1>0 DEF Start, Goto
<1>2. ASSUME NEW q \in Request, OpenSegment(q) PROVE OutdatedAborted'
  BY <1>2, <1>0 DEF OpenSegment, Goto, At
<1>3. ASSUME NEW q \in Request, Send(q) PROVE OutdatedAborted'
  BY <1>3, <1>0 DEF Send, Goto, At, Check
<1>4. ASSUME NEW q \in Request, GiveUp(q) PROVE OutdatedAborted'
  BY <1>4, <1>0 DEF GiveUp, Leave, Goto
<1>5. ASSUME NEW q \in Request, Delta(q) PROVE OutdatedAborted'
  BY <1>5, <1>0 DEF Delta
<1>6. ASSUME NEW q \in Request, ToolTimeout(q) PROVE OutdatedAborted'
  BY <1>6, <1>0 DEF ToolTimeout
<1>7. ASSUME NEW q \in Request, AnswerFails(q) PROVE OutdatedAborted'
  BY <1>7, <1>0 DEF AnswerFails, Leave, Goto, Resume
<1>8. ASSUME NEW q \in Request, AnswerCompletes(q) PROVE OutdatedAborted'
  BY <1>8, <1>0 DEF AnswerCompletes, Leave, Goto, Resume
<1>9. ASSUME NEW q \in Request, AnswerCalls(q) PROVE OutdatedAborted'
  BY <1>9, <1>0 DEF AnswerCalls, Goto, Resume
<1>10. ASSUME NEW q \in Request, Prepare(q) PROVE OutdatedAborted'
  BY <1>10, <1>0 DEF Prepare, Goto, At
<1>11. ASSUME NEW q \in Request, Refuse(q) PROVE OutdatedAborted'
  BY <1>11, <1>0 DEF Refuse, Settle, Record, Leave, Goto, At, CurrentOp,
      Refusal
<1>12. ASSUME NEW q \in Request, Dispatch(q) PROVE OutdatedAborted'
  BY <1>12, <1>0 DEF Dispatch, Settle, Record, Goto, At, CurrentOp
<1>13. ASSUME NEW q \in Request, Withhold(q) PROVE OutdatedAborted'
  BY <1>13, <1>0 DEF Withhold, Settle, Record, Leave, Goto, At, CurrentOp
<1>14. ASSUME NEW q \in Request, ReadLocal(q) PROVE OutdatedAborted'
  BY <1>14, <1>0 DEF ReadLocal, Settle, Record, Leave, Goto, At, CurrentOp
<1>15. ASSUME NEW q \in Request, WriteIntent(q) PROVE OutdatedAborted'
  BY <1>15, <1>0 DEF WriteIntent, Writing, Goto, At, CurrentOp
<1>16. ASSUME NEW q \in Request, WriteRepeated(q) PROVE OutdatedAborted'
  BY <1>16, <1>0 DEF WriteRepeated, Writing, Goto, At, CurrentOp
<1>17. ASSUME NEW q \in Request, WriteRejected(q) PROVE OutdatedAborted'
  BY <1>17, <1>0 DEF WriteRejected, Writing, Settle, Record, Leave, Goto,
      At, CurrentOp
<1>18. ASSUME NEW q \in Request, WriteCommit(q) PROVE OutdatedAborted'
  BY <1>18, <1>0 DEF WriteCommit, Receipt, Readers, Record, KeepBody,
      Goto, At, CurrentOp
<1>19. ASSUME NEW q \in Request, WriteFails(q) PROVE OutdatedAborted'
  BY <1>19, <1>0 DEF WriteFails, Settle, Record, KeepBody, Leave, Goto,
      At, CurrentOp
<1>20. ASSUME NEW q \in Request, KeepResult(q) PROVE OutdatedAborted'
  BY <1>20, <1>0 DEF KeepResult, Settle, Done, Record, KeepBody, Goto, At,
      CurrentOp
<1>21. ASSUME NEW q \in Request, DropResult(q) PROVE OutdatedAborted'
  BY <1>21, <1>0 DEF DropResult, Settle, Done, Record, Leave, Goto, At,
      CurrentOp
<1>22. ASSUME NEW q \in Request, NextCall(q) PROVE OutdatedAborted'
  BY <1>22, <1>0 DEF NextCall, Goto, At
<1>23. ASSUME NEW q \in Request, LedgerFault(q) PROVE OutdatedAborted'
  BY <1>23, <1>0 DEF LedgerFault, Record, Leave, Goto, At, CurrentOp
<1>24. ASSUME NEW q \in Request, CloseSegment(q) PROVE OutdatedAborted'
  BY <1>24, <1>0 DEF CloseSegment, Interrupted, Goto, At
<1>25. ASSUME NEW q \in Request, Finish(q) PROVE OutdatedAborted'
  BY <1>25, <1>0 DEF Finish, Departs, Outcomes, Goto, At
<1>26. ASSUME NEW q \in Request, FinishGoverned(q) PROVE OutdatedAborted'
  BY <1>26, <1>0 DEF FinishGoverned, Departs, Goto, At
<1>27. ASSUME NEW q \in Request, FinishFault(q) PROVE OutdatedAborted'
  BY <1>27, <1>0 DEF FinishFault, Departs, Goto, At
<1>28. ASSUME NEW q \in Request, Cancel(q) PROVE OutdatedAborted'
  BY <1>28, <1>0 DEF Cancel
<1>29. ASSUME NEW q \in Request, Withdraw(q) PROVE OutdatedAborted'
  BY <1>29, <1>0 DEF Withdraw
<1>30. ASSUME Govern PROVE OutdatedAborted'
  BY <1>30, <1>0 DEF Govern, Commit, Hook, BlankText, Governing
<1>31. ASSUME PolicyMove PROVE OutdatedAborted'
  BY <1>31, <1>0 DEF PolicyMove, Governing, Commit
<1>32. ASSUME PolicyReport PROVE OutdatedAborted'
  BY <1>32, <1>0 DEF PolicyReport, Governing, Hook, BlankText
<1>33. ASSUME PolicyFault PROVE OutdatedAborted'
  BY <1>33, <1>0 DEF PolicyFault, Governing
<1>34. ASSUME Exit PROVE OutdatedAborted'
  BY <1>34, <1>0 DEF Exit, Halt
<1>35. ASSUME Crash PROVE OutdatedAborted'
  BY <1>35, <1>0 DEF Crash, Halt
<1>36. ASSUME RecoverTimeline PROVE OutdatedAborted'
  BY <1>36, <1>0 DEF RecoverTimeline
<1>37. ASSUME RecoverLedger PROVE OutdatedAborted'
  BY <1>37, <1>0 DEF RecoverLedger, Recovered, Interrupted
<1>38. ASSUME RecoverMemory PROVE OutdatedAborted'
  BY <1>38, <1>0 DEF RecoverMemory, Unapplied
<1>39. CASE UNCHANGED vars
  BY <1>39, <1>0 DEF vars
<1> QED
  BY <1>1, <1>2, <1>3, <1>4, <1>5, <1>6, <1>7, <1>8, <1>9, <1>10, <1>11,
      <1>12, <1>13, <1>14, <1>15, <1>16, <1>17, <1>18, <1>19, <1>20,
      <1>21, <1>22, <1>23, <1>24, <1>25, <1>26, <1>27, <1>28, <1>29,
      <1>30, <1>31, <1>32, <1>33, <1>34, <1>35, <1>36, <1>37, <1>38, <1>39
      DEF Next, RoundStep, SectionStep, CallStep, AnswerStep,
      GovernanceStep, BootStep

(* A round whose memory was changed under it is aborted or gone for good.  *)
THEOREM OutdatedHolds == Spec => []OutdatedAborted
<1>1. Init => OutdatedAborted
  BY DEF Init, OutdatedAborted
<1>2. ASSUME TypeOK, OutdatedAborted, [Next]_vars PROVE OutdatedAborted'
  BY <1>2, OutdatedKept
<1> QED
  BY <1>1, <1>2, RoundTypeCorrect, PTL DEF Spec

(* A round that may have read memory another round has changed since is    *)
(* out: it neither sends nor writes what it had read (changed()).          *)
THEOREM OutdatedDoesNothing == Spec => OutdatedIsOut
<1>1. ASSUME RoundInv, OutdatedAborted, [Next]_vars
      PROVE  [\A q \in outdated : ~Progress(q)]_vars
  <2> SUFFICES ASSUME NEW q \in outdated, Progress(q) PROVE FALSE
    OBVIOUS
  <2>1. q \in Request /\ TypeOK /\ LedgerInv
    BY <1>1 DEF RoundInv, TypeOK, SetTypes
  <2>2. Check(q)
    BY <1>1, <2>1, ProgressIsCurrent
  <2>3. pc[q] = "gone"
    BY <1>1, <2>2 DEF OutdatedAborted, Check
  <2>4. Send(q) \/ WriteCommit(q) \/ WriteFails(q) \/ KeepResult(q)
    BY <1>1, <2>1, ProgressIsOwn
  <2> QED
    BY <2>3, <2>4 DEF Send, WriteCommit, WriteFails, KeepResult, At
<1> QED
  BY <1>1, RoundInductive, OutdatedHolds, PTL DEF Spec, OutdatedIsOut, OutdatedIsOutStep

-----------------------------------------------------------------------------
(***************************************************************************)
(* The ledger keeps the promise of ToolPromise.                            *)
(***************************************************************************)
(* No step takes an operation back: it opens once, is settled once, and    *)
(* only an unknown one is settled again.                                   *)
Revised ==
  \A q \in Request, c \in Call :
    Promise!Settled(Told(ops[q][c].state), Told(ops'[q][c].state))

(* Every step of a round, and every recovery, revises the ledger so.       *)
LEMMA OpsRevised ==
  ASSUME TypeOK, LedgerInv, [Next]_vars PROVE Revised
<1>0. /\ ops \in Ops /\ commands \in [Request -> Command]
      /\ pc \in [Request -> Place] /\ call \in [Request -> 0..MaxCalls]
      /\ effects \in [Request -> [Call -> Nat]]
  BY DEF TypeOK, LedgerTypes, RoundTypes, Ops
<1> USE RoundAssumption DEF LedgerInv, Ops, timeline, ledger, world, round,
      signals, volatile, history, Call, Revised, Promise!Settled, Told, Open,
      Refusals, OpState, Operation, CurrentOp, At, PlaceAgrees
<1>1. ASSUME NEW q \in Request, Start(q) PROVE Revised
  BY <1>1, <1>0 DEF Start, Goto
<1>2. ASSUME NEW q \in Request, OpenSegment(q) PROVE Revised
  BY <1>2, <1>0 DEF OpenSegment, Goto, At
<1>3. ASSUME NEW q \in Request, Send(q) PROVE Revised
  BY <1>3, <1>0 DEF Send, Goto, At, Check
<1>4. ASSUME NEW q \in Request, GiveUp(q) PROVE Revised
  BY <1>4, <1>0 DEF GiveUp, Leave, Goto
<1>5. ASSUME NEW q \in Request, Delta(q) PROVE Revised
  BY <1>5, <1>0 DEF Delta
<1>6. ASSUME NEW q \in Request, ToolTimeout(q) PROVE Revised
  BY <1>6, <1>0 DEF ToolTimeout
<1>7. ASSUME NEW q \in Request, AnswerFails(q) PROVE Revised
  BY <1>7, <1>0 DEF AnswerFails, Leave, Goto, Resume
<1>8. ASSUME NEW q \in Request, AnswerCompletes(q) PROVE Revised
  BY <1>8, <1>0 DEF AnswerCompletes, Leave, Goto, Resume
<1>9. ASSUME NEW q \in Request, AnswerCalls(q) PROVE Revised
  BY <1>9, <1>0 DEF AnswerCalls, Goto, Resume
<1>10. ASSUME NEW q \in Request, Prepare(q) PROVE Revised
  BY <1>10, <1>0 DEF Prepare, Goto, At
<1>11. ASSUME NEW q \in Request, Refuse(q) PROVE Revised
  BY <1>11, <1>0 DEF Refuse, Settle, Record, Leave, Goto, At, CurrentOp,
      Refusal
<1>12. ASSUME NEW q \in Request, Dispatch(q) PROVE Revised
  BY <1>12, <1>0 DEF Dispatch, Settle, Record, Goto, At, CurrentOp
<1>13. ASSUME NEW q \in Request, Withhold(q) PROVE Revised
  BY <1>13, <1>0 DEF Withhold, Settle, Record, Leave, Goto, At, CurrentOp
<1>14. ASSUME NEW q \in Request, ReadLocal(q) PROVE Revised
  <2>1. CASE Settle(q, "DISPATCHING") /\ Goto(q, "returned")
    BY <1>14, <2>1, <1>0 DEF ReadLocal, Settle, Record, Goto
  <2>2. CASE Settle(q, "RESULT_UNKNOWN") /\ Leave(q, "error")
    BY <1>14, <2>2, <1>0 DEF ReadLocal, Settle, Record, Leave, Goto
  <2> QED
    BY <1>14, <2>1, <2>2 DEF ReadLocal
<1>15. ASSUME NEW q \in Request, WriteIntent(q) PROVE Revised
  BY <1>15, <1>0 DEF WriteIntent, Writing, Goto, At, CurrentOp
<1>16. ASSUME NEW q \in Request, WriteRepeated(q) PROVE Revised
  BY <1>16, <1>0 DEF WriteRepeated, Writing, Goto, At, CurrentOp
<1>17. ASSUME NEW q \in Request, WriteRejected(q) PROVE Revised
  BY <1>17, <1>0 DEF WriteRejected, Writing, Settle, Record, Leave, Goto,
      At, CurrentOp
<1>18. ASSUME NEW q \in Request, WriteCommit(q) PROVE Revised
  BY <1>18, <1>0 DEF WriteCommit, Receipt, Readers, Record, KeepBody,
      Goto, At, CurrentOp
<1>19. ASSUME NEW q \in Request, WriteFails(q) PROVE Revised
  BY <1>19, <1>0 DEF WriteFails, Settle, Record, KeepBody, Leave, Goto,
      At, CurrentOp
<1>20. ASSUME NEW q \in Request, KeepResult(q) PROVE Revised
  <2>1. call[q] \in Call /\ ops[q] \in [Call -> Operation]
    BY <1>20, <1>0 DEF KeepResult
  <2>2. ops' = [ops EXCEPT ![q][call[q]].state = Done(q)]
    BY <1>20 DEF KeepResult, Settle, Record
  <2>3. CASE ops[q][call[q]].state = "DISPATCHING"
    BY <2>1, <2>2, <2>3, <1>0 DEF Done
  <2>4. CASE ops[q][call[q]].state # "DISPATCHING"
    <3>1. ops' = [ops EXCEPT ![q][call[q]].state = ops[q][call[q]].state]
      BY <2>2, <2>4 DEF Done
    <3>2. \A r \in Request, c \in Call : ops'[r][c].state = ops[r][c].state
      BY <2>1, <3>1, <1>0
    <3> QED
      BY <3>2
  <2> QED
    BY <2>3, <2>4
<1>21. ASSUME NEW q \in Request, DropResult(q) PROVE Revised
  <2>1. call[q] \in Call /\ ops[q] \in [Call -> Operation]
    BY <1>21, <1>0 DEF DropResult
  <2>2. ops' = [ops EXCEPT ![q][call[q]].state = Done(q)]
    BY <1>21 DEF DropResult, Settle, Record
  <2>3. CASE ops[q][call[q]].state = "DISPATCHING"
    BY <2>1, <2>2, <2>3, <1>0 DEF Done
  <2>4. CASE ops[q][call[q]].state # "DISPATCHING"
    <3>1. ops' = [ops EXCEPT ![q][call[q]].state = ops[q][call[q]].state]
      BY <2>2, <2>4 DEF Done
    <3>2. \A r \in Request, c \in Call : ops'[r][c].state = ops[r][c].state
      BY <2>1, <3>1, <1>0
    <3> QED
      BY <3>2
  <2> QED
    BY <2>3, <2>4
<1>22. ASSUME NEW q \in Request, NextCall(q) PROVE Revised
  BY <1>22, <1>0 DEF NextCall, Goto, At
<1>23. ASSUME NEW q \in Request, LedgerFault(q) PROVE Revised
  <2>1. CASE UNCHANGED ops
    BY <1>23, <2>1, <1>0 DEF LedgerFault, Leave, Goto
  <2>2. CASE At(q, "writing") /\ Record(q, "RESULT_UNKNOWN")
    BY <1>23, <2>2, <1>0 DEF LedgerFault, Record, Leave, Goto
  <2> QED
    BY <1>23, <2>1, <2>2 DEF LedgerFault
<1>24. ASSUME NEW q \in Request, CloseSegment(q) PROVE Revised
  BY <1>24, <1>0 DEF CloseSegment, Interrupted, Goto, At
<1>25. ASSUME NEW q \in Request, Finish(q) PROVE Revised
  BY <1>25, <1>0 DEF Finish, Departs, Outcomes, Goto, At
<1>26. ASSUME NEW q \in Request, FinishGoverned(q) PROVE Revised
  BY <1>26, <1>0 DEF FinishGoverned, Departs, Goto, At
<1>27. ASSUME NEW q \in Request, FinishFault(q) PROVE Revised
  BY <1>27, <1>0 DEF FinishFault, Departs, Goto, At
<1>28. ASSUME NEW q \in Request, Cancel(q) PROVE Revised
  BY <1>28, <1>0 DEF Cancel
<1>29. ASSUME NEW q \in Request, Withdraw(q) PROVE Revised
  BY <1>29, <1>0 DEF Withdraw
<1>30. ASSUME Govern PROVE Revised
  BY <1>30, <1>0 DEF Govern, Commit, Hook, BlankText, Governing
<1>31. ASSUME PolicyMove PROVE Revised
  BY <1>31, <1>0 DEF PolicyMove, Governing, Commit
<1>32. ASSUME PolicyReport PROVE Revised
  BY <1>32, <1>0 DEF PolicyReport, Governing, Hook, BlankText
<1>33. ASSUME PolicyFault PROVE Revised
  BY <1>33, <1>0 DEF PolicyFault, Governing
<1>34. ASSUME Exit PROVE Revised
  BY <1>34, <1>0 DEF Exit, Halt
<1>35. ASSUME Crash PROVE Revised
  BY <1>35, <1>0 DEF Crash, Halt
<1>36. ASSUME RecoverTimeline PROVE Revised
  BY <1>36, <1>0 DEF RecoverTimeline
<1>37. ASSUME RecoverLedger PROVE Revised
  <2> SUFFICES ASSUME NEW r \in Request, NEW c \in Call
               PROVE  Promise!Settled(Told(ops[r][c].state), Told(ops'[r][c].state))
    OBVIOUS
  <2>1. ops[r][c] \in Operation
    BY <1>0
  <2>2. ops'[r][c].state = Recovered(ops[r][c].state)
    BY <2>1, <1>37 DEF RecoverLedger
  <2> QED
    BY <2>1, <2>2 DEF Recovered
<1>38. ASSUME RecoverMemory PROVE Revised
  BY <1>38, <1>0 DEF RecoverMemory, Unapplied
<1>39. CASE UNCHANGED vars
  BY <1>39, <1>0 DEF vars
<1> QED
  BY <1>1, <1>2, <1>3, <1>4, <1>5, <1>6, <1>7, <1>8, <1>9, <1>10, <1>11,
      <1>12, <1>13, <1>14, <1>15, <1>16, <1>17, <1>18, <1>19, <1>20,
      <1>21, <1>22, <1>23, <1>24, <1>25, <1>26, <1>27, <1>28, <1>29,
      <1>30, <1>31, <1>32, <1>33, <1>34, <1>35, <1>36, <1>37, <1>38, <1>39
      DEF Next, RoundStep, SectionStep, CallStep, AnswerStep,
      GovernanceStep, BootStep

(* A commit of apply() is the step that applies its operation.             *)
LEMMA CommitApplies ==
  ASSUME TypeOK, LedgerInv, NEW q \in Request, WriteCommit(q)
  PROVE  Promise!Apply(q, call[q])
<1> DEFINE outcome == [r \in Request |-> [c \in Call |-> Told(ops[r][c].state)]]
<1>1. /\ ops \in Ops /\ effects \in [Request -> [Call -> Nat]]
      /\ call[q] \in Call /\ ops[q][call[q]].state = "DISPATCHING"
  BY DEF TypeOK, LedgerTypes, Ops, LedgerInv, PlaceAgrees, At, CurrentOp,
         WriteCommit
<1>2. \A c \in Call : effects[q][c] = 0
  BY DEF LedgerInv, PlaceAgrees, CommandAgrees, At, WriteCommit
<1>3. effects' = [effects EXCEPT ![q][call[q]] = 1]
  <2>1. effects' = [effects EXCEPT ![q][call[q]] = effects[q][call[q]] + 1]
    BY DEF WriteCommit
  <2>2. effects[q][call[q]] + 1 = 1
    BY <1>1, <1>2
  <2> QED
    BY <2>1, <2>2
<1>4. outcome[q][call[q]] = "open"
  <2>1. Told("DISPATCHING") = "open"
    BY DEF Told, Open, Refusals
  <2> QED
    BY <1>1, <2>1
<1>5. \A r \in Request, c \in Call :
        ops'[r][c].state = IF r = q /\ c = call[q] THEN "SUCCEEDED"
                           ELSE ops[r][c].state
  BY <1>1 DEF WriteCommit, Record, Receipt, Ops, Operation
<1>6. outcome' = [outcome EXCEPT ![q][call[q]] = "done"]
  <2>1. Told("SUCCEEDED") = "done"
    BY DEF Told, Open, Refusals
  <2>2. \A r \in Request, c \in Call :
          Told(ops'[r][c].state) =
            IF r = q /\ c = call[q] THEN "done" ELSE Told(ops[r][c].state)
    BY <1>5, <2>1
  <2>3. outcome' = [r \in Request |-> [c \in Call |->
                      IF r = q /\ c = call[q] THEN "done"
                      ELSE Told(ops[r][c].state)]]
    BY <2>2
  <2> HIDE DEF Told
  <2> QED
    BY <1>1, <2>3
<1> QED
  BY <1>2, <1>3, <1>4, <1>6 DEF Promise!Apply, Promise!EffectFree

(* A round keeps the promise of ToolPromise: each operation is settled     *)
(* once, its effect comes in the step that reports it done, and only an    *)
(* unknown one is ever settled again.                                      *)
THEOREM RoundKeepsPromise == Spec => KeepsPromise
<1>1. Init => Promise!Init
  BY DEF Init, Promise!Init, NoOp, Told, Open, Refusals
<1>2. ASSUME RoundInv, [Next]_vars PROVE [Promise!Next]_Promise!promise
  <2>1. TypeOK /\ LedgerInv
    BY <1>2 DEF RoundInv
  <2>2. CASE \E q \in Request : WriteCommit(q)
    <3>1. PICK q \in Request : WriteCommit(q)
      BY <2>2
    <3>2. call[q] \in Call /\ Promise!Apply(q, call[q])
      BY <2>1, <3>1, CommitApplies DEF LedgerInv, PlaceAgrees, WriteCommit, At
    <3> QED
      BY <3>2 DEF Promise!Next
  <2>3. CASE ~\E q \in Request : WriteCommit(q)
    <3>1. effects' = effects
      BY <1>2, <2>3, EffectsStay
    <3>2. Revised
      BY <1>2, <2>1, OpsRevised
    <3>3. \A q \in Request, c \in Call :
            Told(ops'[q][c].state) \in Promise!Outcome
      <4>1. ops' \in Ops
        BY <1>2, <2>1, OpsKept
      <4> QED
        BY <4>1 DEF Ops, Operation, OpState, Told, Open, Refusals,
                    Promise!Outcome
    <3> HIDE DEF Told
    <3> QED
      BY <3>1, <3>2, <3>3 DEF Revised, Promise!Report, Promise!Next
  <2> QED
    BY <2>2, <2>3
<1> QED
  BY <1>1, <1>2, RoundInductive, PTL DEF Spec, KeepsPromise, Promise!Spec
------------------------------------------------------------------------------
(***************************************************************************)
(* Proofs about how rounds of ChatRound end: no answer stays pending       *)
(* without a reason, and no operation or segment stays open without a      *)
(* round that will settle it.                                              *)
(***************************************************************************)
(* Generations only grow, so one that has passed never comes back; while   *)
(* the program runs or recovers, a pending answer has one of the reasons.  *)
Answered ==
  /\ \A q \in Request : seen[q] <= generation
  /\ phase # "down" => \A q \in Request : rows[q] = "pending" =>
       q \in inflight \/ seen[q] < generation \/ <<q, "row">> \in lost

(* Every step keeps the reason of a pending answer.                        *)
LEMMA AnsweredKept ==
  ASSUME TypeOK, Answered, [Next]_vars PROVE Answered'
<1>0. /\ generation \in Nat /\ seen \in [Request -> Nat]
      /\ rows \in [Request -> {"NONE", "pending"} \cup Final]
      /\ verdict \in [Request -> {"error"} \cup Final]
  BY RoundAssumption DEF TypeOK, WorldTypes, RoundTypes
<1> USE DEF timeline, ledger, world, round, signals,
        volatile, history, Answered, Final, Finishes
<1>1. ASSUME NEW q \in Request, Start(q) PROVE Answered'
  BY <1>1, <1>0 DEF Start, Goto
<1>2. ASSUME NEW q \in Request, OpenSegment(q) PROVE Answered'
  BY <1>2, <1>0 DEF OpenSegment, Goto, At
<1>3. ASSUME NEW q \in Request, Send(q) PROVE Answered'
  BY <1>3, <1>0 DEF Send, Goto, At, Check
<1>4. ASSUME NEW q \in Request, GiveUp(q) PROVE Answered'
  BY <1>4, <1>0 DEF GiveUp, Leave, Goto
<1>5. ASSUME NEW q \in Request, Delta(q) PROVE Answered'
  BY <1>5, <1>0 DEF Delta
<1>6. ASSUME NEW q \in Request, ToolTimeout(q) PROVE Answered'
  BY <1>6, <1>0 DEF ToolTimeout
<1>7. ASSUME NEW q \in Request, AnswerFails(q) PROVE Answered'
  BY <1>7, <1>0 DEF AnswerFails, Leave, Goto, Resume
<1>8. ASSUME NEW q \in Request, AnswerCompletes(q) PROVE Answered'
  BY <1>8, <1>0 DEF AnswerCompletes, Leave, Goto, Resume
<1>9. ASSUME NEW q \in Request, AnswerCalls(q) PROVE Answered'
  BY <1>9, <1>0 DEF AnswerCalls, Goto, Resume
<1>10. ASSUME NEW q \in Request, Prepare(q) PROVE Answered'
  BY <1>10, <1>0 DEF Prepare, Goto, At
<1>11. ASSUME NEW q \in Request, Refuse(q) PROVE Answered'
  BY <1>11, <1>0 DEF Refuse, Settle, Record, Leave, Goto, At, CurrentOp,
      Refusal
<1>12. ASSUME NEW q \in Request, Dispatch(q) PROVE Answered'
  BY <1>12, <1>0 DEF Dispatch, Settle, Record, Goto, At, CurrentOp
<1>13. ASSUME NEW q \in Request, Withhold(q) PROVE Answered'
  BY <1>13, <1>0 DEF Withhold, Settle, Record, Leave, Goto, At, CurrentOp
<1>14. ASSUME NEW q \in Request, ReadLocal(q) PROVE Answered'
  BY <1>14, <1>0 DEF ReadLocal, Settle, Record, Leave, Goto, At, CurrentOp
<1>15. ASSUME NEW q \in Request, WriteIntent(q) PROVE Answered'
  BY <1>15, <1>0 DEF WriteIntent, Writing, Goto, At, CurrentOp
<1>16. ASSUME NEW q \in Request, WriteRepeated(q) PROVE Answered'
  BY <1>16, <1>0 DEF WriteRepeated, Writing, Goto, At, CurrentOp
<1>17. ASSUME NEW q \in Request, WriteRejected(q) PROVE Answered'
  BY <1>17, <1>0 DEF WriteRejected, Writing, Settle, Record, Leave, Goto,
      At, CurrentOp
<1>18. ASSUME NEW q \in Request, WriteCommit(q) PROVE Answered'
  BY <1>18, <1>0 DEF WriteCommit, Receipt, Readers, Record, KeepBody,
      Goto, At, CurrentOp
<1>19. ASSUME NEW q \in Request, WriteFails(q) PROVE Answered'
  BY <1>19, <1>0 DEF WriteFails, Settle, Record, KeepBody, Leave, Goto,
      At, CurrentOp
<1>20. ASSUME NEW q \in Request, KeepResult(q) PROVE Answered'
  BY <1>20, <1>0 DEF KeepResult, Settle, Done, Record, KeepBody, Goto, At,
      CurrentOp
<1>21. ASSUME NEW q \in Request, DropResult(q) PROVE Answered'
  BY <1>21, <1>0 DEF DropResult, Settle, Done, Record, Leave, Goto, At,
      CurrentOp
<1>22. ASSUME NEW q \in Request, NextCall(q) PROVE Answered'
  BY <1>22, <1>0 DEF NextCall, Goto, At
<1>23. ASSUME NEW q \in Request, LedgerFault(q) PROVE Answered'
  BY <1>23, <1>0 DEF LedgerFault, Record, Leave, Goto, At, CurrentOp
<1>24. ASSUME NEW q \in Request, CloseSegment(q) PROVE Answered'
  BY <1>24, <1>0 DEF CloseSegment, Interrupted, Goto, At
<1>25. ASSUME NEW q \in Request, Finish(q) PROVE Answered'
  BY <1>25, <1>0 DEF Finish, Departs, Outcomes, Goto, At
<1>26. ASSUME NEW q \in Request, FinishGoverned(q) PROVE Answered'
  BY <1>26, <1>0 DEF FinishGoverned, Departs, Goto, At
<1>27. ASSUME NEW q \in Request, FinishFault(q) PROVE Answered'
  BY <1>27, <1>0 DEF FinishFault, Departs, Goto, At
<1>28. ASSUME NEW q \in Request, Cancel(q) PROVE Answered'
  BY <1>28, <1>0 DEF Cancel
<1>29. ASSUME NEW q \in Request, Withdraw(q) PROVE Answered'
  BY <1>29, <1>0 DEF Withdraw
<1>30. ASSUME Govern PROVE Answered'
  BY <1>30, <1>0 DEF Govern, Commit, Hook, BlankText, Governing
<1>31. ASSUME PolicyMove PROVE Answered'
  BY <1>31, <1>0 DEF PolicyMove, Governing, Commit
<1>32. ASSUME PolicyReport PROVE Answered'
  BY <1>32, <1>0 DEF PolicyReport, Governing, Hook, BlankText
<1>33. ASSUME PolicyFault PROVE Answered'
  BY <1>33, <1>0 DEF PolicyFault, Governing
<1>34. ASSUME Exit PROVE Answered'
  BY <1>34, <1>0 DEF Exit, Halt
<1>35. ASSUME Crash PROVE Answered'
  BY <1>35, <1>0 DEF Crash, Halt
<1>36. ASSUME RecoverTimeline PROVE Answered'
  BY <1>36, <1>0 DEF RecoverTimeline
<1>37. ASSUME RecoverLedger PROVE Answered'
  BY <1>37, <1>0 DEF RecoverLedger, Recovered, Interrupted
<1>38. ASSUME RecoverMemory PROVE Answered'
  BY <1>38, <1>0 DEF RecoverMemory, Unapplied
<1>39. CASE UNCHANGED vars
  BY <1>39, <1>0 DEF vars
<1> QED
  BY <1>1, <1>2, <1>3, <1>4, <1>5, <1>6, <1>7, <1>8, <1>9, <1>10, <1>11,
      <1>12, <1>13, <1>14, <1>15, <1>16, <1>17, <1>18, <1>19, <1>20,
      <1>21, <1>22, <1>23, <1>24, <1>25, <1>26, <1>27, <1>28, <1>29,
      <1>30, <1>31, <1>32, <1>33, <1>34, <1>35, <1>36, <1>37, <1>38, <1>39
      DEF Next, RoundStep, SectionStep, CallStep, AnswerStep,
      GovernanceStep, BootStep

(* While the program runs, an answer is pending only because its round is  *)
(* in flight, its generation is over, or its last write failed (finish()). *)
THEOREM PendingAlwaysHasReason == Spec => []PendingHasReason
<1>1. Init => Answered
  BY DEF Init, Answered
<1>2. ASSUME TypeOK, Answered, [Next]_vars PROVE Answered'
  BY <1>2, AnsweredKept
<1>3. TypeOK /\ Answered => PendingHasReason
  BY RoundAssumption DEF TypeOK, WorldTypes, Answered, PendingHasReason
<1> QED
  BY <1>1, <1>2, <1>3, RoundTypeCorrect, PTL DEF Spec

-----------------------------------------------------------------------------
(* The places in which a chain has an active segment, and those in which   *)
(* the current operation is open.                                          *)
Executing == {"prepared", "dispatching", "writing", "returned"}
Chain == {"ready", "waiting", "calls", "recorded", "closing"} \cup Executing

(* A round in flight stands somewhere; an active segment stands in its     *)
(* chain, an open operation is the current one, unless a write failed; and *)
(* recovery leaves none of them behind.                                    *)
Owned ==
  /\ \A q \in Request \ Tooled :
       pc[q] \notin Chain \ {"waiting"} /\ segments[q] = "NONE"
  /\ phase = "run" => \A q \in Request :
       /\ q \in inflight <=> pc[q] \notin {"idle", "gone"}
       /\ segments[q] = "active" => pc[q] \in Chain
       /\ \A c \in Call : ops[q][c].state \in Open =>
            <<q, "ledger">> \in lost \/ (c = call[q] /\ pc[q] \in Executing)
  /\ phase # "run" => inflight = {}
  /\ phase = "memory" => \A q \in Request :
       segments[q] # "active" /\ \A c \in Call : ops[q][c].state \notin Open

(* Every step leaves what is open to somebody.                             *)
LEMMA OwnedKept ==
  ASSUME TypeOK, LedgerInv, Owned, [Next]_vars PROVE Owned'
<1>0. /\ ops \in Ops /\ segments \in [Request ->
           {"NONE", "active", "closed", "interrupted"}]
      /\ pc \in [Request -> Place] /\ call \in [Request -> 0..MaxCalls]
      /\ inflight \subseteq Request
  BY DEF TypeOK, LedgerTypes, RoundTypes, SetTypes, Ops
<1> USE RoundAssumption DEF LedgerInv, timeline, ledger, world, round, signals,
        volatile, history, Owned, Chain, Executing, Place, Resting, Callback,
        Open, Refusals, Ops, Operation, CurrentOp, At, PlaceAgrees, BootRests,
        Call
<1>1. ASSUME NEW q \in Request, Start(q) PROVE Owned'
  BY <1>1, <1>0 DEF Start, Goto
<1>2. ASSUME NEW q \in Request, OpenSegment(q) PROVE Owned'
  <2>1. /\ pc' = [pc EXCEPT ![q] = "ready"] /\ pc[q] = "begun" /\ q \in Tooled
        /\ segments' = [segments EXCEPT ![q] = "active"]
        /\ UNCHANGED <<phase, inflight, lost, ops, call>>
    BY <1>2 DEF OpenSegment, Goto
  <2>7. phase = "run" /\ phase' = "run"
    BY <2>1, <1>0
  <2>8. \A r \in Request \ Tooled :
          pc'[r] \notin Chain \ {"waiting"} /\ segments'[r] = "NONE"
    BY <2>1, <1>0
  <2>9. ASSUME NEW r \in Request
        PROVE  /\ r \in inflight' <=> pc'[r] \notin {"idle", "gone"}
               /\ segments'[r] = "active" => pc'[r] \in Chain
               /\ \A c \in Call : ops'[r][c].state \in Open =>
                    \/ <<r, "ledger">> \in lost'
                    \/ c = call'[r] /\ pc'[r] \in Executing
    <3>1. CASE r = q
      <4>1. pc'[q] = "ready" /\ segments'[q] = "active"
        BY <2>1, <1>0
      <4>2. q \in inflight
        BY <2>7, <2>1
      <4>3. \A c \in Call : ops[q][c].state \in Open => <<q, "ledger">> \in lost
        BY <2>7, <2>1
      <4> QED
        BY <3>1, <4>1, <4>2, <4>3, <2>1
    <3>2. CASE r # q
      BY <3>2, <2>7, <2>1, <1>0
    <3> QED
      BY <3>1, <3>2
  <2> QED
    BY <2>7, <2>8, <2>9
<1>3. ASSUME NEW q \in Request, Send(q) PROVE Owned'
  BY <1>3, <1>0 DEF Send, Goto, At, Check
<1>4. ASSUME NEW q \in Request, GiveUp(q) PROVE Owned'
  BY <1>4, <1>0 DEF GiveUp, Leave, Goto
<1>5. ASSUME NEW q \in Request, Delta(q) PROVE Owned'
  BY <1>5, <1>0 DEF Delta
<1>6. ASSUME NEW q \in Request, ToolTimeout(q) PROVE Owned'
  BY <1>6, <1>0 DEF ToolTimeout
<1>7. ASSUME NEW q \in Request, AnswerFails(q) PROVE Owned'
  BY <1>7, <1>0 DEF AnswerFails, Leave, Goto, Resume
<1>8. ASSUME NEW q \in Request, AnswerCompletes(q) PROVE Owned'
  BY <1>8, <1>0 DEF AnswerCompletes, Leave, Goto, Resume
<1>9. ASSUME NEW q \in Request, AnswerCalls(q) PROVE Owned'
  BY <1>9, <1>0 DEF AnswerCalls, Goto, Resume
<1>10. ASSUME NEW q \in Request, Prepare(q) PROVE Owned'
  <2>1. PICK tool \in Tools : ops' = [ops EXCEPT ![q][call[q] + 1] =
                                        [state |-> "PREPARED", tool |-> tool]]
    BY <1>10 DEF Prepare
  <2>2. call' = [call EXCEPT ![q] = call[q] + 1] /\ call[q] + 1 \in Call
    BY <1>10, <1>0 DEF Prepare
  <2>3. \A r \in Request, c \in Call :
          (r # q \/ c # call[q] + 1) => ops'[r][c] = ops[r][c]
    BY <2>1, <2>2, <1>0
  <2>4. /\ pc' = [pc EXCEPT ![q] = "prepared"] /\ pc[q] = "calls"
        /\ UNCHANGED <<segments, phase, inflight, lost>>
    BY <1>10 DEF Prepare, Goto
  <2>7. phase = "run" /\ phase' = "run"
    BY <2>4, <1>0
  <2>8. \A r \in Request \ Tooled :
          pc'[r] \notin Chain \ {"waiting"} /\ segments'[r] = "NONE"
    BY <2>2, <2>3, <2>4, <1>0
  <2>9. ASSUME NEW r \in Request
        PROVE  /\ r \in inflight' <=> pc'[r] \notin {"idle", "gone"}
               /\ segments'[r] = "active" => pc'[r] \in Chain
               /\ \A c \in Call : ops'[r][c].state \in Open =>
                    \/ <<r, "ledger">> \in lost'
                    \/ c = call'[r] /\ pc'[r] \in Executing
    <3>1. CASE r = q
      <4>1. pc'[q] = "prepared" /\ call'[q] = call[q] + 1
        BY <2>2, <2>4, <1>0
      <4>2. q \in inflight
        BY <2>7, <2>4
      <4>3. \A c \in Call : ops[q][c].state \in Open => <<q, "ledger">> \in lost
        BY <2>7, <2>4
      <4>4. ASSUME NEW c \in Call, ops'[q][c].state \in Open
            PROVE  <<q, "ledger">> \in lost \/ c = call[q] + 1
        <5>1. CASE c = call[q] + 1
          BY <5>1
        <5>2. CASE c # call[q] + 1
          <6>1. ops'[q][c] = ops[q][c]
            BY <5>2, <2>3
          <6> QED
            BY <6>1, <4>3, <4>4
        <5> QED
          BY <5>1, <5>2
      <4> QED
        BY <3>1, <4>1, <4>2, <4>4, <2>4
    <3>2. CASE r # q
      BY <3>2, <2>7, <2>2, <2>3, <2>4, <1>0
    <3> QED
      BY <3>1, <3>2
  <2> QED
    BY <2>7, <2>8, <2>9
<1>11. ASSUME NEW q \in Request, Refuse(q) PROVE Owned'
  BY <1>11, <1>0 DEF Refuse, Settle, Record, Leave, Goto, At, CurrentOp,
      Refusal
<1>12. ASSUME NEW q \in Request, Dispatch(q) PROVE Owned'
  BY <1>12, <1>0 DEF Dispatch, Settle, Record, Goto, At, CurrentOp
<1>13. ASSUME NEW q \in Request, Withhold(q) PROVE Owned'
  BY <1>13, <1>0 DEF Withhold, Settle, Record, Leave, Goto, At, CurrentOp
<1>14. ASSUME NEW q \in Request, ReadLocal(q) PROVE Owned'
  <2>1. CASE Settle(q, "DISPATCHING") /\ Goto(q, "returned")
    BY <1>14, <2>1, <1>0 DEF ReadLocal, Settle, Record, Goto
  <2>2. CASE Settle(q, "RESULT_UNKNOWN") /\ Leave(q, "error")
    BY <1>14, <2>2, <1>0 DEF ReadLocal, Settle, Record, Leave, Goto
  <2> QED
    BY <1>14, <2>1, <2>2 DEF ReadLocal
<1>15. ASSUME NEW q \in Request, WriteIntent(q) PROVE Owned'
  BY <1>15, <1>0 DEF WriteIntent, Writing, Goto, At, CurrentOp
<1>16. ASSUME NEW q \in Request, WriteRepeated(q) PROVE Owned'
  BY <1>16, <1>0 DEF WriteRepeated, Writing, Goto, At, CurrentOp
<1>17. ASSUME NEW q \in Request, WriteRejected(q) PROVE Owned'
  BY <1>17, <1>0 DEF WriteRejected, Writing, Settle, Record, Leave, Goto,
      At, CurrentOp
<1>18. ASSUME NEW q \in Request, WriteCommit(q) PROVE Owned'
  BY <1>18, <1>0 DEF WriteCommit, Receipt, Readers, Record, KeepBody,
      Goto, At, CurrentOp
<1>19. ASSUME NEW q \in Request, WriteFails(q) PROVE Owned'
  <2>1. CASE Leave(q, "error")
    BY <1>19, <2>1, <1>0 DEF WriteFails, Settle, Record, Leave, Goto
  <2>2. CASE Goto(q, "returned")
    BY <1>19, <2>2, <1>0 DEF WriteFails, Settle, Record, Goto
  <2> QED
    BY <1>19, <2>1, <2>2 DEF WriteFails
<1>20. ASSUME NEW q \in Request, KeepResult(q) PROVE Owned'
  BY <1>20, <1>0 DEF KeepResult, Settle, Done, Record, KeepBody, Goto, At,
      CurrentOp
<1>21. ASSUME NEW q \in Request, DropResult(q) PROVE Owned'
  BY <1>21, <1>0 DEF DropResult, Settle, Done, Record, Leave, Goto, At,
      CurrentOp
<1>22. ASSUME NEW q \in Request, NextCall(q) PROVE Owned'
  BY <1>22, <1>0 DEF NextCall, Goto, At
<1>23. ASSUME NEW q \in Request, LedgerFault(q) PROVE Owned'
  BY <1>23, <1>0 DEF LedgerFault, Record, Leave, Goto, At, CurrentOp
<1>24. ASSUME NEW q \in Request, CloseSegment(q) PROVE Owned'
  <2>1. /\ pc' = [pc EXCEPT ![q] = "ended"] /\ pc[q] = "closing"
        /\ segments' = [segments EXCEPT ![q] = Interrupted(segments[q])]
        /\ UNCHANGED <<phase, inflight, lost, ops, call>>
    BY <1>24 DEF CloseSegment, Goto
  <2>2. Interrupted(segments[q]) # "active"
    BY DEF Interrupted
  <2>3. Interrupted(segments[q]) = "NONE" \/ q \in Tooled
    BY <2>1, <1>0
  <2> QED
    BY <2>1, <2>2, <2>3, <1>0
<1>25. ASSUME NEW q \in Request, Finish(q) PROVE Owned'
  BY <1>25, <1>0 DEF Finish, Departs, Outcomes, Goto, At
<1>26. ASSUME NEW q \in Request, FinishGoverned(q) PROVE Owned'
  BY <1>26, <1>0 DEF FinishGoverned, Departs, Goto, At
<1>27. ASSUME NEW q \in Request, FinishFault(q) PROVE Owned'
  BY <1>27, <1>0 DEF FinishFault, Departs, Goto, At
<1>28. ASSUME NEW q \in Request, Cancel(q) PROVE Owned'
  BY <1>28, <1>0 DEF Cancel
<1>29. ASSUME NEW q \in Request, Withdraw(q) PROVE Owned'
  BY <1>29, <1>0 DEF Withdraw
<1>30. ASSUME Govern PROVE Owned'
  BY <1>30, <1>0 DEF Govern, Commit, Hook, BlankText, Governing
<1>31. ASSUME PolicyMove PROVE Owned'
  BY <1>31, <1>0 DEF PolicyMove, Governing, Commit
<1>32. ASSUME PolicyReport PROVE Owned'
  BY <1>32, <1>0 DEF PolicyReport, Governing, Hook, BlankText
<1>33. ASSUME PolicyFault PROVE Owned'
  BY <1>33, <1>0 DEF PolicyFault, Governing
<1>34. ASSUME Exit PROVE Owned'
  BY <1>34, <1>0 DEF Exit, Halt
<1>35. ASSUME Crash PROVE Owned'
  BY <1>35, <1>0 DEF Crash, Halt
<1>36. ASSUME RecoverTimeline PROVE Owned'
  BY <1>36, <1>0 DEF RecoverTimeline
<1>37. ASSUME RecoverLedger PROVE Owned'
  BY <1>37, <1>0 DEF RecoverLedger, Recovered, Interrupted
<1>38. ASSUME RecoverMemory PROVE Owned'
  BY <1>38, <1>0 DEF RecoverMemory, Unapplied
<1>39. CASE UNCHANGED vars
  BY <1>39, <1>0 DEF vars
<1> QED
  BY <1>1, <1>2, <1>3, <1>4, <1>5, <1>6, <1>7, <1>8, <1>9, <1>10, <1>11,
      <1>12, <1>13, <1>14, <1>15, <1>16, <1>17, <1>18, <1>19, <1>20,
      <1>21, <1>22, <1>23, <1>24, <1>25, <1>26, <1>27, <1>28, <1>29,
      <1>30, <1>31, <1>32, <1>33, <1>34, <1>35, <1>36, <1>37, <1>38, <1>39
      DEF Next, RoundStep, SectionStep, CallStep, AnswerStep,
      GovernanceStep, BootStep

(* While the program runs, an open operation or an active segment belongs  *)
(* to a round in flight, unless the ledger could not be written.           *)
THEOREM OpenAlwaysHasOwner == Spec => []OpenHasOwner
<1>1. Init => Owned
  BY DEF Init, Owned, NoOp, Open, Chain, Executing
<1>2. ASSUME RoundInv, Owned, [Next]_vars PROVE Owned'
  BY <1>2, OwnedKept DEF RoundInv
<1>3. Owned => OpenHasOwner
  BY DEF Owned, OpenHasOwner, Chain, Executing
<1> QED
  BY <1>1, <1>2, <1>3, RoundInductive, PTL DEF Spec
------------------------------------------------------------------------------
(***************************************************************************)
(* Proofs about what the answer of a round of ChatRound holds: an answer   *)
(* that counts as completed is whole, and no text of a generation that is  *)
(* over reaches the timeline.                                              *)
(***************************************************************************)
(* Text a round would still write belongs to the current generation, or a  *)
(* policy batch has yet to tell the round that it does not.                *)
TextIsCurrent ==
  \A q \in partial \cap inflight : seen[q] = generation \/ q \in unwarned

(* Every commit of a generation blanks the text, or notes the rounds that  *)
(* are still to be told.                                                   *)
LEMMA TextKept ==
  ASSUME TypeOK, TextIsCurrent, [Next]_vars PROVE TextIsCurrent'
<1>0. /\ generation \in Nat /\ seen \in [Request -> Nat]
      /\ partial \subseteq Request /\ inflight \subseteq Request
  BY RoundAssumption DEF TypeOK, WorldTypes, SetTypes
<1> USE DEF timeline, ledger, world, round, signals, volatile, history,
        TextIsCurrent
<1>1. ASSUME NEW q \in Request, Start(q) PROVE TextIsCurrent'
  BY <1>1, <1>0 DEF Start, Goto
<1>2. ASSUME NEW q \in Request, OpenSegment(q) PROVE TextIsCurrent'
  BY <1>2, <1>0 DEF OpenSegment, Goto, At
<1>3. ASSUME NEW q \in Request, Send(q) PROVE TextIsCurrent'
  BY <1>3, <1>0 DEF Send, Goto, At, Check
<1>4. ASSUME NEW q \in Request, GiveUp(q) PROVE TextIsCurrent'
  BY <1>4, <1>0 DEF GiveUp, Leave, Goto
<1>5. ASSUME NEW q \in Request, Delta(q) PROVE TextIsCurrent'
  BY <1>5, <1>0 DEF Delta
<1>6. ASSUME NEW q \in Request, ToolTimeout(q) PROVE TextIsCurrent'
  BY <1>6, <1>0 DEF ToolTimeout
<1>7. ASSUME NEW q \in Request, AnswerFails(q) PROVE TextIsCurrent'
  BY <1>7, <1>0 DEF AnswerFails, Leave, Goto, Resume
<1>8. ASSUME NEW q \in Request, AnswerCompletes(q) PROVE TextIsCurrent'
  BY <1>8, <1>0 DEF AnswerCompletes, Leave, Goto, Resume
<1>9. ASSUME NEW q \in Request, AnswerCalls(q) PROVE TextIsCurrent'
  BY <1>9, <1>0 DEF AnswerCalls, Goto, Resume
<1>10. ASSUME NEW q \in Request, Prepare(q) PROVE TextIsCurrent'
  BY <1>10, <1>0 DEF Prepare, Goto, At
<1>11. ASSUME NEW q \in Request, Refuse(q) PROVE TextIsCurrent'
  BY <1>11, <1>0 DEF Refuse, Settle, Record, Leave, Goto, At, CurrentOp,
      Refusal
<1>12. ASSUME NEW q \in Request, Dispatch(q) PROVE TextIsCurrent'
  BY <1>12, <1>0 DEF Dispatch, Settle, Record, Goto, At, CurrentOp
<1>13. ASSUME NEW q \in Request, Withhold(q) PROVE TextIsCurrent'
  BY <1>13, <1>0 DEF Withhold, Settle, Record, Leave, Goto, At, CurrentOp
<1>14. ASSUME NEW q \in Request, ReadLocal(q) PROVE TextIsCurrent'
  BY <1>14, <1>0 DEF ReadLocal, Settle, Record, Leave, Goto, At, CurrentOp
<1>15. ASSUME NEW q \in Request, WriteIntent(q) PROVE TextIsCurrent'
  BY <1>15, <1>0 DEF WriteIntent, Writing, Goto, At, CurrentOp
<1>16. ASSUME NEW q \in Request, WriteRepeated(q) PROVE TextIsCurrent'
  BY <1>16, <1>0 DEF WriteRepeated, Writing, Goto, At, CurrentOp
<1>17. ASSUME NEW q \in Request, WriteRejected(q) PROVE TextIsCurrent'
  BY <1>17, <1>0 DEF WriteRejected, Writing, Settle, Record, Leave, Goto, At,
      CurrentOp
<1>18. ASSUME NEW q \in Request, WriteCommit(q) PROVE TextIsCurrent'
  BY <1>18, <1>0 DEF WriteCommit, Receipt, Readers, Record, KeepBody, Goto,
      At, CurrentOp
<1>19. ASSUME NEW q \in Request, WriteFails(q) PROVE TextIsCurrent'
  BY <1>19, <1>0 DEF WriteFails, Settle, Record, KeepBody, Leave, Goto, At,
      CurrentOp
<1>20. ASSUME NEW q \in Request, KeepResult(q) PROVE TextIsCurrent'
  BY <1>20, <1>0 DEF KeepResult, Settle, Done, Record, KeepBody, Goto, At,
      CurrentOp
<1>21. ASSUME NEW q \in Request, DropResult(q) PROVE TextIsCurrent'
  BY <1>21, <1>0 DEF DropResult, Settle, Done, Record, Leave, Goto, At,
      CurrentOp
<1>22. ASSUME NEW q \in Request, NextCall(q) PROVE TextIsCurrent'
  BY <1>22, <1>0 DEF NextCall, Goto, At
<1>23. ASSUME NEW q \in Request, LedgerFault(q) PROVE TextIsCurrent'
  BY <1>23, <1>0 DEF LedgerFault, Record, Leave, Goto, At, CurrentOp
<1>24. ASSUME NEW q \in Request, CloseSegment(q) PROVE TextIsCurrent'
  BY <1>24, <1>0 DEF CloseSegment, Interrupted, Goto, At
<1>25. ASSUME NEW q \in Request, Finish(q) PROVE TextIsCurrent'
  BY <1>25, <1>0 DEF Finish, Departs, Outcomes, Goto, At
<1>26. ASSUME NEW q \in Request, FinishGoverned(q) PROVE TextIsCurrent'
  BY <1>26, <1>0 DEF FinishGoverned, Departs, Goto, At
<1>27. ASSUME NEW q \in Request, FinishFault(q) PROVE TextIsCurrent'
  BY <1>27, <1>0 DEF FinishFault, Departs, Goto, At
<1>28. ASSUME NEW q \in Request, Cancel(q) PROVE TextIsCurrent'
  BY <1>28, <1>0 DEF Cancel
<1>29. ASSUME NEW q \in Request, Withdraw(q) PROVE TextIsCurrent'
  BY <1>29, <1>0 DEF Withdraw
<1>30. ASSUME Govern PROVE TextIsCurrent'
  BY <1>30, <1>0 DEF Govern, Commit, Hook, BlankText, Governing
<1>31. ASSUME PolicyMove PROVE TextIsCurrent'
  BY <1>31, <1>0 DEF PolicyMove, Governing, Commit
<1>32. ASSUME PolicyReport PROVE TextIsCurrent'
  BY <1>32, <1>0 DEF PolicyReport, Governing, Hook, BlankText
<1>33. ASSUME PolicyFault PROVE TextIsCurrent'
  BY <1>33, <1>0 DEF PolicyFault, Governing
<1>34. ASSUME Exit PROVE TextIsCurrent'
  BY <1>34, <1>0 DEF Exit, Halt
<1>35. ASSUME Crash PROVE TextIsCurrent'
  BY <1>35, <1>0 DEF Crash, Halt
<1>36. ASSUME RecoverTimeline PROVE TextIsCurrent'
  BY <1>36, <1>0 DEF RecoverTimeline
<1>37. ASSUME RecoverLedger PROVE TextIsCurrent'
  BY <1>37, <1>0 DEF RecoverLedger, Recovered, Interrupted
<1>38. ASSUME RecoverMemory PROVE TextIsCurrent'
  BY <1>38, <1>0 DEF RecoverMemory, Unapplied
<1>39. CASE UNCHANGED vars
  BY <1>39, <1>0 DEF vars
<1> QED
  BY <1>1, <1>2, <1>3, <1>4, <1>5, <1>6, <1>7, <1>8, <1>9, <1>10,
      <1>11, <1>12, <1>13, <1>14, <1>15, <1>16, <1>17, <1>18, <1>19, <1>20,
      <1>21, <1>22, <1>23, <1>24, <1>25, <1>26, <1>27, <1>28, <1>29, <1>30,
      <1>31, <1>32, <1>33, <1>34, <1>35, <1>36, <1>37, <1>38, <1>39
      DEF Next, RoundStep, SectionStep, CallStep, AnswerStep,
      GovernanceStep, BootStep

(* The text of a round whose generation is over reaches the timeline no    *)
(* more, but for the exit that comes before a policy batch has told the    *)
(* rounds in flight (finish(), close()).                                   *)
THEOREM GovernedStaysBlank == Spec => BlankAfterGovernance
<1>1. Init => TextIsCurrent
  BY DEF Init, TextIsCurrent
<1>2. ASSUME TypeOK, TextIsCurrent, [Next]_vars PROVE TextIsCurrent'
  BY <1>2, TextKept
<1>3. ASSUME TypeOK, TextIsCurrent, [Next]_vars
      PROVE  [BlankAfterGovernanceStep]_vars
  <2> SUFFICES ASSUME NEW q \in stored' \ stored
               PROVE  seen[q] = generation \/ (q \in unwarned /\ phase' = "down")
    BY DEF BlankAfterGovernanceStep
  <2>1. CASE Exit
    BY <2>1, <1>3 DEF Exit, Halt, TextIsCurrent
  <2>2. ASSUME NEW r \in Request, Finish(r)
        PROVE  seen[q] = generation
    BY <2>2 DEF Finish, Finishes
  <2>3. \/ UNCHANGED stored \/ Exit
        \/ \E r \in Request : Finish(r)
    BY <1>3
       DEF Next, RoundStep, SectionStep, CallStep, AnswerStep, GovernanceStep,
           BootStep, Start, OpenSegment, Send, GiveUp, Delta, ToolTimeout,
           AnswerFails, AnswerCompletes, AnswerCalls, Prepare, Refuse, Settle,
           Dispatch, Withhold, ReadLocal, WriteIntent, WriteRepeated,
           WriteRejected, WriteCommit, WriteFails, KeepResult, DropResult,
           NextCall, LedgerFault, CloseSegment, FinishGoverned, FinishFault,
           Departs, Cancel, Withdraw, Govern, Hook, PolicyMove, PolicyReport,
           PolicyFault, Crash, RecoverTimeline, RecoverLedger, RecoverMemory,
           timeline, ledger, vars
  <2> QED
    BY <2>1, <2>2, <2>3
<1> QED
  BY <1>1, <1>2, <1>3, RoundTypeCorrect, PTL DEF Spec, BlankAfterGovernance

-----------------------------------------------------------------------------
(* The first n operations of a chain are settled, and the model was given  *)
(* a kept result for each.                                                 *)
Answering == {"SUCCEEDED", "CONFIRMED_NOT_APPLIED"}
KeptUpTo(q, n) ==
  \A c \in 1..n : ops[q][c].state \in Answering /\ <<q, c>> \in results

(* Recording an operation that is open, or recording what it is already.   *)
Revises(q) ==
  \E s : /\ call[q] \in Call
         /\ ops' = [ops EXCEPT ![q][call[q]].state = s]
         /\ CurrentOp(q).state \in Open \/ s = CurrentOp(q).state

(* The ledger changes by a new operation, by revising one, or by recovery. *)
LEMMA LedgerStep ==
  ASSUME TypeOK, LedgerInv, [Next]_vars
  PROVE  /\ results \subseteq results'
         /\ \/ UNCHANGED ops
            \/ \E q \in Request : Prepare(q) \/ Revises(q)
            \/ RecoverLedger \/ RecoverMemory
<1> USE DEF timeline, ledger, world, round, signals, volatile, history
<1> DEFINE Goal == /\ results \subseteq results'
                   /\ \/ UNCHANGED ops
                      \/ \E q \in Request : Prepare(q) \/ Revises(q)
                      \/ RecoverLedger \/ RecoverMemory
<1>1. ASSUME NEW q \in Request, NEW s, Record(q, s), results \subseteq results',
             pc[q] \in {"prepared", "dispatching", "writing"}
      PROVE  Goal
  <2>1. call[q] \in Call /\ CurrentOp(q).state \in Open
    BY <1>1 DEF LedgerInv, PlaceAgrees, At, Open
  <2>2. Revises(q)
    BY <1>1, <2>1 DEF Revises, Record
  <2> QED BY <1>1, <2>2
<1>2. ASSUME NEW q \in Request,
             Refuse(q) \/ Dispatch(q) \/ Withhold(q) \/ ReadLocal(q)
               \/ WriteRejected(q)
      PROVE  Goal
  <2>1. /\ pc[q] \in {"prepared", "dispatching"} /\ UNCHANGED results
        /\ \E s : Record(q, s)
    BY <1>2 DEF Refuse, Dispatch, Withhold, ReadLocal, WriteRejected, Writing,
                Settle, At
  <2> QED BY <1>1, <2>1
<1>3. ASSUME NEW q \in Request, WriteCommit(q) \/ WriteFails(q) PROVE Goal
  <2>1. /\ pc[q] = "writing" /\ results \subseteq results'
        /\ \E s : Record(q, s)
    BY <1>3 DEF WriteCommit, WriteFails, Settle, KeepBody, At
  <2> QED BY <1>1, <2>1
<1>4. ASSUME NEW q \in Request, LedgerFault(q) PROVE Goal
  <2>1. UNCHANGED results /\ (UNCHANGED ops \/
          (pc[q] = "writing" /\ Record(q, "RESULT_UNKNOWN")))
    BY <1>4 DEF LedgerFault, At
  <2> QED BY <1>1, <2>1
<1>5. ASSUME NEW q \in Request, KeepResult(q) \/ DropResult(q) PROVE Goal
  <2>1. /\ pc[q] = "returned" /\ results \subseteq results'
        /\ ops' = [ops EXCEPT ![q][call[q]].state = Done(q)]
    BY <1>5 DEF KeepResult, DropResult, Settle, KeepBody, At, Record
  <2>2. call[q] \in Call
    BY <2>1 DEF LedgerInv, PlaceAgrees
  <2>3. CurrentOp(q).state \in Open \/ Done(q) = CurrentOp(q).state
    BY DEF Done, Open
  <2>4. Revises(q)
    BY <2>1, <2>2, <2>3 DEF Revises
  <2> QED BY <2>1, <2>4
<1>6. ASSUME UNCHANGED results,
             \/ UNCHANGED ops \/ \E q \in Request : Prepare(q)
             \/ RecoverLedger \/ RecoverMemory
      PROVE  Goal
  BY <1>6
<1>7. \/ /\ UNCHANGED results
         /\ \/ UNCHANGED ops \/ \E q \in Request : Prepare(q)
            \/ RecoverLedger \/ RecoverMemory
      \/ \E q \in Request :
           \/ Refuse(q) \/ Dispatch(q) \/ Withhold(q) \/ ReadLocal(q)
           \/ WriteRejected(q) \/ WriteCommit(q) \/ WriteFails(q)
           \/ LedgerFault(q) \/ KeepResult(q) \/ DropResult(q)
  <2>1. ASSUME NEW q \in Request,
               \/ Start(q) \/ OpenSegment(q) \/ Send(q) \/ GiveUp(q)
               \/ AnswerStep(q) \/ Delta(q) \/ ToolTimeout(q) \/ Cancel(q)
               \/ Withdraw(q)
        PROVE  UNCHANGED <<ops, results>>
    BY <2>1 DEF Start, OpenSegment, Send, GiveUp, AnswerStep, AnswerFails,
                AnswerCompletes, AnswerCalls, Delta, ToolTimeout, Cancel, Withdraw
  <2>2. ASSUME NEW q \in Request,
               \/ WriteIntent(q) \/ WriteRepeated(q) \/ NextCall(q)
               \/ CloseSegment(q) \/ Finish(q) \/ FinishGoverned(q)
               \/ FinishFault(q)
        PROVE  UNCHANGED <<ops, results>>
    BY <2>2 DEF WriteIntent, WriteRepeated, NextCall, CloseSegment, Finish,
                FinishGoverned, FinishFault, Departs
  <2>3. CASE GovernanceStep \/ Exit \/ Crash \/ RecoverTimeline
    BY <2>3 DEF GovernanceStep, Govern, Hook, PolicyMove, PolicyReport,
                PolicyFault, Exit, Crash, Halt, RecoverTimeline
  <2>4. CASE RecoverLedger \/ RecoverMemory
    BY <2>4 DEF RecoverLedger, RecoverMemory
  <2>5. ASSUME NEW q \in Request, Prepare(q) PROVE UNCHANGED results
    BY <2>5 DEF Prepare
  <2>6. CASE UNCHANGED vars
    BY <2>6 DEF vars
  <2>7. \/ \E q \in Request : RoundStep(q)
        \/ GovernanceStep \/ Exit \/ Crash \/ BootStep \/ UNCHANGED vars
    BY DEF Next
  <2>8. ASSUME NEW q \in Request, RoundStep(q)
        PROVE  \/ UNCHANGED <<ops, results>> \/ Prepare(q)
               \/ Refuse(q) \/ Dispatch(q) \/ Withhold(q) \/ ReadLocal(q)
               \/ WriteRejected(q) \/ WriteCommit(q) \/ WriteFails(q)
               \/ LedgerFault(q) \/ KeepResult(q) \/ DropResult(q)
    BY <2>1, <2>2, <2>8 DEF RoundStep, SectionStep, CallStep
  <2> QED
    BY <2>3, <2>4, <2>5, <2>6, <2>7, <2>8 DEF BootStep
<1> HIDE DEF Goal
<1>8. Goal
  <2>1. CASE \E q \in Request :
               \/ Refuse(q) \/ Dispatch(q) \/ Withhold(q) \/ ReadLocal(q)
               \/ WriteRejected(q) \/ WriteCommit(q) \/ WriteFails(q)
               \/ LedgerFault(q) \/ KeepResult(q) \/ DropResult(q)
    BY <2>1, <1>2, <1>3, <1>4, <1>5
  <2> QED BY <2>1, <1>6, <1>7
<1> QED
  BY <1>8 DEF Goal

(* A settled operation the model has read is never touched again.          *)
LEMMA KeptStays ==
  ASSUME TypeOK, LedgerInv, [Next]_vars,
         NEW q \in Request, NEW n \in 0..MaxCalls, KeptUpTo(q, n)
  PROVE  KeptUpTo(q, n)'
<1>0. ops \in Ops
  BY DEF TypeOK, LedgerTypes, Ops
<1> SUFFICES ASSUME NEW c \in 1..n
             PROVE  ops'[q][c].state \in Answering /\ <<q, c>> \in results'
  BY DEF KeptUpTo
<1>1. c \in Call /\ ops[q][c] \in Operation
  BY <1>0, RoundAssumption DEF Call, Ops
<1>2. ops[q][c].state \in Answering /\ <<q, c>> \in results
  BY DEF KeptUpTo
<1>3. ASSUME NEW r \in Request, Prepare(r) PROVE ops'[q][c] = ops[q][c]
  <2>1. PICK op : ops' = [ops EXCEPT ![r][call[r] + 1] = op]
    BY <1>3, Zenon DEF Prepare
  <2>2. ~(q = r /\ c = call[r] + 1)
    <3>1. c > call[r] => ops[r][c].state = "NONE"
      BY <1>1 DEF LedgerInv, PlaceAgrees
    <3>2. call[r] \in 0..MaxCalls
      BY DEF TypeOK, RoundTypes
    <3> QED BY <1>2, <3>1, <3>2, RoundAssumption DEF Answering
  <2> QED BY <1>0, <1>1, <2>1, <2>2 DEF Ops
<1>4. ASSUME NEW r \in Request, Revises(r)
      PROVE  ops'[q][c].state = ops[q][c].state
  <2>1. PICK s : /\ call[r] \in Call
                 /\ ops' = [ops EXCEPT ![r][call[r]].state = s]
                 /\ ops[r][call[r]].state \in Open \/ s = ops[r][call[r]].state
    BY <1>4 DEF Revises, CurrentOp
  <2>2. CASE q = r /\ c = call[r]
    <3>1. s = ops[q][c].state
      BY <1>2, <2>1, <2>2 DEF Answering, Open
    <3> QED BY <1>0, <1>1, <2>1, <2>2, <3>1 DEF Ops, Operation
  <2>3. CASE ~(q = r /\ c = call[r])
    BY <1>0, <1>1, <2>1, <2>3 DEF Ops
  <2> QED BY <2>2, <2>3
<1>5. CASE RecoverLedger
  <2>1. ops'[q][c].state = Recovered(ops[q][c].state)
    BY <1>1, <1>5 DEF RecoverLedger, Operation
  <2> QED BY <1>2, <2>1, LedgerStep DEF Recovered, Answering
<1>6. CASE RecoverMemory
  <2>1. \/ ops'[q][c] = ops[q][c]
        \/ ops'[q][c] = [ops[q][c] EXCEPT !.state = "CONFIRMED_NOT_APPLIED"]
    BY <1>1, <1>6 DEF RecoverMemory
  <2> QED BY <1>1, <1>2, <2>1, LedgerStep DEF Answering, Operation
<1> QED
  BY <1>2, <1>3, <1>4, <1>5, <1>6, LedgerStep

(* Where a round stands tells how much of its chain the model has read,    *)
(* and only a chain that was read to its end can complete the answer.      *)
Asking == {"begun", "ready", "waiting", "calls", "recorded"}
Leaving == {"closing", "ended"}

Unstarted == \A q \in Request : rows[q] = "NONE" => pc[q] = "idle" /\ call[q] = 0

Whole ==
  \A q \in Tooled :
    /\ pc[q] \in Asking => KeptUpTo(q, call[q])
    /\ pc[q] \in Executing => KeptUpTo(q, call[q] - 1)
    /\ (verdict[q] = "completed" /\ pc[q] \in Leaving) =>
         segments[q] = "closed" /\ KeptUpTo(q, call[q])
    /\ rows[q] = "completed" =>
         pc[q] = "gone" /\ segments[q] = "closed" /\ KeptUpTo(q, call[q])

(* A request that was never started has no call yet.                       *)
LEMMA UnstartedKept ==
  ASSUME TypeOK, Unstarted, [Next]_vars PROVE Unstarted'
<1>0. /\ pc \in [Request -> Place] /\ call \in [Request -> 0..MaxCalls]
      /\ rows \in [Request -> {"NONE", "pending"} \cup Final]
      /\ verdict \in [Request -> {"error"} \cup Final]
  BY DEF TypeOK, RoundTypes
<1> USE DEF timeline, ledger, world, round, signals, volatile, history,
        Unstarted, Final, Resting, At
<1>1. ASSUME NEW q \in Request, Start(q) PROVE Unstarted'
  BY <1>1, <1>0 DEF Start, Goto
<1>2. ASSUME NEW q \in Request, OpenSegment(q) PROVE Unstarted'
  BY <1>2, <1>0 DEF OpenSegment, Goto, At
<1>3. ASSUME NEW q \in Request, Send(q) PROVE Unstarted'
  BY <1>3, <1>0 DEF Send, Goto, At, Check
<1>4. ASSUME NEW q \in Request, GiveUp(q) PROVE Unstarted'
  BY <1>4, <1>0 DEF GiveUp, Leave, Goto
<1>5. ASSUME NEW q \in Request, Delta(q) PROVE Unstarted'
  BY <1>5, <1>0 DEF Delta
<1>6. ASSUME NEW q \in Request, ToolTimeout(q) PROVE Unstarted'
  BY <1>6, <1>0 DEF ToolTimeout
<1>7. ASSUME NEW q \in Request, AnswerFails(q) PROVE Unstarted'
  BY <1>7, <1>0 DEF AnswerFails, Leave, Goto, Resume
<1>8. ASSUME NEW q \in Request, AnswerCompletes(q) PROVE Unstarted'
  BY <1>8, <1>0 DEF AnswerCompletes, Leave, Goto, Resume
<1>9. ASSUME NEW q \in Request, AnswerCalls(q) PROVE Unstarted'
  BY <1>9, <1>0 DEF AnswerCalls, Goto, Resume
<1>10. ASSUME NEW q \in Request, Prepare(q) PROVE Unstarted'
  BY <1>10, <1>0 DEF Prepare, Goto, At
<1>11. ASSUME NEW q \in Request, Refuse(q) PROVE Unstarted'
  BY <1>11, <1>0 DEF Refuse, Settle, Record, Leave, Goto, At, CurrentOp,
      Refusal
<1>12. ASSUME NEW q \in Request, Dispatch(q) PROVE Unstarted'
  BY <1>12, <1>0 DEF Dispatch, Settle, Record, Goto, At, CurrentOp
<1>13. ASSUME NEW q \in Request, Withhold(q) PROVE Unstarted'
  BY <1>13, <1>0 DEF Withhold, Settle, Record, Leave, Goto, At, CurrentOp
<1>14. ASSUME NEW q \in Request, ReadLocal(q) PROVE Unstarted'
  BY <1>14, <1>0 DEF ReadLocal, Settle, Record, Leave, Goto, At, CurrentOp
<1>15. ASSUME NEW q \in Request, WriteIntent(q) PROVE Unstarted'
  BY <1>15, <1>0 DEF WriteIntent, Writing, Goto, At, CurrentOp
<1>16. ASSUME NEW q \in Request, WriteRepeated(q) PROVE Unstarted'
  BY <1>16, <1>0 DEF WriteRepeated, Writing, Goto, At, CurrentOp
<1>17. ASSUME NEW q \in Request, WriteRejected(q) PROVE Unstarted'
  BY <1>17, <1>0 DEF WriteRejected, Writing, Settle, Record, Leave, Goto, At,
      CurrentOp
<1>18. ASSUME NEW q \in Request, WriteCommit(q) PROVE Unstarted'
  BY <1>18, <1>0 DEF WriteCommit, Receipt, Readers, Record, KeepBody, Goto,
      At, CurrentOp
<1>19. ASSUME NEW q \in Request, WriteFails(q) PROVE Unstarted'
  BY <1>19, <1>0 DEF WriteFails, Settle, Record, KeepBody, Leave, Goto, At,
      CurrentOp
<1>20. ASSUME NEW q \in Request, KeepResult(q) PROVE Unstarted'
  BY <1>20, <1>0 DEF KeepResult, Settle, Done, Record, KeepBody, Goto, At,
      CurrentOp
<1>21. ASSUME NEW q \in Request, DropResult(q) PROVE Unstarted'
  BY <1>21, <1>0 DEF DropResult, Settle, Done, Record, Leave, Goto, At,
      CurrentOp
<1>22. ASSUME NEW q \in Request, NextCall(q) PROVE Unstarted'
  BY <1>22, <1>0 DEF NextCall, Goto, At
<1>23. ASSUME NEW q \in Request, LedgerFault(q) PROVE Unstarted'
  BY <1>23, <1>0 DEF LedgerFault, Record, Leave, Goto, At, CurrentOp
<1>24. ASSUME NEW q \in Request, CloseSegment(q) PROVE Unstarted'
  BY <1>24, <1>0 DEF CloseSegment, Interrupted, Goto, At
<1>25. ASSUME NEW q \in Request, Finish(q) PROVE Unstarted'
  BY <1>25, <1>0 DEF Finish, Departs, Outcomes, Goto, At
<1>26. ASSUME NEW q \in Request, FinishGoverned(q) PROVE Unstarted'
  BY <1>26, <1>0 DEF FinishGoverned, Departs, Goto, At
<1>27. ASSUME NEW q \in Request, FinishFault(q) PROVE Unstarted'
  BY <1>27, <1>0 DEF FinishFault, Departs, Goto, At
<1>28. ASSUME NEW q \in Request, Cancel(q) PROVE Unstarted'
  BY <1>28, <1>0 DEF Cancel
<1>29. ASSUME NEW q \in Request, Withdraw(q) PROVE Unstarted'
  BY <1>29, <1>0 DEF Withdraw
<1>30. ASSUME Govern PROVE Unstarted'
  BY <1>30, <1>0 DEF Govern, Commit, Hook, BlankText, Governing
<1>31. ASSUME PolicyMove PROVE Unstarted'
  BY <1>31, <1>0 DEF PolicyMove, Governing, Commit
<1>32. ASSUME PolicyReport PROVE Unstarted'
  BY <1>32, <1>0 DEF PolicyReport, Governing, Hook, BlankText
<1>33. ASSUME PolicyFault PROVE Unstarted'
  BY <1>33, <1>0 DEF PolicyFault, Governing
<1>34. ASSUME Exit PROVE Unstarted'
  BY <1>34, <1>0 DEF Exit, Halt
<1>35. ASSUME Crash PROVE Unstarted'
  BY <1>35, <1>0 DEF Crash, Halt
<1>36. ASSUME RecoverTimeline PROVE Unstarted'
  BY <1>36, <1>0 DEF RecoverTimeline
<1>37. ASSUME RecoverLedger PROVE Unstarted'
  BY <1>37, <1>0 DEF RecoverLedger, Recovered, Interrupted
<1>38. ASSUME RecoverMemory PROVE Unstarted'
  BY <1>38, <1>0 DEF RecoverMemory, Unapplied
<1>39. CASE UNCHANGED vars
  BY <1>39, <1>0 DEF vars
<1> QED
  BY <1>1, <1>2, <1>3, <1>4, <1>5, <1>6, <1>7, <1>8, <1>9, <1>10,
      <1>11, <1>12, <1>13, <1>14, <1>15, <1>16, <1>17, <1>18, <1>19, <1>20,
      <1>21, <1>22, <1>23, <1>24, <1>25, <1>26, <1>27, <1>28, <1>29, <1>30,
      <1>31, <1>32, <1>33, <1>34, <1>35, <1>36, <1>37, <1>38, <1>39
      DEF Next, RoundStep, SectionStep, CallStep, AnswerStep,
      GovernanceStep, BootStep

(* One round moves on while its earlier operations stay as they are.       *)
LEMMA WholeKept ==
  ASSUME TypeOK, LedgerInv, Unstarted, Whole, [Next]_vars PROVE Whole'
<1>0. /\ pc \in [Request -> Place] /\ call \in [Request -> 0..MaxCalls]
      /\ rows \in [Request -> {"NONE", "pending"} \cup Final]
      /\ verdict \in [Request -> {"error"} \cup Final]
      /\ segments \in [Request -> {"NONE", "active", "closed", "interrupted"}]
      /\ Tooled \subseteq Request
  BY RoundAssumption DEF TypeOK, RoundTypes, LedgerTypes
<1>a. /\ \A q \in Request, n \in 0..MaxCalls : KeptUpTo(q, n) => KeptUpTo(q, n)'
      /\ \A q \in Request : pc[q] \in Executing => call[q] - 1 \in 0..MaxCalls
  <2>1. \A q \in Request : pc[q] \in Executing => call[q] \in Call
    BY DEF LedgerInv, PlaceAgrees, Executing
  <2> QED BY KeptStays, <2>1, RoundAssumption DEF Call
<1> USE DEF timeline, ledger, world, round, signals, volatile, history, Whole,
        Asking, Executing, Leaving, Final, Resting, Callback, At
<1>1. ASSUME NEW q \in Request, Start(q) PROVE Whole'
  <2>1. call[q] = 0 /\ UNCHANGED <<segments, call, verdict>>
    BY <1>1 DEF Start, Unstarted
  <2>2. KeptUpTo(q, 0)'
    BY DEF KeptUpTo
  <2>3. pc' = [pc EXCEPT ![q] = "begun"] /\ rows' = [rows EXCEPT ![q] = "pending"]
    BY <1>1 DEF Start, Goto
  <2> QED BY <2>1, <2>2, <2>3, <1>0, <1>a
<1>2. ASSUME NEW q \in Request, OpenSegment(q) PROVE Whole'
  BY <1>2, <1>0, <1>a DEF OpenSegment, Goto, At
<1>3. ASSUME NEW q \in Request, Send(q) PROVE Whole'
  BY <1>3, <1>0, <1>a DEF Send, Goto, At, Check
<1>4. ASSUME NEW q \in Request, GiveUp(q) PROVE Whole'
  BY <1>4, <1>0, <1>a DEF GiveUp, Leave, Goto
<1>5. ASSUME NEW q \in Request, Delta(q) PROVE Whole'
  BY <1>5, <1>0, <1>a DEF Delta
<1>6. ASSUME NEW q \in Request, ToolTimeout(q) PROVE Whole'
  BY <1>6, <1>0, <1>a DEF ToolTimeout
<1>7. ASSUME NEW q \in Request, AnswerFails(q) PROVE Whole'
  BY <1>7, <1>0, <1>a DEF AnswerFails, Leave, Goto, Resume
<1>8. ASSUME NEW q \in Request, AnswerCompletes(q) PROVE Whole'
  BY <1>8, <1>0, <1>a DEF AnswerCompletes, Leave, Goto, Resume
<1>9. ASSUME NEW q \in Request, AnswerCalls(q) PROVE Whole'
  BY <1>9, <1>0, <1>a DEF AnswerCalls, Goto, Resume
<1>10. ASSUME NEW q \in Request, Prepare(q) PROVE Whole'
  BY <1>10, <1>0, <1>a DEF Prepare, Goto, At
<1>11. ASSUME NEW q \in Request, Refuse(q) PROVE Whole'
  BY <1>11, <1>0, <1>a DEF Refuse, Settle, Record, Leave, Goto, At, CurrentOp,
      Refusal
<1>12. ASSUME NEW q \in Request, Dispatch(q) PROVE Whole'
  BY <1>12, <1>0, <1>a DEF Dispatch, Settle, Record, Goto, At, CurrentOp
<1>13. ASSUME NEW q \in Request, Withhold(q) PROVE Whole'
  BY <1>13, <1>0, <1>a DEF Withhold, Settle, Record, Leave, Goto, At,
      CurrentOp
<1>14. ASSUME NEW q \in Request, ReadLocal(q) PROVE Whole'
  BY <1>14, <1>0, <1>a DEF ReadLocal, Settle, Record, Leave, Goto, At,
      CurrentOp
<1>15. ASSUME NEW q \in Request, WriteIntent(q) PROVE Whole'
  BY <1>15, <1>0, <1>a DEF WriteIntent, Writing, Goto, At, CurrentOp
<1>16. ASSUME NEW q \in Request, WriteRepeated(q) PROVE Whole'
  BY <1>16, <1>0, <1>a DEF WriteRepeated, Writing, Goto, At, CurrentOp
<1>17. ASSUME NEW q \in Request, WriteRejected(q) PROVE Whole'
  BY <1>17, <1>0, <1>a DEF WriteRejected, Writing, Settle, Record, Leave,
      Goto, At, CurrentOp
<1>18. ASSUME NEW q \in Request, WriteCommit(q) PROVE Whole'
  BY <1>18, <1>0, <1>a DEF WriteCommit, Receipt, Readers, Record, KeepBody,
      Goto, At, CurrentOp
<1>19. ASSUME NEW q \in Request, WriteFails(q) PROVE Whole'
  BY <1>19, <1>0, <1>a DEF WriteFails, Settle, Record, KeepBody, Leave, Goto,
      At, CurrentOp
<1>20. ASSUME NEW q \in Request, KeepResult(q) PROVE Whole'
  <2>1. /\ pc' = [pc EXCEPT ![q] = "recorded"] /\ pc[q] = "returned"
        /\ ops' = [ops EXCEPT ![q][call[q]].state = Done(q)]
        /\ results' = results \cup {<<q, call[q]>>}
        /\ UNCHANGED <<rows, segments, call, verdict>>
    BY <1>20 DEF KeepResult, Settle, Record, KeepBody, Goto
  <2>2. call[q] \in Call /\ Done(q) \in Answering
    BY <2>1 DEF LedgerInv, PlaceAgrees, Done, Answering
  <2>3. ops'[q][call[q]].state \in Answering
    BY <2>1, <2>2 DEF TypeOK, LedgerTypes, Operation
  <2>4. q \in Tooled => KeptUpTo(q, call[q] - 1)'
    BY <2>1, <1>a, <1>0
  <2>5. q \in Tooled => KeptUpTo(q, call[q])'
    <3>1. \A c \in 1..call[q] : c = call[q] \/ c \in 1..(call[q] - 1)
      BY <2>2 DEF Call
    <3> QED BY <2>1, <2>3, <2>4, <3>1 DEF KeptUpTo
  <2> QED BY <2>1, <2>5, <1>0, <1>a
<1>21. ASSUME NEW q \in Request, DropResult(q) PROVE Whole'
  BY <1>21, <1>0, <1>a DEF DropResult, Settle, Done, Record, Leave, Goto, At,
      CurrentOp
<1>22. ASSUME NEW q \in Request, NextCall(q) PROVE Whole'
  BY <1>22, <1>0, <1>a DEF NextCall, Goto, At
<1>23. ASSUME NEW q \in Request, LedgerFault(q) PROVE Whole'
  BY <1>23, <1>0, <1>a DEF LedgerFault, Record, Leave, Goto, At, CurrentOp
<1>24. ASSUME NEW q \in Request, CloseSegment(q) PROVE Whole'
  BY <1>24, <1>0, <1>a DEF CloseSegment, Interrupted, Goto, At
<1>25. ASSUME NEW q \in Request, Finish(q) PROVE Whole'
  BY <1>25, <1>0, <1>a DEF Finish, Departs, Outcomes, Goto, At
<1>26. ASSUME NEW q \in Request, FinishGoverned(q) PROVE Whole'
  BY <1>26, <1>0, <1>a DEF FinishGoverned, Departs, Goto, At
<1>27. ASSUME NEW q \in Request, FinishFault(q) PROVE Whole'
  BY <1>27, <1>0, <1>a DEF FinishFault, Departs, Goto, At
<1>28. ASSUME NEW q \in Request, Cancel(q) PROVE Whole'
  BY <1>28, <1>0, <1>a DEF Cancel
<1>29. ASSUME NEW q \in Request, Withdraw(q) PROVE Whole'
  BY <1>29, <1>0, <1>a DEF Withdraw
<1>30. ASSUME Govern PROVE Whole'
  BY <1>30, <1>0, <1>a DEF Govern, Commit, Hook, BlankText, Governing
<1>31. ASSUME PolicyMove PROVE Whole'
  BY <1>31, <1>0, <1>a DEF PolicyMove, Governing, Commit
<1>32. ASSUME PolicyReport PROVE Whole'
  BY <1>32, <1>0, <1>a DEF PolicyReport, Governing, Hook, BlankText
<1>33. ASSUME PolicyFault PROVE Whole'
  BY <1>33, <1>0, <1>a DEF PolicyFault, Governing
<1>34. ASSUME Exit PROVE Whole'
  BY <1>34, <1>0, <1>a DEF Exit, Halt
<1>35. ASSUME Crash PROVE Whole'
  BY <1>35, <1>0, <1>a DEF Crash, Halt
<1>36. ASSUME RecoverTimeline PROVE Whole'
  BY <1>36, <1>0, <1>a DEF RecoverTimeline
<1>37. ASSUME RecoverLedger PROVE Whole'
  BY <1>37, <1>0, <1>a DEF RecoverLedger, Recovered, Interrupted
<1>38. ASSUME RecoverMemory PROVE Whole'
  BY <1>38, <1>0, <1>a DEF RecoverMemory, Unapplied
<1>39. CASE UNCHANGED vars
  BY <1>39, <1>0, <1>a DEF vars
<1> QED
  BY <1>1, <1>2, <1>3, <1>4, <1>5, <1>6, <1>7, <1>8, <1>9, <1>10,
      <1>11, <1>12, <1>13, <1>14, <1>15, <1>16, <1>17, <1>18, <1>19, <1>20,
      <1>21, <1>22, <1>23, <1>24, <1>25, <1>26, <1>27, <1>28, <1>29, <1>30,
      <1>31, <1>32, <1>33, <1>34, <1>35, <1>36, <1>37, <1>38, <1>39
      DEF Next, RoundStep, SectionStep, CallStep, AnswerStep,
      GovernanceStep, BootStep

(* A completed answer is whole: its chain was closed, and the model got a  *)
(* kept result for every operation of it, none of them unknown.            *)
THEOREM CompletedAnswersAreWhole == Spec => []CompletedIsWhole
<1>1. Init => Unstarted /\ Whole
  BY RoundAssumption DEF Init, Unstarted, Whole, KeptUpTo, Asking, Executing,
                         Leaving
<1>2. ASSUME RoundInv, Unstarted /\ Whole, [Next]_vars
      PROVE  (Unstarted /\ Whole)'
  BY <1>2, UnstartedKept, WholeKept DEF RoundInv
<1>3. Whole => CompletedIsWhole
  BY DEF Whole, CompletedIsWhole, KeptUpTo, Answering
<1> QED
  BY <1>1, <1>2, <1>3, RoundInductive, PTL DEF Spec
==============================================================================
