------------------------------ MODULE DailyReports ------------------------------
(***************************************************************************)
(* What a daily job does: daily-service.ts with daily-sources.ts, for one  *)
(* configuration.  The sources of a job are frozen when it is queued; its  *)
(* call is charged and made; its proposals are committed one by one and    *)
(* its report, with the changes it consumes, in one transaction.  A report *)
(* is good only as long as its sources are what they were.                 *)
(*                                                                         *)
(* As in BackgroundJobs a section of the pump runs from one await to the   *)
(* next and "place" says where it is; the process can die between two of   *)
(* its commits.  When jobs fall due is in DailySchedule.                   *)
(***************************************************************************)
EXTENDS Integers, FiniteSets

CONSTANTS
  Job,
  Slots,        \* most proposals of an answer
  Limit,        \* changes one job can consume
  Budget,       \* calls a day allows
  MaxDay, MaxConfig, MaxMoves, MaxChange, MaxRetries, MaxStops,   \* bounds
  MaxFaults, MaxDecisions,
  None

DailyAssumption ==
  /\ None \notin Job
  /\ Slots \in Nat /\ Limit \in Nat \ {0}
  /\ \A n \in {Budget, MaxDay, MaxConfig, MaxMoves, MaxChange, MaxRetries,
               MaxStops, MaxFaults, MaxDecisions} : n \in Nat

Ended == {"COMPLETED", "CANCELLED", "STALE"}
States == Ended \cup {"none", "QUEUED", "RUNNING", "BUDGET_PAUSED", "PARTIAL",
                      "FAILED", "REMOTE_UNKNOWN"}
Results == {"good", "incomplete", "malformed"}
Places == {"rest", "reserved", "sent", "answered", "planned"}

VARIABLES
  jobs,        \* durable: daily_jobs with frozen inputs and candidate
  reports,     \* durable: daily_reports
  suppressed,  \* durable: the observation has been rejected once
  checkpoint,  \* durable: daily_item_checkpoints, the version consumed
  open,        \* durable: the last usage attempt of a job
  spent,       \* durable: usage attempts by day
  config,      \* durable: daily_configs
  text,        \* durable: version of what the sources say, 0: too little to ask about
  granted,     \* durable: the recipient is the one that was granted
  change,      \* durable: daily_item_changes, the newest version of the item
  gone,        \* durable: the assistant has been deleted for good
  day, up,
  running, place, aborted, result,    \* volatile: the execution
  calls, proposed, retries, reported, \* history
  remembered, shown,                  \* history
  moves, stops, faults, decisions     \* bound counters

durable == <<jobs, reports, suppressed, checkpoint, open, spent>>
world == <<config, text, granted, change, gone, day>>
volatile == <<running, place, aborted, result>>
history == <<calls, proposed, retries, reported, remembered, shown>>
bounds == <<moves, stops, faults, decisions>>
vars == <<durable, world, up, volatile, history, bounds>>

NoJob == [state |-> "none", config |-> 0, text |-> 0, from |-> 0, to |-> 0,
          plan |-> FALSE, finds |-> FALSE, begun |-> FALSE, slots |-> 0,
          done |-> 0, day |-> 0, attempts |-> 0]
NoReport == [state |-> "none", version |-> 0, finding |-> "none", memory |-> 0,
             accepted |-> 0, called |-> FALSE]

Free == up /\ place \in {"rest", "sent"}
Least(a, b) == IF a < b THEN a ELSE b
-----------------------------------------------------------------------------
(* DailySources.assert(): configuration, recipient and every source are    *)
(* those of the frozen inputs.                                             *)
Grounded(j) ==
  /\ config.version = jobs[j].config /\ granted /\ text = jobs[j].text

(* Wrong variant: the sources are not read again.                          *)
CheckOnce(j) ==
  IF aborted \/ jobs[j].state = "CANCELLED" THEN "STALE_WRITE" ELSE "ok"

Check(j) ==           \* assertJob()
  CASE aborted \/ jobs[j].state = "CANCELLED" -> "STALE_WRITE"
    [] ~aborted /\ jobs[j].state # "CANCELLED" /\ ~config.enabled ->
         "CONFIGURATION"
    [] ~aborted /\ jobs[j].state # "CANCELLED" /\ config.enabled
         /\ ~Grounded(j) -> "STALE_WRITE"
    [] OTHER -> "ok"

Cleared(job) == [job EXCEPT !.text = 0, !.from = 0, !.to = 0, !.plan = FALSE]

Ending(job, state) ==
  IF state \in {"STALE", "CANCELLED"} THEN Cleared([job EXCEPT !.state = state])
  ELSE [job EXCEPT !.state = state]

Rest == running' = None /\ place' = "rest" /\ aborted' = FALSE /\ result' = "none"
Goto(p) == place' = p /\ UNCHANGED <<running, aborted, result>>

(* Wrong variant: a job that is refused stays queued.                      *)
CaughtWaits(after, j, code) == after

(* The catch block of execute(); after is the table it finds.              *)
Caught(after, j, code) ==
  IF after[j].state = "CANCELLED" THEN after
  ELSE [after EXCEPT ![j] = Ending(@,
          CASE code = "BUDGET_EXHAUSTED" -> "BUDGET_PAUSED"
            [] code = "RESULT_UNKNOWN" -> "REMOTE_UNKNOWN"
            [] code \notin {"BUDGET_EXHAUSTED", "RESULT_UNKNOWN"}
                 /\ (aborted \/ code = "STALE_WRITE") -> "STALE"
            [] code \in {"CONFIGURATION", "FAULT"} /\ ~aborted /\ @.done > 0 ->
                 "PARTIAL"
            [] OTHER -> "FAILED")]

(* Wrong variant: reports are left as they are.                            *)
RefreshedNot == [j \in Job |-> reports[j]]

(* refreshReports(): a report whose sources, or whose saved observation,   *)
(* are no longer what they were loses its text for good.                   *)
Refreshed ==
  [j \in Job |->
     IF reports[j].state = "ACTIVE"
        /\ ~(Grounded(j) /\ reports[j].memory = reports[j].accepted)
     THEN [reports[j] EXCEPT !.state = "STALE", !.version = @ + 1]
     ELSE reports[j]]

(* Its job is emptied with it.                                             *)
Emptied(after) ==
  [j \in Job |-> IF Refreshed[j] # reports[j] THEN Cleared(after[j])
                 ELSE after[j]]

(* tick(): what the budget held back is queued again on another day.       *)
Requeued ==
  [j \in Job |-> IF jobs[j].state = "BUDGET_PAUSED" /\ jobs[j].day # day
                 THEN [jobs[j] EXCEPT !.state = "QUEUED"] ELSE jobs[j]]

Ticked == Emptied(Requeued)
Queued == {j \in Job : Ticked[j].state = "QUEUED"}
-----------------------------------------------------------------------------
(***************************************************************************)
(* The pump.                                                               *)
(***************************************************************************)
Tick ==               \* while a job runs, or with none queued
  /\ Free /\ (Queued = {} \/ place = "sent")
  /\ jobs' = Ticked /\ reports' = Refreshed
  /\ UNCHANGED <<suppressed, checkpoint, open, spent, world, up, volatile,
                 history, bounds>>

(* Wrong variant: the call is not charged when the budget is short.        *)
AffordableLate == spent[day] <= Budget

Affordable == spent[day] < Budget

(* The oldest job is taken; the model leaves the order open.  With too few *)
(* sources no model is asked.  The first apply() of a job marks it running,*)
(* a later one leaves it queued.                                           *)
Execute(j) ==
  /\ up /\ place = "rest" /\ j \in Queued
  /\ reports' = Refreshed
  /\ LET job == Ticked[j] IN
     \/ /\ Check(j) # "ok"
        /\ jobs' = Caught(Ticked, j, Check(j))
        /\ UNCHANGED <<open, spent, volatile>>
     \/ /\ Check(j) = "ok" /\ (job.plan \/ job.text = 0)
        /\ jobs' = [Ticked EXCEPT ![j].begun = TRUE,
             ![j].state = IF job.begun THEN "QUEUED" ELSE "RUNNING"]
        /\ running' = j /\ place' = "planned" /\ UNCHANGED <<open, spent, aborted, result>>
     \/ /\ Check(j) = "ok" /\ ~job.plan /\ job.text # 0 /\ ~Affordable
        /\ jobs' = Caught([Ticked EXCEPT ![j].day = day], j, "BUDGET_EXHAUSTED")
        /\ UNCHANGED <<open, spent, volatile>>
     \/ /\ Check(j) = "ok" /\ ~job.plan /\ job.text # 0 /\ Affordable
        /\ jobs' = [Ticked EXCEPT ![j].state = "RUNNING", ![j].day = day,
                                  ![j].attempts = @ + 1]
        /\ open' = [open EXCEPT ![j] = "SENDING"]
        /\ spent' = [spent EXCEPT ![day] = @ + 1]
        /\ running' = j /\ place' = "reserved" /\ UNCHANGED <<aborted, result>>
  /\ UNCHANGED <<suppressed, checkpoint, world, up, history, bounds>>

Send ==
  /\ up /\ place = "reserved"
  /\ calls' = [calls EXCEPT ![running] = @ + 1]
  /\ Goto("sent")
  /\ UNCHANGED <<durable, world, up, proposed, retries, reported, remembered,
                 shown, bounds>>

Answer(r) ==
  /\ up /\ place = "sent"
  /\ open' = [open EXCEPT ![running] = IF r = "good" THEN "SETTLED" ELSE "UNKNOWN"]
  /\ result' = r /\ place' = "answered"
  /\ UNCHANGED <<jobs, reports, suppressed, checkpoint, spent, world, up,
                 running, aborted, history, bounds>>

AnswerLost ==         \* the usage cannot be recorded, now or at once again
  /\ up /\ place = "sent"
  /\ faults < MaxFaults /\ faults' = faults + 1
  /\ jobs' = Caught(jobs, running, "FAULT")
  /\ Rest
  /\ UNCHANGED <<reports, suppressed, checkpoint, open, spent, world, up,
                 history, moves, stops, decisions>>

Judge ==              \* the answer is checked and kept as a candidate
  /\ up /\ place = "answered"
  /\ LET j == running
         code == IF Check(j) # "ok" THEN Check(j)
                 ELSE IF result = "incomplete" THEN "RESULT_UNKNOWN"
                 ELSE IF result = "malformed" THEN "FAULT" ELSE "ok"
     IN \/ code # "ok" /\ jobs' = Caught(jobs, j, code) /\ Rest
        \/ /\ code = "ok"
           /\ \E n \in 0..Slots, finds \in BOOLEAN :
                jobs' = [jobs EXCEPT ![j].plan = TRUE, ![j].slots = n,
                                     ![j].finds = finds, ![j].begun = TRUE]
           /\ Goto("planned")
  /\ UNCHANGED <<reports, suppressed, checkpoint, open, spent, world, up,
                 history, bounds>>
-----------------------------------------------------------------------------
(***************************************************************************)
(* apply(): proposals, each with its receipt in one transaction, then the  *)
(* report.                                                                 *)
(***************************************************************************)
(* Wrong variants: only the first proposal; the report does not wait.      *)
MoreNever(j) == FALSE

More(j) == jobs[j].done < jobs[j].slots

(* Wrong variants: a proposal too many; the receipts in a transaction of   *)
(* their own.                                                              *)
ProposeOn ==
  /\ up /\ place = "planned" /\ Check(running) = "ok"
  /\ jobs' = [jobs EXCEPT ![running].done = @ + 1, ![running].state = "PARTIAL"]
  /\ proposed' = [proposed EXCEPT ![running] = @ + 1]
  /\ UNCHANGED <<reports, suppressed, checkpoint, open, spent, world, up,
                 volatile, calls, retries, reported, remembered, shown, bounds>>

ProposeApart ==
  /\ up /\ place = "planned" /\ More(running) /\ Check(running) = "ok"
  /\ jobs' = [jobs EXCEPT ![running].done = jobs[running].slots]
  /\ proposed' = [proposed EXCEPT ![running] = @ + 1]
  /\ UNCHANGED <<reports, suppressed, checkpoint, open, spent, world, up,
                 volatile, calls, retries, reported, remembered, shown, bounds>>

Propose ==
  /\ up /\ place = "planned" /\ More(running) /\ Check(running) = "ok"
  /\ jobs' = [jobs EXCEPT ![running].done = @ + 1, ![running].state = "PARTIAL"]
  /\ proposed' = [proposed EXCEPT ![running] = @ + 1]
  /\ UNCHANGED <<reports, suppressed, checkpoint, open, spent, world, up,
                 volatile, calls, retries, reported, remembered, shown, bounds>>

ApplyFails ==         \* a proposal is not permitted, or storage fails
  /\ up /\ place = "planned"
  /\ \/ More(running) /\ UNCHANGED faults
     \/ faults < MaxFaults /\ faults' = faults + 1
  /\ jobs' = Caught(jobs, running, "FAULT")
  /\ Rest
  /\ UNCHANGED <<reports, suppressed, checkpoint, open, spent, world, up,
                 history, moves, stops, decisions>>

(* Wrong variant: what was rejected meanwhile is reported again.           *)
FoundAgain(j) == IF jobs[j].finds THEN "pending" ELSE "none"

Found(j) == IF jobs[j].finds /\ ~suppressed THEN "pending" ELSE "none"

(* Wrong variant: the newest change is taken for consumed.                 *)
ConsumedNewest(j) == IF jobs[j].to > jobs[j].from THEN change ELSE checkpoint

Consumed(j) == IF jobs[j].to > jobs[j].from THEN jobs[j].to ELSE checkpoint

Report ==
  /\ up /\ place = "planned" /\ ~More(running) /\ Check(running) = "ok"
  /\ reports' = [reports EXCEPT ![running] =
       [NoReport EXCEPT !.state = "ACTIVE", !.version = 1,
                        !.finding = Found(running),
                        !.called = jobs[running].plan]]
  /\ checkpoint' = Consumed(running)
  /\ reported' = reported \cup (jobs[running].from + 1)..jobs[running].to
  /\ jobs' = [jobs EXCEPT ![running].state = "COMPLETED", ![running].plan = FALSE]
  /\ Rest
  /\ UNCHANGED <<suppressed, open, spent, world, up, calls, proposed, retries,
                 remembered, shown, bounds>>
-----------------------------------------------------------------------------
(***************************************************************************)
(* The user.                                                               *)
(***************************************************************************)
Enqueue(j) ==         \* run(), or an occurrence that falls due
  /\ Free /\ ~gone /\ config.enabled /\ granted /\ jobs[j].state = "none"
  /\ jobs' = [jobs EXCEPT ![j] = [NoJob EXCEPT
       !.state = "QUEUED", !.config = config.version, !.text = text,
       !.from = checkpoint, !.to = Least(change, checkpoint + Limit), !.day = day]]
  /\ UNCHANGED <<reports, suppressed, checkpoint, open, spent, world, up,
                 volatile, history, bounds>>

Configure(enabled) ==
  /\ Free /\ ~gone /\ config.version < MaxConfig
  /\ config' = [version |-> config.version + 1, enabled |-> enabled]
  /\ granted' = (granted \/ enabled)
  /\ aborted' = (place = "sent")
  /\ jobs' = [j \in Job |->
       IF jobs[j].state \notin Ended \cup {"none", "RUNNING"}
       THEN Ending(jobs[j], "STALE") ELSE jobs[j]]
  /\ UNCHANGED <<reports, suppressed, checkpoint, open, spent, text, change,
                 gone, day, up, running, place, result, history, bounds>>

Retry(j) ==           \* control(): retry, retry-unknown
  /\ Free /\ ~gone /\ retries[j] < MaxRetries
  /\ jobs[j].state \notin Ended \cup {"none", "RUNNING"}
  /\ jobs' = [jobs EXCEPT ![j].state = "QUEUED"]
  /\ retries' = [retries EXCEPT ![j] = @ + 1]
  /\ UNCHANGED <<reports, suppressed, checkpoint, open, spent, world, up,
                 volatile, calls, proposed, reported, remembered, shown, bounds>>

Cancel(j) ==
  /\ Free /\ ~gone /\ jobs[j].state \notin Ended \cup {"none"}
  /\ jobs' = [jobs EXCEPT ![j] = Ending(@, "CANCELLED")]
  /\ aborted' = (aborted \/ running = j)
  /\ UNCHANGED <<reports, suppressed, checkpoint, open, spent, world, up,
                 running, place, result, history, bounds>>

(* decide() and inspect() look at the sources first, and refuse a report   *)
(* that has become stale.                                                  *)
Usable(j) == Free /\ ~gone /\ Refreshed[j].state = "ACTIVE"

Decide == decisions < MaxDecisions /\ decisions' = decisions + 1

Reject(j) ==
  /\ Decide /\ Usable(j) /\ reports[j].finding # "none" /\ reports[j].memory = 0
  /\ reports' = [Refreshed EXCEPT ![j].finding = "suppressed", ![j].version = @ + 1]
  /\ suppressed' = TRUE /\ jobs' = Emptied(jobs)
  /\ UNCHANGED <<checkpoint, open, spent, world, up, volatile, history, moves,
                 stops, faults>>

Dispute(j) ==
  /\ Decide /\ Usable(j) /\ reports[j].finding # "none" /\ reports[j].memory = 0
  /\ reports' = [Refreshed EXCEPT ![j].finding = "disputed", ![j].version = @ + 1]
  /\ jobs' = Emptied(jobs)
  /\ UNCHANGED <<suppressed, checkpoint, open, spent, world, up, volatile,
                 history, moves, stops, faults>>

(* Wrong variant: every decision to save makes a memory.                   *)
SavedNew(j) ==
  /\ remembered' = [remembered EXCEPT ![j] = @ + 1]
  /\ reports' = [Refreshed EXCEPT ![j].finding = "active", ![j].version = @ + 1,
                                  ![j].memory = 1, ![j].accepted = 1]

(* The memory, its receipt and the report change in one transaction; what  *)
(* has been saved is corrected the next time.                              *)
Saved(j) ==
  /\ remembered' = [remembered EXCEPT ![j] =
                      IF reports[j].memory = 0 THEN @ + 1 ELSE @]
  /\ reports' = [Refreshed EXCEPT ![j].finding = "active", ![j].version = @ + 1,
                                  ![j].memory = @ + 1, ![j].accepted = @ + 1]

Save(j) ==
  /\ Decide /\ Usable(j) /\ reports[j].finding # "none"
  /\ Saved(j) /\ jobs' = Emptied(jobs)
  /\ UNCHANGED <<suppressed, checkpoint, open, spent, world, up, volatile,
                 calls, proposed, retries, reported, shown, moves, stops, faults>>

Inspect(j) ==
  /\ Decide /\ Usable(j)
  /\ reports' = Refreshed /\ jobs' = Emptied(jobs)
  /\ shown' = j
  /\ UNCHANGED <<suppressed, checkpoint, open, spent, world, up, volatile,
                 calls, proposed, retries, reported, remembered, moves, stops,
                 faults>>

Read(j) ==            \* ack()
  /\ Decide /\ Free /\ ~gone /\ reports[j].state # "none"
  /\ reports' = [reports EXCEPT ![j].version = @ + 1]
  /\ UNCHANGED <<jobs, suppressed, checkpoint, open, spent, world, up, volatile,
                 history, moves, stops, faults>>
-----------------------------------------------------------------------------
(***************************************************************************)
(* The rest of the program.                                                *)
(***************************************************************************)
Move == moves < MaxMoves /\ moves' = moves + 1

MoveText ==
  /\ Free /\ Move /\ text' = text + 1
  /\ UNCHANGED <<durable, config, granted, change, gone, day, up, volatile,
                 history, stops, faults, decisions>>

MoveConnection ==     \* an edit aborts the calls of the connection
  /\ Free /\ Move /\ granted' = ~granted
  /\ aborted' = (place = "sent")
  /\ UNCHANGED <<durable, config, text, change, gone, day, up, running, place,
                 result, history, stops, faults, decisions>>

MoveMemory(j) ==      \* what was saved is corrected elsewhere
  /\ Free /\ Move /\ reports[j].memory > 0
  /\ reports' = [reports EXCEPT ![j].memory = @ + 1]
  /\ UNCHANGED <<jobs, suppressed, checkpoint, open, spent, world, up, volatile,
                 history, stops, faults, decisions>>

(* An item is edited, or deleted, which hides its text from the sources.   *)
EditItem ==
  /\ Free /\ change < MaxChange /\ change' = change + 1
  /\ UNCHANGED <<durable, config, text, granted, gone, day, up, volatile,
                 history, bounds>>

Purge ==
  /\ Free /\ ~gone /\ Move /\ gone' = TRUE
  /\ \A j \in Job : jobs[j].state \in Ended \cup {"none"}
  /\ reports' = [j \in Job |->
       IF reports[j].state = "none" THEN NoReport
       ELSE [reports[j] EXCEPT !.state = "SUPPRESSED", !.version = @ + 1]]
  /\ jobs' = [j \in Job |-> IF jobs[j].state = "none" THEN NoJob
                            ELSE Ending(jobs[j], "CANCELLED")]
  /\ aborted' = (place = "sent")
  /\ UNCHANGED <<suppressed, checkpoint, open, spent, config, text, granted,
                 change, day, up, running, place, result, history, stops,
                 faults, decisions>>

Midnight ==
  /\ Free /\ day < MaxDay /\ day' = day + 1
  /\ UNCHANGED <<durable, config, text, granted, change, gone, up, volatile,
                 history, bounds>>

Halt ==               \* close() or a crash
  /\ up /\ stops < MaxStops /\ stops' = stops + 1
  /\ up' = FALSE /\ Rest
  /\ UNCHANGED <<durable, world, history, moves, faults, decisions>>

(* Wrong variants: the charge is taken back; the call is made again; the   *)
(* job is left running.                                                    *)
RecoveredRefund(j) ==
  IF jobs[j].state # "RUNNING" THEN jobs[j]
  ELSE [jobs[j] EXCEPT !.state = IF jobs[j].plan THEN "QUEUED"
                                 ELSE "REMOTE_UNKNOWN",
                       !.attempts = @ - 1]
RecoveredAgain(j) ==
  IF jobs[j].state = "RUNNING" THEN [jobs[j] EXCEPT !.state = "QUEUED"]
  ELSE jobs[j]
RecoveredNot(j) == jobs[j]

Recovered(j) ==
  IF jobs[j].state # "RUNNING" THEN jobs[j]
  ELSE [jobs[j] EXCEPT !.state = IF jobs[j].plan THEN "QUEUED"
                                 ELSE "REMOTE_UNKNOWN"]

Restart ==
  /\ ~up /\ up' = TRUE
  /\ jobs' = [j \in Job |-> Recovered(j)]
  /\ open' = [j \in Job |-> IF open[j] = "SENDING" THEN "UNKNOWN" ELSE open[j]]
  /\ UNCHANGED <<reports, suppressed, checkpoint, spent, world, volatile,
                 history, bounds>>
-----------------------------------------------------------------------------
Init ==
  /\ jobs = [j \in Job |-> NoJob] /\ reports = [j \in Job |-> NoReport]
  /\ suppressed = FALSE /\ checkpoint = 0
  /\ open = [j \in Job |-> "none"] /\ spent = [d \in 0..MaxDay |-> 0]
  /\ config = [version |-> 0, enabled |-> FALSE]
  /\ text \in {0, 1} /\ granted = FALSE /\ change = 0 /\ gone = FALSE
  /\ day = 0 /\ up = TRUE
  /\ running = None /\ place = "rest" /\ aborted = FALSE /\ result = "none"
  /\ calls = [j \in Job |-> 0] /\ proposed = [j \in Job |-> 0]
  /\ retries = [j \in Job |-> 0] /\ reported = {}
  /\ remembered = [j \in Job |-> 0] /\ shown = None
  /\ moves = 0 /\ stops = 0 /\ faults = 0 /\ decisions = 0

PumpStep ==
  \/ Tick \/ (\E j \in Job : Execute(j)) \/ Send \/ Judge \/ Propose
  \/ ApplyFails \/ Report

AnswerStep == AnswerLost \/ \E r \in Results : Answer(r)

UserStep ==
  \/ \E enabled \in BOOLEAN : Configure(enabled)
  \/ \E j \in Job : \/ Enqueue(j) \/ Retry(j) \/ Cancel(j) \/ Reject(j) \/ Dispute(j)
                    \/ Save(j) \/ Inspect(j) \/ Read(j)

WorldStep ==
  \/ MoveText \/ MoveConnection \/ EditItem \/ Purge \/ Midnight
  \/ \E j \in Job : MoveMemory(j)

Next == PumpStep \/ AnswerStep \/ UserStep \/ WorldStep \/ Halt \/ Restart

Spec == Init /\ [][Next]_vars

(* The pump's timer is always set again, a section runs to its end, every  *)
(* call has a time limit, and the user starts the program again.           *)
Fairness == WF_vars(PumpStep) /\ WF_vars(AnswerStep) /\ WF_vars(Restart)

FairSpec == Spec /\ Fairness
-----------------------------------------------------------------------------
(* Shapes of the variables.                                                *)
TypeOK ==
  /\ \A j \in Job :
       /\ jobs[j].state \in States /\ jobs[j].done \in 0..jobs[j].slots
       /\ jobs[j].slots \in 0..Slots /\ jobs[j].to \in 0..MaxChange
       /\ reports[j].state \in {"none", "ACTIVE", "STALE", "SUPPRESSED"}
       /\ reports[j].finding \in {"none", "pending", "active", "suppressed", "disputed"}
       /\ open[j] \in {"none", "SENDING", "SETTLED", "UNKNOWN"}
  /\ suppressed \in BOOLEAN /\ checkpoint \in 0..MaxChange
  /\ running \in Job \cup {None} /\ place \in Places

(* No more calls in a day than the budget allows (budget(), execute()).    *)
BudgetHolds == \A d \in 0..MaxDay : spent[d] <= Budget

(* Beyond the first, every call of a job has a retry the user asked for.   *)
NoSecondCallUnasked == \A j \in Job : calls[j] <= 1 + retries[j]

(* Every proposal is made once, however often the job is stopped and       *)
(* resumed, and a report comes only with all of them (apply()).            *)
ReportIsWhole ==
  \A j \in Job :
    /\ proposed[j] = jobs[j].done
    /\ jobs[j].state = "COMPLETED" <=> reports[j].state # "none" /\ ~gone
    /\ reports[j].state # "none" => proposed[j] = jobs[j].slots

(* A change that counts as consumed has been in a report (apply(), the     *)
(* checkpoints).                                                           *)
NoChangeLost == 1..checkpoint \subseteq reported

(* An observation the user has rejected is in no later report, whenever    *)
(* its answer was given (decide(), apply()).                               *)
RejectedNotRebuiltStep ==
  suppressed => \A j \in Job :
    reports[j].finding = "none" => reports'[j].finding = "none"

RejectedNotRebuilt == [][RejectedNotRebuiltStep]_vars

(* What is shown of a report still rests on its sources (inspect()).       *)
ShowsCurrentStep ==
  shown' # shown => Grounded(shown') /\ ~gone

ShowsCurrent == [][ShowsCurrentStep]_vars

(* An observation becomes one memory, which later decisions correct        *)
(* (decide()).                                                             *)
SavedOnce == \A j \in Job : remembered[j] <= 1

(* Proposals and reports are made only while the configuration is enabled  *)
(* in the same version and the sources are what they were (assertJob()).   *)
AppliesCurrentStep ==
  \A j \in Job :
    \/ proposed'[j] # proposed[j]
    \/ reports'[j].state = "ACTIVE" /\ reports[j].state = "none"
    => /\ Grounded(j) /\ config.enabled /\ ~gone
       /\ jobs[j].state # "CANCELLED"

AppliesCurrent == [][AppliesCurrentStep]_vars

(* What is queued is decided and what runs ends, through exits, crashes    *)
(* and lost answers (pump(), the constructor).                             *)
QueuedIsDecided ==
  \A j \in Job : jobs[j].state = "QUEUED" ~> jobs[j].state # "QUEUED"
RunningEnds ==
  \A j \in Job : jobs[j].state = "RUNNING" ~> jobs[j].state # "RUNNING"

(***************************************************************************)
(* The abstract specification this one implements: charge, call, accept.   *)
(* Reports made without a model are none of its business.                  *)
(***************************************************************************)
Promised == INSTANCE WorkPromise WITH
  Work <- Job,
  charged <- [j \in Job |-> jobs[j].attempts],
  called <- calls,
  accepted <- {j \in Job : reports[j].called},
  dropped <- {}

(* Every call is charged before it is made, and a job has one result,      *)
(* after a call of its own.                                                *)
KeepsWorkPromise == Promised!Promise
==============================================================================
