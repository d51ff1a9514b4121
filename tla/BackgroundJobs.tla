---------------------------- MODULE BackgroundJobs ----------------------------
(***************************************************************************)
(* Background chapters: background-service.ts with the checks of           *)
(* background-sources.ts, for one assistant.  Each completed round of the  *)
(* timeline becomes a job; a job is charged, sent to a model, and its      *)
(* candidate is accepted as a memory and a chapter in one transaction.     *)
(*                                                                         *)
(* A section of the pump runs from one await to the next; "place" says     *)
(* where it is.  Between its commits only it can run ("Free" is false),    *)
(* but the process can die there.                                          *)
(***************************************************************************)
EXTENDS Integers, FiniteSets

CONSTANTS
  Round,         \* completed rounds, in the order of the timeline
  Budget,        \* calls a day allows
  AttemptLimit,  \* attempts of a job after which no retry is accepted
  MaxDay,        \* bound: days, 0..MaxDay
  MaxConfig,     \* bound: versions of the configuration
  MaxMoves,      \* bound: changes of sources, grants and connections
  MaxRetries,    \* bound: explicit retries of one job
  MaxStops,      \* bound: exits and crashes
  MaxFaults,     \* bound: storage errors
  None

Blocked == {"STALE", "CONFIGURATION_BLOCKED", "PERMISSION_BLOCKED",
            "FAILED_CONFIRMED"}
Retryable == Blocked \cup {"QUEUED", "BUDGET_PAUSED"}
States == Retryable \cup {"NONE", "RUNNING", "REMOTE_UNKNOWN", "COMPLETED",
                          "CANCELLED"}
Attempt == 1..AttemptLimit
Results == {"good", "malformed", "failed", "unknown"}
Places == {"rest", "scanned", "reserved", "sent", "answered", "accepting",
           "intent"}

ASSUME JobAssumption ==
  /\ Round \subseteq Nat /\ IsFiniteSet(Round)
  /\ AttemptLimit \in Nat \ {0}
  /\ \A n \in {Budget, MaxDay, MaxConfig, MaxMoves, MaxRetries, MaxStops,
               MaxFaults} : n \in Nat
  /\ None \notin Round

VARIABLES
  jobs,       \* durable: background_jobs
  attempts,   \* durable: background_attempts of each job, with their day
  chapters,   \* durable: background_chapters
  commands,   \* durable: the memory command of each job
  config,     \* durable: background_configs
  source,     \* durable: what roundSource() and assertRoundSources() see
  grant,      \* durable: the recipient is authorized
  identity,   \* durable: the version of the recipient's connection
  gone,       \* durable: the assistant has been deleted for good
  day,        \* the UTC day
  up,         \* the service runs
  running,    \* volatile: the job in the running map
  place,      \* volatile: where its execution is
  seen,       \* volatile: the identity it was checked with
  aborted,    \* volatile: its controller
  answer,     \* volatile: the answer it holds
  sent,       \* history: calls made for each job
  retries,    \* history: explicit retries of each job
  moves, stops, faults   \* bound counters

durable == <<jobs, attempts, chapters, commands>>
world == <<config, source, grant, identity, gone, day>>
volatile == <<running, place, seen, aborted, answer>>
history == <<sent, retries>>
bounds == <<moves, stops, faults>>
vars == <<durable, world, up, volatile, history, bounds>>

NoAttempt == [state |-> "NONE", day |-> 0]
NoJob == [state |-> "NONE", attempts |-> 0, config |-> 0, digest |-> 0,
          candidate |-> 0]

Free == up /\ place \in {"rest", "sent"}

-----------------------------------------------------------------------------
(***************************************************************************)
(* What a job is checked against, in the order of current() and            *)
(* authority().  The result is the state a failure leaves the job in.      *)
(***************************************************************************)
Authority ==
  CASE gone -> "PERMISSION_BLOCKED"
    [] ~gone /\ ~config.enabled -> "CONFIGURATION_BLOCKED"
    [] ~gone /\ config.enabled /\ ~grant -> "PERMISSION_BLOCKED"
    [] OTHER -> "ok"

Source(r) ==          \* roundSource(), compared with the digest of the job
  CASE ~source[r].readable -> "PERMISSION_BLOCKED"
    [] source[r].readable /\ source[r].text # jobs[r].digest -> "STALE"
    [] source[r].readable /\ source[r].text = jobs[r].digest
         /\ ~source[r].usable -> "FAILED_CONFIRMED"   \* a MemoryError
    [] OTHER -> "ok"

(* Wrong variant: an answer is used although its source has changed.       *)
CurrentOnce(r, started) ==
  IF started THEN "ok" ELSE IF config.version # jobs[r].config THEN "STALE"
  ELSE IF Authority # "ok" THEN Authority ELSE Source(r)

Current(r, started) ==
  CASE aborted \/ jobs[r].state \notin {"RUNNING", "QUEUED"} -> "STALE"
    [] ~aborted /\ jobs[r].state \in {"RUNNING", "QUEUED"} ->
       IF config.version # jobs[r].config THEN "STALE"
       ELSE IF Authority # "ok" THEN Authority
       ELSE IF started /\ seen # identity THEN "PERMISSION_BLOCKED"
       ELSE Source(r)

Charges(d) ==         \* the rows of background_attempts of a day
  {c \in Round \X Attempt :
     attempts[c[1]][c[2]].state # "NONE" /\ attempts[c[1]][c[2]].day = d}

Calls(d) == Cardinality(Charges(d))            \* usage()

(* Wrong variant: counts what has been answered, not what was charged.     *)
ExhaustedSettled ==
  Cardinality({c \in Charges(day) : attempts[c[1]][c[2]].state = "SETTLED"}) >= Budget

Exhausted == Calls(day) >= Budget

Stop(r, state) == jobs' = [jobs EXCEPT ![r].state = state]

Rest ==
  /\ running' = None /\ place' = "rest" /\ seen' = 0
  /\ aborted' = FALSE /\ answer' = "none"

Goto(p) == place' = p /\ UNCHANGED <<running, seen, aborted, answer>>
-----------------------------------------------------------------------------
(***************************************************************************)
(* The pump: scan() makes a job of every round that has none, then the     *)
(* first queued job is executed.                                           *)
(***************************************************************************)
Sound(r) == Authority = "ok" /\ source[r].readable /\ source[r].usable

Scanned ==
  [r \in Round |->
     IF jobs[r].state # "NONE" THEN jobs[r]
     ELSE [NoJob EXCEPT
             !.state = IF Sound(r) THEN "QUEUED" ELSE "PERMISSION_BLOCKED",
             !.config = config.version,
             !.digest = IF Sound(r) THEN source[r].text ELSE 0]]

Scan == jobs' = IF config.enabled /\ ~gone THEN Scanned ELSE jobs

Pump ==
  /\ up /\ place = "rest"
  /\ Scan
  /\ place' = "scanned"
  /\ UNCHANGED <<attempts, chapters, commands, world, up, running, seen,
                 aborted, answer, history, bounds>>

(* Wrong variant: jobs of an earlier configuration are passed over.        *)
QueuedNow ==
  {r \in Round : jobs[r].state = "QUEUED" /\ jobs[r].config = config.version}

(* SELECT ... WHERE state='QUEUED' ORDER BY rowid LIMIT 1                  *)
Queued == {r \in Round : jobs[r].state = "QUEUED"}

NothingQueued ==
  /\ up /\ place = "scanned" /\ Queued = {}
  /\ Goto("rest")
  /\ UNCHANGED <<durable, world, up, history, bounds>>

Charged(r) ==
  /\ jobs' = [jobs EXCEPT ![r].state = "RUNNING", ![r].attempts = @ + 1]
  /\ attempts' = [attempts EXCEPT ![r][jobs[r].attempts + 1] =
                    [state |-> "SENDING", day |-> day]]

Execute ==            \* execute(), up to its first commit
  /\ up /\ place = "scanned" /\ Queued # {}
  /\ LET r == CHOOSE q \in Queued : \A p \in Queued : q <= p
         code == Current(r, FALSE)
     IN \/ /\ code # "ok"
           /\ Stop(r, code)
           /\ UNCHANGED attempts
           /\ Rest
        \/ /\ code = "ok" /\ jobs[r].candidate # 0
           /\ Stop(r, "RUNNING")
           /\ UNCHANGED attempts
           /\ running' = r /\ seen' = identity /\ place' = "accepting"
           /\ UNCHANGED <<aborted, answer>>
        \/ /\ code = "ok" /\ jobs[r].candidate = 0 /\ Exhausted
           /\ Stop(r, "BUDGET_PAUSED")
           /\ UNCHANGED attempts
           /\ Rest
        \/ /\ code = "ok" /\ jobs[r].candidate = 0 /\ ~Exhausted
           /\ Charged(r)
           /\ running' = r /\ seen' = identity /\ place' = "reserved"
           /\ UNCHANGED <<aborted, answer>>
  /\ UNCHANGED <<chapters, commands, world, up, history, bounds>>

Send ==               \* the call goes out; the pump awaits its answer
  /\ up /\ place = "reserved"
  /\ sent' = [sent EXCEPT ![running] = @ + 1]
  /\ Goto("sent")
  /\ UNCHANGED <<durable, world, up, retries, bounds>>

-----------------------------------------------------------------------------
(***************************************************************************)
(* The answer.  Whatever it is, it settles the attempt first; a rejected   *)
(* promise (the usage record cannot be written) leaves it unknown, unless  *)
(* the job was cancelled.                                                  *)
(***************************************************************************)
Last(r) == jobs[r].attempts

Answer(result) ==
  /\ up /\ place = "sent"
  /\ attempts' = [attempts EXCEPT ![running][Last(running)].state = "SETTLED"]
  /\ answer' = result /\ place' = "answered"
  /\ UNCHANGED <<jobs, chapters, commands, world, up, running, seen, aborted,
                 history, bounds>>

(* Wrong variant: the catch block forgets that the job was cancelled.      *)
OverDone(r) == jobs[r].state = "COMPLETED"

Over(r) == jobs[r].state \in {"COMPLETED", "CANCELLED"}

AnswerLost ==
  /\ up /\ place = "sent"
  /\ faults < MaxFaults /\ faults' = faults + 1
  /\ LET r == running
     IN IF Over(r) THEN UNCHANGED <<jobs, attempts>>
        ELSE /\ Stop(r, "REMOTE_UNKNOWN")
             /\ attempts' = [attempts EXCEPT ![r][Last(r)].state = "UNKNOWN"]
  /\ Rest
  /\ UNCHANGED <<chapters, commands, world, up, history, moves, stops>>

(* The catch block of execute().                                           *)
Fail(r, state) ==
  /\ IF Over(r) THEN UNCHANGED jobs ELSE Stop(r, state)
  /\ Rest

Verdict ==
  CASE answer = "malformed" -> "FAILED_CONFIRMED"
    [] answer = "failed"    -> "FAILED_CONFIRMED"
    [] OTHER                -> "REMOTE_UNKNOWN"

Judge ==
  /\ up /\ place = "answered"
  /\ LET r == running
         code == Current(r, TRUE)
     IN \/ code # "ok" /\ Fail(r, code)
        \/ code = "ok" /\ answer # "good" /\ Stop(r, Verdict) /\ Rest
        \/ /\ code = "ok" /\ answer = "good"
           /\ jobs' = [jobs EXCEPT ![r].candidate = jobs[r].digest]
           /\ Goto("accepting")
  /\ UNCHANGED <<attempts, chapters, commands, world, up, history, bounds>>

(***************************************************************************)
(* acceptCandidate(): the row of the memory command, the file, and one     *)
(* transaction for memory, command, chapter and job.                       *)
(***************************************************************************)
Intent ==
  /\ up /\ place = "accepting"
  /\ commands' = [commands EXCEPT ![running] = "PREPARED"]
  /\ Goto("intent")
  /\ UNCHANGED <<jobs, attempts, chapters, world, up, history, bounds>>

(* Wrong variant: the chapter is written when the memory is committed.     *)
AcceptApart ==
  /\ up /\ place = "intent"
  /\ commands' = [commands EXCEPT ![running] = "SUCCEEDED"]
  /\ jobs' = [jobs EXCEPT ![running].state = "COMPLETED",
                          ![running].candidate = 0]
  /\ Rest
  /\ UNCHANGED <<chapters, attempts, world, up, history, bounds>>

Accept ==
  /\ up /\ place = "intent"
  /\ commands' = [commands EXCEPT ![running] = "SUCCEEDED"]
  /\ chapters' = chapters \cup {running}
  /\ jobs' = [jobs EXCEPT ![running].state = "COMPLETED",
                          ![running].candidate = 0]
  /\ Rest
  /\ UNCHANGED <<attempts, world, up, history, bounds>>

AcceptFault ==        \* file or transaction fail: backgroundMutation() rolls on
  /\ up /\ place = "intent"
  /\ faults < MaxFaults /\ faults' = faults + 1
  /\ commands' = [commands EXCEPT ![running] = "NOT_APPLIED"]
  /\ Fail(running, "FAILED_CONFIRMED")
  /\ UNCHANGED <<attempts, chapters, world, up, history, moves, stops>>

-----------------------------------------------------------------------------
(***************************************************************************)
(* The user: configure(), run(), control().  A request that names another  *)
(* version than the current one is refused, as is a repeated command.      *)
(***************************************************************************)
Configure(enabled, granted) ==
  /\ Free /\ ~gone /\ config.version < MaxConfig
  /\ enabled => granted \/ grant
  /\ grant' = (grant \/ granted)
  /\ config' = [version |-> config.version + 1, enabled |-> enabled]
  /\ aborted' = (place = "sent")
  /\ UNCHANGED <<durable, source, identity, gone, day, up, running, place,
                 seen, answer, history, bounds>>

Run ==                \* scan() first; what the budget had stopped is queued
  /\ Free /\ Authority = "ok"
  /\ LET found == Scanned
     IN jobs' = [r \in Round |-> IF found[r].state = "BUDGET_PAUSED"
                                 THEN [found[r] EXCEPT !.state = "QUEUED"]
                                 ELSE found[r]]
  /\ UNCHANGED <<attempts, chapters, commands, world, up, volatile, history,
                 bounds>>

Cancel(r) ==
  /\ Free /\ ~gone /\ jobs[r].state \notin {"NONE", "COMPLETED"}
  /\ Stop(r, "CANCELLED")
  /\ aborted' = (aborted \/ running = r)
  /\ UNCHANGED <<attempts, chapters, commands, world, up, running, place,
                 seen, answer, history, bounds>>

Inspect(r) ==         \* a chapter that was accepted completes its job
  /\ Free /\ ~gone /\ r \in chapters
  /\ Stop(r, "COMPLETED")
  /\ UNCHANGED <<attempts, chapters, commands, world, up, volatile, history,
                 bounds>>

(* A blocked job had no digest yet: it takes the present source.           *)
Requeued(r) ==
  [jobs[r] EXCEPT !.state = "QUEUED", !.config = config.version,
                  !.digest = source[r].text]

(* Wrong variant: forgets how often the job was tried.                     *)
MayRetryAlways(r) == jobs[r].state \in Retryable \cup {"REMOTE_UNKNOWN"}

MayRetry(r) ==
  /\ jobs[r].attempts < AttemptLimit
  /\ jobs[r].state \in Retryable \cup {"REMOTE_UNKNOWN"}

Retry(r) ==
  /\ Free /\ MayRetry(r) /\ retries[r] < MaxRetries
  /\ Authority = "ok" /\ source[r].readable
  /\ IF jobs[r].digest = 0 THEN source[r].usable
                           ELSE source[r].text = jobs[r].digest
  /\ jobs' = [jobs EXCEPT ![r] = Requeued(r)]
  /\ retries' = [retries EXCEPT ![r] = @ + 1]
  /\ UNCHANGED <<attempts, chapters, commands, world, up, volatile, sent,
                 bounds>>

(***************************************************************************)
(* The rest of the program: a source is edited, withdrawn or restored, a   *)
(* grant is given or taken, a connection is edited (which aborts), data    *)
(* governance aborts, the assistant is deleted once nothing runs.          *)
(***************************************************************************)
Move == moves < MaxMoves /\ moves' = moves + 1

MoveSource(r) ==
  /\ Free /\ Move
  /\ \/ source' = [source EXCEPT ![r].text = @ + 1]
     \/ source' = [source EXCEPT ![r].readable = ~@]
     \/ source' = [source EXCEPT ![r].usable = ~@]
  /\ UNCHANGED <<durable, config, grant, identity, gone, day, up, volatile,
                 history, stops, faults>>

MoveGrant ==
  /\ Free /\ Move
  /\ grant' = ~grant
  /\ UNCHANGED <<durable, config, source, identity, gone, day, up, volatile,
                 history, stops, faults>>

MoveConnection ==
  /\ Free /\ Move
  /\ identity' = identity + 1
  /\ aborted' = (place = "sent")
  /\ UNCHANGED <<durable, config, source, grant, gone, day, up, running,
                 place, seen, answer, history, stops, faults>>

Govern ==
  /\ Free /\ place = "sent" /\ ~aborted
  /\ aborted' = TRUE
  /\ UNCHANGED <<durable, world, up, running, place, seen, answer, history,
                 bounds>>

Purge ==              \* purgeAssistant(), once inspectAssistant() is content
  /\ Free /\ ~gone /\ Move
  /\ \A r \in Round : jobs[r].state # "RUNNING"
  /\ gone' = TRUE
  /\ chapters' = {}
  /\ jobs' = [r \in Round |->
                IF jobs[r].state = "NONE" THEN NoJob
                ELSE [jobs[r] EXCEPT !.state = "CANCELLED", !.candidate = 0]]
  /\ aborted' = (place = "sent")
  /\ UNCHANGED <<attempts, commands, config, source, grant, identity, day,
                 up, running, place, seen, answer, history, stops, faults>>

Midnight ==
  /\ Free /\ day < MaxDay /\ day' = day + 1
  /\ UNCHANGED <<durable, config, source, grant, identity, gone, up,
                 volatile, history, bounds>>

(***************************************************************************)
(* close() leaves the same traces as a crash: an answer that comes after   *)
(* it is not looked at.  The start reconciles memory commands, jobs and    *)
(* attempts before the pump runs.                                          *)
(***************************************************************************)
Halt ==
  /\ up /\ stops < MaxStops /\ stops' = stops + 1
  /\ up' = FALSE
  /\ Rest
  /\ UNCHANGED <<durable, world, history, moves, faults>>

(* Wrong variants: what was running is done again, or left running.        *)
RecoveredAgain(r) ==
  IF jobs[r].state # "RUNNING" THEN jobs[r]
  ELSE [jobs[r] EXCEPT !.state = "QUEUED"]
RecoveredNot(r) == jobs[r]

Recovered(r) ==
  IF jobs[r].state # "RUNNING" THEN jobs[r]
  ELSE [jobs[r] EXCEPT !.state = IF r \in chapters THEN "COMPLETED"
                                                   ELSE "REMOTE_UNKNOWN"]

(* Wrong variants: an attempt without an answer is given back, or left.    *)
ForgottenAttempt(a) == IF a.state = "SENDING" THEN NoAttempt ELSE a
AttemptLeft(a) == a

UnknownAttempt(a) ==
  IF a.state = "SENDING" THEN [a EXCEPT !.state = "UNKNOWN"] ELSE a

Restart ==
  /\ ~up /\ up' = TRUE
  /\ commands' = [r \in Round |-> IF commands[r] = "PREPARED"
                                  THEN "NOT_APPLIED" ELSE commands[r]]
  /\ jobs' = [r \in Round |-> Recovered(r)]
  /\ attempts' = [r \in Round |-> [n \in Attempt |->
                    UnknownAttempt(attempts[r][n])]]
  /\ UNCHANGED <<chapters, world, volatile, history, bounds>>

-----------------------------------------------------------------------------
Init ==
  /\ jobs = [r \in Round |-> NoJob]
  /\ attempts = [r \in Round |-> [n \in Attempt |-> NoAttempt]]
  /\ chapters = {}
  /\ commands = [r \in Round |-> "NONE"]
  /\ config = [version |-> 0, enabled |-> FALSE]
  /\ source = [r \in Round |-> [text |-> 1, readable |-> TRUE, usable |-> TRUE]]
  /\ grant = FALSE /\ identity = 1 /\ gone = FALSE /\ day = 0
  /\ up = TRUE
  /\ running = None /\ place = "rest" /\ seen = 0 /\ aborted = FALSE
  /\ answer = "none"
  /\ sent = [r \in Round |-> 0] /\ retries = [r \in Round |-> 0]
  /\ moves = 0 /\ stops = 0 /\ faults = 0

PumpStep ==
  \/ Pump \/ NothingQueued \/ Execute \/ Send
  \/ Judge \/ Intent \/ Accept \/ AcceptFault

AnswerStep == AnswerLost \/ \E result \in Results : Answer(result)

UserStep ==
  \/ \E enabled, granted \in BOOLEAN : Configure(enabled, granted)
  \/ Run
  \/ \E r \in Round : Cancel(r) \/ Inspect(r) \/ Retry(r)

WorldStep ==
  \/ \E r \in Round : MoveSource(r)
  \/ MoveGrant \/ MoveConnection \/ Govern \/ Purge \/ Midnight

Next == PumpStep \/ AnswerStep \/ UserStep \/ WorldStep \/ Halt \/ Restart

Spec == Init /\ [][Next]_vars

(* The pump is driven by a timer that it always sets again, a section runs *)
(* to its end, every call has a time limit, and the user starts the        *)
(* program again.                                                          *)
Fairness == WF_vars(PumpStep) /\ WF_vars(AnswerStep) /\ WF_vars(Restart)

FairSpec == Spec /\ Fairness
-----------------------------------------------------------------------------
(* Shapes of the variables.                                                *)
JobRow == [state : States, attempts : 0..AttemptLimit, config : Nat,
           digest : Nat, candidate : Nat]
AttemptRow == [state : {"NONE", "SENDING", "SETTLED", "UNKNOWN"}, day : Nat]
SourceRow == [text : Nat \ {0}, readable : BOOLEAN, usable : BOOLEAN]

JobsOK == jobs \in [Round -> JobRow]
AttemptsOK == attempts \in [Round -> [Attempt -> AttemptRow]]
LedgerOK ==
  /\ chapters \subseteq Round
  /\ commands \in [Round -> {"NONE", "PREPARED", "NOT_APPLIED", "SUCCEEDED"}]
WorldOK ==
  /\ config \in [version : Nat, enabled : BOOLEAN]
  /\ source \in [Round -> SourceRow]
  /\ grant \in BOOLEAN /\ identity \in Nat /\ gone \in BOOLEAN /\ day \in Nat
PumpOK ==
  /\ up \in BOOLEAN
  /\ running \in Round \cup {None}
  /\ place \in Places
  /\ seen \in Nat /\ aborted \in BOOLEAN
  /\ answer \in Results \cup {"none"}
CountsOK ==
  /\ sent \in [Round -> Nat] /\ retries \in [Round -> Nat]
  /\ moves \in Nat /\ stops \in Nat /\ faults \in Nat

TypeOK == JobsOK /\ AttemptsOK /\ LedgerOK /\ WorldOK /\ PumpOK /\ CountsOK

(* No day has more calls charged than the budget allows, and no call is    *)
(* made that is not charged, whatever was lost, retried or cancelled       *)
(* (usage(), the reservation in execute()).                                *)
BudgetHolds ==
  /\ \A d \in 0..MaxDay : Calls(d) <= Budget
  /\ \A r \in Round : sent[r] <= Cardinality(
       {n \in Attempt : attempts[r][n].state # "NONE"})

(* Nothing is paid for twice on its own account: beyond the first, every   *)
(* call of a job has a retry the user asked for (recovery in the           *)
(* constructor, control()).                                                *)
NoSecondCallUnasked == \A r \in Round : sent[r] <= 1 + retries[r]

(* Memory, chapter and job were committed together, at most once a job,    *)
(* and the chapter has been paid for (commitReceipt()).                    *)
ChapterIsWhole ==
  \A r \in Round :
    /\ r \in chapters <=> jobs[r].state = "COMPLETED"
    /\ r \in chapters => commands[r] = "SUCCEEDED" /\ sent[r] > 0
    /\ commands[r] = "SUCCEEDED" => r \in chapters \/ gone

(* While the service runs, an attempt waits for its answer, or its job was *)
(* cancelled and the answer lost (the catch block of execute()); and a job *)
(* is RUNNING only while the pump holds it.                                *)
OpenIsHeld ==
  up => \A r \in Round :
    /\ \A n \in Attempt : attempts[r][n].state = "SENDING" =>
         running = r \/ jobs[r].state = "CANCELLED"
    /\ jobs[r].state = "RUNNING" => running = r

(* A chapter is accepted only from a candidate whose source, configuration *)
(* and recipient are still those its call was made with (current()).       *)
AcceptsCurrentStep ==
  \A r \in chapters' \ chapters :
    /\ jobs[r].candidate = source[r].text /\ source[r].readable
    /\ source[r].usable
    /\ jobs[r].config = config.version /\ config.enabled /\ grant
    /\ seen = identity /\ ~gone

AcceptsCurrent == [][AcceptsCurrentStep]_vars

(* A cancelled job is never taken up again (control(), purgeAssistant()).  *)
CancelledStaysStep ==
  \A r \in Round : jobs[r].state = "CANCELLED" =>
    jobs'[r].state = "CANCELLED" /\ sent'[r] = sent[r]

CancelledStays == [][CancelledStaysStep]_vars

(* Whatever is queued is decided, and whatever runs ends, through exits,   *)
(* crashes and lost answers (pump(), the constructor).                     *)
QueuedIsDecided ==
  \A r \in Round : jobs[r].state = "QUEUED" ~> jobs[r].state # "QUEUED"
RunningEnds ==
  \A r \in Round : jobs[r].state = "RUNNING" ~> jobs[r].state # "RUNNING"

(***************************************************************************)
(* The abstract specification this one implements.                         *)
(***************************************************************************)
AttemptsOf(r) == Cardinality({n \in Attempt : attempts[r][n].state # "NONE"})

Promised == INSTANCE WorkPromise WITH
  Work <- Round,
  charged <- [r \in Round |-> jobs[r].attempts],
  called <- sent,
  accepted <- chapters,
  dropped <- {r \in Round : jobs[r].state = "CANCELLED"}

(* Every charge, call, chapter and cancelled job is one step of the        *)
(* promise.                                                                *)
KeepsWorkPromise == Promised!Promise
==============================================================================
