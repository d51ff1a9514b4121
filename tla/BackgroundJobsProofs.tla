------------------------- MODULE BackgroundJobsProofs -------------------------
(***************************************************************************)
(* Proofs about BackgroundJobs, for every set of rounds, budget, number of *)
(* attempts, days, configurations, exits and faults.                       *)
(***************************************************************************)
EXTENDS BackgroundJobs, TLAPS, FiniteSetTheorems, WellFoundedInduction

USE DEF Blocked, Retryable, States, Attempt, Results, Places

(* A non-empty set of numbers has a least one.                             *)
LEMMA LeastExists ==
  ASSUME NEW S, S \subseteq Nat, S # {}
  PROVE  \E x \in S : \A y \in S : x <= y
<1>1. PICK x \in S : \A y \in S : ~ (<<y, x>> \in OpToRel(<, Nat))
  BY NatLessThanWellFounded, WFMin, Zenon
<1>2. ASSUME NEW y \in S PROVE x <= y
  <2>1. y < x => <<y, x>> \in OpToRel(<, Nat)
    BY SMT DEF OpToRel
  <2>2. ~ (y < x)
    BY <1>1, <2>1, Zenon
  <2>3. QED
    BY <2>2
<1>3. QED
  BY <1>2

(* What a check says of a job: that all is well, or how it is blocked.     *)
LEMMA CurrentValues ==
  ASSUME NEW r, NEW started
  PROVE  Current(r, started) \in Blocked \cup {"ok"}
<1>1. Authority \in Blocked \cup {"ok"}
  BY DEF Authority
<1>2. Source(r) \in Blocked \cup {"ok"}
  BY DEF Source
<1>3. QED
  BY <1>1, <1>2 DEF Current

(* What the check of a job that is well has found.                         *)
LEMMA CurrentOk ==
  ASSUME NEW r \in Round, NEW started \in BOOLEAN,
         Current(r, started) = "ok", TypeOK
  PROVE  /\ jobs[r].state \in {"RUNNING", "QUEUED"} /\ ~aborted
         /\ config.version = jobs[r].config
         /\ ~gone /\ config.enabled /\ grant
         /\ started => seen = identity
         /\ source[r].readable /\ source[r].usable
         /\ source[r].text = jobs[r].digest
<1>1. /\ jobs[r].state \in {"RUNNING", "QUEUED"} /\ ~aborted
      /\ config.version = jobs[r].config /\ Authority = "ok"
      /\ started => seen = identity
      /\ Source(r) = "ok"
  BY DEF Current
<1>2. ~gone /\ config.enabled /\ grant
  BY <1>1 DEF Authority, TypeOK
<1>3. /\ source[r].readable /\ source[r].usable
      /\ source[r].text = jobs[r].digest
  BY <1>1 DEF Source, TypeOK
<1>4. QED
  BY <1>1, <1>2, <1>3

(* The pump takes the first queued job.                                    *)
LEMMA FirstQueued ==
  ASSUME Queued # {}
  PROVE  (CHOOSE q \in Queued : \A p \in Queued : q <= p) \in Queued
<1>1. Queued \subseteq Nat
  BY JobAssumption DEF Queued
<1>2. \E q \in Queued : \A p \in Queued : q <= p
  BY <1>1, LeastExists
<1>3. QED
  BY <1>2

(* What execute() does up to its first commit, of the job it has taken.    *)
Taken(r) ==
  /\ jobs[r].state = "QUEUED"
  /\ up /\ place = "scanned"
  /\ \/ \E code \in Blocked : Stop(r, code) /\ UNCHANGED attempts /\ Rest
     \/ /\ Current(r, FALSE) = "ok" /\ jobs[r].candidate # 0
        /\ Stop(r, "RUNNING") /\ UNCHANGED attempts
        /\ running' = r /\ seen' = identity /\ place' = "accepting"
        /\ UNCHANGED <<aborted, answer>>
     \/ /\ Stop(r, "BUDGET_PAUSED") /\ UNCHANGED attempts /\ Rest
     \/ /\ Current(r, FALSE) = "ok" /\ jobs[r].candidate = 0
        /\ ~Exhausted /\ Charged(r)
        /\ running' = r /\ seen' = identity /\ place' = "reserved"
        /\ UNCHANGED <<aborted, answer>>
  /\ UNCHANGED <<chapters, commands, world, up, history, bounds>>

(* The pump does so with the first queued job.                             *)
LEMMA ExecuteTakes ==
  ASSUME Execute, TypeOK
  PROVE  \E r \in Round : Taken(r)
<1> DEFINE r == CHOOSE q \in Queued : \A p \in Queued : q <= p
<1>1. r \in Round /\ jobs[r].state = "QUEUED"
  BY FirstQueued DEF Execute, Queued
<1>2. Current(r, FALSE) \in Blocked \cup {"ok"}
  BY CurrentValues
<1> HIDE DEF r
<1>3. QED
  BY <1>1, <1>2 DEF Execute, Taken, r

(***************************************************************************)
(* Which steps touch which variables.                                      *)
(***************************************************************************)
(* Jobs.                                                                   *)
LEMMA JobsFrame ==
  ASSUME [Next]_vars
  PROVE  \/ UNCHANGED jobs
         \/ Pump \/ Execute \/ Judge \/ Accept \/ AcceptFault \/ AnswerLost
         \/ Run \/ Purge \/ Restart
         \/ (\E r \in Round : Cancel(r) \/ Inspect(r) \/ Retry(r))
BY DEF Next, PumpStep, AnswerStep, UserStep, WorldStep, vars, durable,
     world, volatile, history, bounds, NothingQueued, Goto, Send, Intent,
     Answer, Last, Configure, Free, MoveSource, Move, MoveGrant,
     MoveConnection, Govern, Midnight, Halt, Rest

(* Attempts.                                                               *)
LEMMA AttemptsFrame ==
  ASSUME [Next]_vars
  PROVE  \/ UNCHANGED attempts
         \/ Execute \/ AnswerLost
         \/ (\E result \in Results : Answer(result)) \/ Restart
BY DEF Next, PumpStep, AnswerStep, UserStep, WorldStep, vars, durable,
     world, volatile, history, bounds, Pump, Scan, Scanned, NothingQueued,
     Goto, Send, Judge, Fail, Stop, Rest, Over, Intent, Accept, AcceptFault,
     Configure, Free, Run, Cancel, Inspect, Retry, MayRetry, Requeued,
     MoveSource, Move, MoveGrant, MoveConnection, Govern, Purge, Midnight,
     Halt

(* Chapters and commands.                                                 *)
LEMMA LedgerFrame ==
  ASSUME [Next]_vars
  PROVE  \/ UNCHANGED <<chapters, commands>>
         \/ Intent \/ Accept \/ AcceptFault \/ Purge \/ Restart
BY DEF Next, PumpStep, AnswerStep, UserStep, WorldStep, vars, durable,
     world, volatile, history, bounds, Pump, Scan, Scanned, NothingQueued,
     Goto, Execute, Stop, Rest, Charged, Send, Judge, Fail, Over,
     AnswerLost, Last, Answer, Configure, Free, Run, Cancel, Inspect, Retry,
     MayRetry, Requeued, MoveSource, Move, MoveGrant, MoveConnection,
     Govern, Midnight, Halt

(* What jobs are checked against.                                          *)
LEMMA WorldFrame ==
  ASSUME [Next]_vars
  PROVE  \/ UNCHANGED world
         \/ (\E enabled, granted \in BOOLEAN : Configure(enabled, granted))
         \/ MoveGrant \/ MoveConnection \/ Purge \/ Midnight
         \/ (\E r \in Round : MoveSource(r))
BY DEF Next, PumpStep, AnswerStep, UserStep, WorldStep, vars, durable,
     world, volatile, history, bounds, Pump, Scan, Scanned, NothingQueued,
     Goto, Execute, Stop, Rest, Charged, Send, Judge, Fail, Over, Intent,
     Accept, AcceptFault, AnswerLost, Last, Answer, Run, Free, Cancel,
     Inspect, Retry, MayRetry, Requeued, Govern, Halt, Restart, Recovered,
     UnknownAttempt

(* The pump.                                                               *)
LEMMA PumpFrame ==
  ASSUME [Next]_vars
  PROVE  \/ UNCHANGED <<up, volatile>>
         \/ Pump \/ NothingQueued \/ Execute \/ Send \/ Judge \/ Intent
         \/ Accept \/ AcceptFault \/ AnswerLost
         \/ (\E result \in Results : Answer(result))
         \/ (\E enabled, granted \in BOOLEAN : Configure(enabled, granted))
         \/ MoveConnection \/ Govern \/ Purge \/ Halt \/ Restart
         \/ (\E r \in Round : Cancel(r))
BY DEF Next, PumpStep, AnswerStep, UserStep, WorldStep, vars, durable,
     world, volatile, history, bounds, Run, Scanned, Free, Inspect, Stop,
     Retry, MayRetry, Requeued, MoveSource, Move, MoveGrant, Midnight

(* Calls, retries and bounds.                                              *)
LEMMA CountsFrame ==
  ASSUME [Next]_vars
  PROVE  \/ UNCHANGED <<history, bounds>>
         \/ Send \/ AcceptFault \/ AnswerLost \/ MoveGrant
         \/ MoveConnection \/ Purge \/ Halt
         \/ (\E r \in Round : Retry(r) \/ MoveSource(r))
BY DEF Next, PumpStep, AnswerStep, UserStep, WorldStep, vars, durable,
     world, volatile, history, bounds, Pump, Scan, Scanned, NothingQueued,
     Goto, Execute, Stop, Rest, Charged, Judge, Fail, Over, Intent, Accept,
     Answer, Last, Configure, Free, Run, Cancel, Inspect, Govern, Midnight,
     Restart, Recovered, UnknownAttempt

(***************************************************************************)
(* The inductive invariant.                                                *)
(***************************************************************************)
(* Attempts are numbered without gaps, calls made are attempts charged,    *)
(* and a job that may be charged again has been asked for as often.        *)
NumberedAt(r) ==
  /\ \A n \in Attempt : attempts[r][n].state # "NONE" <=> n <= jobs[r].attempts
  /\ sent[r] <= jobs[r].attempts /\ jobs[r].attempts <= 1 + retries[r]
  /\ jobs[r].state \in {"NONE", "QUEUED", "BUDGET_PAUSED"} =>
       jobs[r].attempts < AttemptLimit /\ jobs[r].attempts <= retries[r]
  /\ jobs[r].state = "NONE" => jobs[r].attempts = 0

Numbered == \A r \in Round : NumberedAt(r)

(* What is known of the job the pump holds, given where its execution is.  *)
Held ==
  /\ running = None <=> place \in {"rest", "scanned"}
  /\ ~up => place = "rest"
  /\ place \in {"rest", "scanned"} => ~aborted
  /\ place \in {"sent", "answered"} =>
       jobs[running].state \in {"RUNNING", "CANCELLED"} /\ sent[running] > 0
  /\ place = "reserved" =>
       jobs[running].state = "RUNNING" /\ sent[running] < jobs[running].attempts
  /\ place \in {"accepting", "intent"} =>
       jobs[running].state = "RUNNING" /\ sent[running] > 0

(* A candidate was made from the source the job names, by a call.          *)
Candidates ==
  \A r \in Round : jobs[r].candidate # 0 =>
    jobs[r].candidate = jobs[r].digest /\ sent[r] > 0

(* Between its last check and its commit nothing a job was checked against *)
(* can change.                                                             *)
Checked ==
  place \in {"accepting", "intent"} =>
    /\ jobs[running].candidate = jobs[running].digest
    /\ jobs[running].config = config.version
    /\ ~gone /\ config.enabled /\ grant /\ seen = identity
    /\ source[running].readable /\ source[running].usable
    /\ source[running].text = jobs[running].digest

(* While the service runs, an attempt without an answer is the last one of *)
(* the job whose call is out, or of a job that was cancelled.              *)
Opened ==
  up => \A r \in Round :
    /\ jobs[r].state = "RUNNING" => running = r
    /\ \A n \in Attempt : attempts[r][n].state = "SENDING" =>
         \/ jobs[r].state = "CANCELLED"
         \/ /\ running = r /\ place \in {"reserved", "sent"}
            /\ n = jobs[r].attempts

Paid == \A d \in Nat : Calls(d) <= Budget

JobInv ==
  /\ TypeOK /\ Numbered /\ Held /\ Candidates /\ Checked /\ Opened
  /\ ChapterIsWhole /\ Paid

(* What is charged has room for one more attempt.                          *)
LEMMA Room ==
  ASSUME NEW r \in Round, JobsOK, Numbered, jobs[r].state = "QUEUED"
  PROVE  jobs[r].attempts + 1 \in Attempt
BY JobAssumption DEF Numbered, NumberedAt, JobsOK, JobRow

-----------------------------------------------------------------------------
(***************************************************************************)
(* What a step makes of a job, field by field.                             *)
(***************************************************************************)
Kept(q) ==
  /\ jobs'[q].attempts = jobs[q].attempts /\ jobs'[q].config = jobs[q].config
  /\ jobs'[q].digest = jobs[q].digest
  /\ jobs'[q].candidate = jobs[q].candidate

(* Stopping a job changes its state alone.                                 *)
LEMMA StopFields ==
  ASSUME JobsOK, NEW r \in Round, NEW s \in States, Stop(r, s)
  PROVE  /\ JobsOK'
         /\ \A q \in Round :
              Kept(q) /\ jobs'[q].state = IF q = r THEN s ELSE jobs[q].state
<1>1. jobs' = [jobs EXCEPT ![r] = [jobs[r] EXCEPT !.state = s]]
  BY DEF Stop
<1>2. jobs[r] \in JobRow /\ [jobs[r] EXCEPT !.state = s] \in JobRow
  BY DEF JobsOK, JobRow
<1>3. JobsOK'
  BY <1>1, <1>2 DEF JobsOK
<1>4. ASSUME NEW q \in Round
      PROVE  Kept(q) /\ jobs'[q].state = IF q = r THEN s ELSE jobs[q].state
  <2>1. CASE q = r
    <3>1. jobs'[r] = [jobs[r] EXCEPT !.state = s]
      BY <1>1 DEF JobsOK
    <3>2. QED
      BY <3>1, <2>1, <1>2 DEF Kept, JobRow
  <2>2. CASE q # r
    <3>1. jobs'[q] = jobs[q]
      BY <1>1, <2>2 DEF JobsOK
    <3>2. QED
      BY <3>1, <2>2 DEF Kept
  <2>3. QED
    BY <2>1, <2>2
<1>5. QED
  BY <1>3, <1>4

(* Charging a job makes it run and opens one more attempt.                 *)
LEMMA ChargedFields ==
  ASSUME JobsOK, AttemptsOK, day \in Nat, NEW r \in Round,
         jobs[r].attempts + 1 \in Attempt, Charged(r)
  PROVE  /\ JobsOK' /\ AttemptsOK'
         /\ \A q \in Round :
              /\ jobs'[q].config = jobs[q].config
              /\ jobs'[q].digest = jobs[q].digest
              /\ jobs'[q].candidate = jobs[q].candidate
              /\ jobs'[q].attempts = IF q = r THEN jobs[q].attempts + 1
                                              ELSE jobs[q].attempts
              /\ jobs'[q].state = IF q = r THEN "RUNNING" ELSE jobs[q].state
              /\ \A n \in Attempt :
                   attempts'[q][n] = IF q = r /\ n = jobs[q].attempts + 1
                                     THEN [state |-> "SENDING", day |-> day]
                                     ELSE attempts[q][n]
<1> DEFINE row == [jobs[r] EXCEPT !.state = "RUNNING", !.attempts = @ + 1]
           new == [state |-> "SENDING", day |-> day]
           tries == [attempts[r] EXCEPT ![jobs[r].attempts + 1] = new]
<1>1. jobs' = [jobs EXCEPT ![r] = row]
  BY DEF Charged
<1>2. attempts' = [attempts EXCEPT ![r] = tries]
  BY DEF Charged
<1>3. jobs[r] \in JobRow /\ row \in JobRow
  <2>1. jobs[r] \in JobRow
    BY DEF JobsOK
  <2>2. jobs[r].attempts + 1 \in 0..AttemptLimit
    BY JobAssumption
  <2>3. QED
    BY <2>1, <2>2 DEF JobRow
<1>4. /\ attempts[r] \in [Attempt -> AttemptRow] /\ new \in AttemptRow
      /\ tries \in [Attempt -> AttemptRow]
  BY DEF AttemptsOK, AttemptRow
<1>5. JobsOK' /\ AttemptsOK'
  BY <1>1, <1>2, <1>3, <1>4 DEF JobsOK, AttemptsOK
<1>6. ASSUME NEW q \in Round
      PROVE  /\ jobs'[q].config = jobs[q].config
             /\ jobs'[q].digest = jobs[q].digest
             /\ jobs'[q].candidate = jobs[q].candidate
             /\ jobs'[q].attempts = IF q = r THEN jobs[q].attempts + 1
                                             ELSE jobs[q].attempts
             /\ jobs'[q].state = IF q = r THEN "RUNNING" ELSE jobs[q].state
  <2>1. jobs'[q] = IF q = r THEN row ELSE jobs[q]
    BY <1>1 DEF JobsOK
  <2>2. QED
    BY <2>1, <1>3 DEF JobRow
<1>7. ASSUME NEW q \in Round, NEW n \in Attempt
      PROVE  attempts'[q][n] = IF q = r /\ n = jobs[q].attempts + 1
                               THEN new ELSE attempts[q][n]
  <2>1. attempts'[q] = IF q = r THEN tries ELSE attempts[q]
    BY <1>2 DEF AttemptsOK
  <2> HIDE DEF new
  <2>2. QED
    BY <2>1, <1>4
<1>8. QED
  BY <1>5, <1>6, <1>7

(* An answer, or its loss, ends one attempt.                               *)
LEMMA EndedFields ==
  ASSUME AttemptsOK, NEW r \in Round, NEW i \in Attempt,
         NEW s \in {"SETTLED", "UNKNOWN"},
         attempts' = [attempts EXCEPT ![r][i].state = s]
  PROVE  /\ AttemptsOK'
         /\ \A q \in Round, n \in Attempt :
              /\ attempts'[q][n].day = attempts[q][n].day
              /\ attempts'[q][n].state = IF q = r /\ n = i THEN s
                                         ELSE attempts[q][n].state
<1> DEFINE new == [attempts[r][i] EXCEPT !.state = s]
           tries == [attempts[r] EXCEPT ![i] = new]
<1>1. attempts' = [attempts EXCEPT ![r] = tries]
  OBVIOUS
<1>2. attempts[r][i] \in AttemptRow /\ new \in AttemptRow
  <2>1. attempts[r][i] \in AttemptRow
    BY DEF AttemptsOK
  <2>2. QED
    BY <2>1 DEF AttemptRow
<1>3. attempts[r] \in [Attempt -> AttemptRow] /\ tries \in [Attempt -> AttemptRow]
  BY <1>2 DEF AttemptsOK
<1>4. AttemptsOK'
  BY <1>1, <1>3 DEF AttemptsOK
<1>5. ASSUME NEW q \in Round, NEW n \in Attempt
      PROVE  /\ attempts'[q][n].day = attempts[q][n].day
             /\ attempts'[q][n].state = IF q = r /\ n = i THEN s
                                        ELSE attempts[q][n].state
  <2>1. attempts'[q] = IF q = r THEN tries ELSE attempts[q]
    BY <1>1 DEF AttemptsOK
  <2>2. new.state = s /\ new.day = attempts[r][i].day
    BY <1>2 DEF AttemptRow
  <2> HIDE DEF new
  <2>3. tries[n] = IF n = i THEN new ELSE attempts[r][n]
    BY <1>3
  <2> HIDE DEF tries
  <2>4. CASE q = r
    <3>1. attempts'[q][n] = tries[n]
      BY <2>1, <2>4
    <3>2. QED
      BY <2>2, <2>3, <2>4, <3>1
  <2>5. CASE q # r
    BY <2>1, <2>5
  <2>6. QED
    BY <2>4, <2>5
<1>6. QED
  BY <1>4, <1>5

(* scan() makes a job where there is none and leaves the others.           *)
LEMMA ScannedFields ==
  ASSUME JobsOK, WorldOK, NEW q \in Round
  PROVE  /\ Scanned[q] \in JobRow
         /\ \/ Scanned[q] = jobs[q] /\ jobs[q].state # "NONE"
            \/ /\ jobs[q].state = "NONE"
               /\ Scanned[q].state \in {"QUEUED", "PERMISSION_BLOCKED"}
               /\ Scanned[q].attempts = 0 /\ Scanned[q].candidate = 0
<1>1. CASE jobs[q].state # "NONE"
  BY <1>1 DEF Scanned, JobsOK
<1>2. CASE jobs[q].state = "NONE"
  <2> DEFINE state == IF Sound(q) THEN "QUEUED" ELSE "PERMISSION_BLOCKED"
             digest == IF Sound(q) THEN source[q].text ELSE 0
  <2>1. Scanned[q] = [NoJob EXCEPT !.state = state, !.config = config.version,
                                   !.digest = digest]
    BY <1>2 DEF Scanned
  <2>2. /\ state \in {"QUEUED", "PERMISSION_BLOCKED"} /\ digest \in Nat
        /\ config.version \in Nat
    BY DEF WorldOK, SourceRow
  <2> HIDE DEF state, digest
  <2>3. Scanned[q] = [state |-> state, attempts |-> 0, config |-> config.version,
                      digest |-> digest, candidate |-> 0]
    BY <2>1 DEF NoJob
  <2>4. QED
    BY <1>2, <2>2, <2>3, JobAssumption DEF JobRow
<1>3. QED
  BY <1>1, <1>2

(* The pump scans; a run by hand scans and queues what the budget had      *)
(* stopped.                                                                *)
LEMMA PumpFields ==
  ASSUME JobsOK, WorldOK, Scan \/ Run
  PROVE  /\ JobsOK'
         /\ \A q \in Round :
              \/ jobs'[q] = jobs[q]
              \/ /\ jobs[q].state = "NONE"
                 /\ jobs'[q].state \in {"QUEUED", "PERMISSION_BLOCKED"}
                 /\ jobs'[q].attempts = 0 /\ jobs'[q].candidate = 0
              \/ /\ jobs[q].state = "BUDGET_PAUSED"
                 /\ jobs'[q].state = "QUEUED" /\ Kept(q)
<1>1. CASE Scan
  <2>1. CASE jobs' = jobs
    BY <2>1 DEF JobsOK
  <2>2. CASE jobs' = Scanned
    <3>1. \A q \in Round : Scanned[q] \in JobRow
      BY ScannedFields
    <3>2. JobsOK'
      BY <2>2, <3>1 DEF JobsOK, Scanned
    <3>3. QED
      BY <2>2, <3>2, ScannedFields
  <2>3. QED
    BY <1>1, <2>1, <2>2 DEF Scan
<1>2. CASE Run
  <2> DEFINE Row(q) == IF Scanned[q].state = "BUDGET_PAUSED"
                       THEN [Scanned[q] EXCEPT !.state = "QUEUED"] ELSE Scanned[q]
  <2>1. jobs' = [q \in Round |-> Row(q)]
    BY <1>2 DEF Run
  <2>2. ASSUME NEW q \in Round
        PROVE  /\ Row(q) \in JobRow
               /\ \/ Row(q) = jobs[q]
                  \/ /\ jobs[q].state = "NONE"
                     /\ Row(q).state \in {"QUEUED", "PERMISSION_BLOCKED"}
                     /\ Row(q).attempts = 0 /\ Row(q).candidate = 0
                  \/ /\ jobs[q].state = "BUDGET_PAUSED" /\ Row(q).state = "QUEUED"
                     /\ Row(q).attempts = jobs[q].attempts
                     /\ Row(q).config = jobs[q].config
                     /\ Row(q).digest = jobs[q].digest
                     /\ Row(q).candidate = jobs[q].candidate
    <3>1. CASE Scanned[q].state # "BUDGET_PAUSED"
      BY <3>1, ScannedFields
    <3>2. CASE Scanned[q].state = "BUDGET_PAUSED"
      <4>1. Scanned[q] = jobs[q] /\ jobs[q] \in JobRow
        BY <3>2, ScannedFields
      <4>2. QED
        BY <3>2, <4>1 DEF JobRow
    <3>3. QED
      BY <3>1, <3>2
  <2> HIDE DEF Row
  <2>3. JobsOK'
    BY <2>1, <2>2 DEF JobsOK
  <2>4. ASSUME NEW q \in Round PROVE jobs'[q] = Row(q)
    BY <2>1
  <2>5. QED
    BY <2>2, <2>3, <2>4 DEF Kept
<1>3. QED
  BY <1>1, <1>2

(* An answer that is well becomes the candidate; a chapter that is         *)
(* committed has none.                                                     *)
LEMMA JudgedFields ==
  ASSUME JobsOK, NEW r \in Round,
         jobs' = [jobs EXCEPT ![r].candidate = jobs[r].digest]
  PROVE  /\ JobsOK'
         /\ \A q \in Round :
              /\ jobs'[q].state = jobs[q].state
              /\ jobs'[q].attempts = jobs[q].attempts
              /\ jobs'[q].config = jobs[q].config
              /\ jobs'[q].digest = jobs[q].digest
              /\ jobs'[q].candidate = IF q = r THEN jobs[q].digest
                                               ELSE jobs[q].candidate
<1> DEFINE row == [jobs[r] EXCEPT !.candidate = jobs[r].digest]
<1>1. jobs[r] \in JobRow /\ row \in JobRow
  BY DEF JobsOK, JobRow
<1>2. jobs' = [jobs EXCEPT ![r] = row]
  OBVIOUS
<1>3. JobsOK'
  BY <1>1, <1>2 DEF JobsOK
<1>4. ASSUME NEW q \in Round PROVE jobs'[q] = IF q = r THEN row ELSE jobs[q]
  BY <1>2 DEF JobsOK
<1>5. QED
  BY <1>1, <1>3, <1>4 DEF JobRow

LEMMA AcceptedFields ==
  ASSUME JobsOK, NEW r \in Round,
         jobs' = [jobs EXCEPT ![r] =
                    [jobs[r] EXCEPT !.state = "COMPLETED", !.candidate = 0]]
  PROVE  /\ JobsOK'
         /\ \A q \in Round :
              /\ jobs'[q].state = IF q = r THEN "COMPLETED" ELSE jobs[q].state
              /\ jobs'[q].attempts = jobs[q].attempts
              /\ jobs'[q].config = jobs[q].config
              /\ jobs'[q].digest = jobs[q].digest
              /\ jobs'[q].candidate = IF q = r THEN 0 ELSE jobs[q].candidate
<1> DEFINE row == [jobs[r] EXCEPT !.state = "COMPLETED", !.candidate = 0]
<1>1. jobs[r] \in JobRow /\ row \in JobRow
  BY DEF JobsOK, JobRow
<1>2. jobs' = [jobs EXCEPT ![r] = row]
  BY DEF JobsOK
<1>3. JobsOK'
  BY <1>1, <1>2 DEF JobsOK
<1>4. ASSUME NEW q \in Round PROVE jobs'[q] = IF q = r THEN row ELSE jobs[q]
  BY <1>2 DEF JobsOK
<1>5. /\ row.state = "COMPLETED" /\ row.attempts = jobs[r].attempts
      /\ row.config = jobs[r].config /\ row.digest = jobs[r].digest
      /\ row.candidate = 0
  BY <1>1 DEF JobRow
<1> HIDE DEF row
<1>6. ASSUME NEW q \in Round
      PROVE  /\ jobs'[q].state = IF q = r THEN "COMPLETED" ELSE jobs[q].state
             /\ jobs'[q].attempts = jobs[q].attempts
             /\ jobs'[q].config = jobs[q].config
             /\ jobs'[q].digest = jobs[q].digest
             /\ jobs'[q].candidate = IF q = r THEN 0 ELSE jobs[q].candidate
  <2>1. CASE q = r
    BY <1>4, <1>5, <2>1
  <2>2. CASE q # r
    BY <1>4, <2>2
  <2>3. QED
    BY <2>1, <2>2
<1>7. QED
  BY <1>3, <1>6

(* A retry queues a job again, under the present configuration and source. *)
LEMMA RetryFields ==
  ASSUME JobsOK, WorldOK, NEW r \in Round, Retry(r)
  PROVE  /\ JobsOK'
         /\ \A q \in Round :
              /\ jobs'[q].state = IF q = r THEN "QUEUED" ELSE jobs[q].state
              /\ jobs'[q].attempts = jobs[q].attempts
              /\ jobs'[q].candidate = jobs[q].candidate
              /\ jobs'[q].digest = jobs[q].digest \/ (q = r /\ jobs[q].digest = 0)
              /\ q # r => jobs'[q].config = jobs[q].config
<1> DEFINE row == Requeued(r)
<1>1. jobs[r] \in JobRow /\ config.version \in Nat /\ source[r].text \in Nat
  BY DEF JobsOK, WorldOK, SourceRow
<1>2. /\ row.state = "QUEUED" /\ row.attempts = jobs[r].attempts
      /\ row.digest = source[r].text /\ row.candidate = jobs[r].candidate
  BY <1>1 DEF Requeued, JobRow
<1>3. row \in JobRow
  BY <1>1 DEF Requeued, JobRow
<1>4. jobs' = [jobs EXCEPT ![r] = row]
  BY DEF Retry
<1>5. source[r].text = jobs[r].digest \/ jobs[r].digest = 0
  BY DEF Retry
<1> HIDE DEF row
<1>6. JobsOK'
  BY <1>3, <1>4 DEF JobsOK
<1>7. ASSUME NEW q \in Round PROVE jobs'[q] = IF q = r THEN row ELSE jobs[q]
  BY <1>4 DEF JobsOK
<1>8. QED
  BY <1>2, <1>5, <1>6, <1>7

(* Deleting the assistant cancels every job; the start ends what was       *)
(* running.                                                                *)
LEMMA PurgeFields ==
  ASSUME JobsOK, Purge
  PROVE  /\ JobsOK'
         /\ \A q \in Round :
              /\ jobs[q].state = "NONE" => jobs'[q] = NoJob
              /\ jobs[q].state # "NONE" =>
                   /\ jobs'[q].state = "CANCELLED" /\ jobs'[q].candidate = 0
                   /\ jobs'[q].attempts = jobs[q].attempts
<1> DEFINE row(q) == [jobs[q] EXCEPT !.state = "CANCELLED", !.candidate = 0]
<1>1. jobs' = [q \in Round |-> IF jobs[q].state = "NONE" THEN NoJob ELSE row(q)]
  BY DEF Purge
<1>2. ASSUME NEW q \in Round
      PROVE  /\ row(q) \in JobRow /\ row(q).state = "CANCELLED"
             /\ row(q).candidate = 0 /\ row(q).attempts = jobs[q].attempts
  <2>1. jobs[q] \in JobRow
    BY DEF JobsOK
  <2>2. QED
    BY <2>1 DEF JobRow
<1> HIDE DEF row
<1>3. NoJob \in JobRow
  BY JobAssumption DEF NoJob, JobRow
<1>4. JobsOK'
  BY <1>1, <1>2, <1>3 DEF JobsOK
<1>5. QED
  BY <1>1, <1>2, <1>4

LEMMA RestartFields ==
  ASSUME JobsOK, AttemptsOK, Restart
  PROVE  /\ JobsOK' /\ AttemptsOK'
         /\ \A q \in Round :
              /\ Kept(q)
              /\ jobs'[q].state = IF jobs[q].state # "RUNNING" THEN jobs[q].state
                                  ELSE IF q \in chapters THEN "COMPLETED"
                                  ELSE "REMOTE_UNKNOWN"
              /\ \A n \in Attempt :
                   /\ attempts'[q][n].day = attempts[q][n].day
                   /\ attempts'[q][n].state = IF attempts[q][n].state = "SENDING"
                                              THEN "UNKNOWN"
                                              ELSE attempts[q][n].state
<1>1. ASSUME NEW q \in Round
      PROVE  /\ Recovered(q) \in JobRow
             /\ Recovered(q).attempts = jobs[q].attempts
             /\ Recovered(q).config = jobs[q].config
             /\ Recovered(q).digest = jobs[q].digest
             /\ Recovered(q).candidate = jobs[q].candidate
             /\ Recovered(q).state = IF jobs[q].state # "RUNNING" THEN jobs[q].state
                                     ELSE IF q \in chapters THEN "COMPLETED"
                                     ELSE "REMOTE_UNKNOWN"
  <2>1. jobs[q] \in JobRow
    BY DEF JobsOK
  <2>2. QED
    BY <2>1 DEF JobRow, Recovered
<1>2. ASSUME NEW q \in Round, NEW n \in Attempt
      PROVE  /\ UnknownAttempt(attempts[q][n]) \in AttemptRow
             /\ UnknownAttempt(attempts[q][n]).day = attempts[q][n].day
             /\ UnknownAttempt(attempts[q][n]).state =
                  IF attempts[q][n].state = "SENDING" THEN "UNKNOWN"
                  ELSE attempts[q][n].state
  <2>1. attempts[q][n] \in AttemptRow
    BY DEF AttemptsOK
  <2>2. QED
    BY <2>1 DEF AttemptRow, UnknownAttempt
<1>3. /\ jobs' = [q \in Round |-> Recovered(q)]
      /\ attempts' = [q \in Round |-> [n \in Attempt |->
                        UnknownAttempt(attempts[q][n])]]
  BY DEF Restart
<1>4. JobsOK'
  BY <1>1, <1>3 DEF JobsOK
<1>5. AttemptsOK'
  BY <1>2, <1>3 DEF AttemptsOK
<1>6. ASSUME NEW q \in Round PROVE jobs'[q] = Recovered(q)
  BY <1>3
<1>7. ASSUME NEW q \in Round, NEW n \in Attempt
      PROVE  attempts'[q][n] = UnknownAttempt(attempts[q][n])
  BY <1>3
<1>8. QED
  BY <1>1, <1>2, <1>4, <1>5, <1>6, <1>7 DEF Kept

-----------------------------------------------------------------------------
(***************************************************************************)
(* What the sections of the pump do, given what is known of the job it     *)
(* holds.                                                                  *)
(***************************************************************************)
(* The pump holds a job wherever it is not at rest.                        *)
LEMMA RunningIs ==
  ASSUME TypeOK, Held, place \notin {"rest", "scanned"}
  PROVE  running \in Round
BY DEF TypeOK, PumpOK, Held

(* A call that is out is the last attempt of its job.                      *)
LEMMA LastIs ==
  ASSUME TypeOK, Numbered, Held, place = "sent"
  PROVE  Last(running) \in Attempt
<1>1. running \in Round
  BY RunningIs
<1>2. /\ sent[running] > 0 /\ sent[running] <= jobs[running].attempts
      /\ sent[running] \in Nat
  BY <1>1 DEF Held, Numbered, NumberedAt, TypeOK, CountsOK
<1>3. jobs[running].attempts \in 0..AttemptLimit
  BY <1>1 DEF TypeOK, JobsOK, JobRow
<1>4. QED
  BY <1>2, <1>3, JobAssumption DEF Last

(* A failure stops the job, unless it was cancelled.                       *)
LEMMA FailTakes ==
  ASSUME NEW r \in Round, NEW s, Fail(r, s),
         jobs[r].state \in {"RUNNING", "CANCELLED"}
  PROVE  /\ Rest
         /\ \/ jobs[r].state = "CANCELLED" /\ UNCHANGED jobs
            \/ jobs[r].state = "RUNNING" /\ Stop(r, s)
BY DEF Fail, Over

(* The judgement stops the job, or finds everything as it was.             *)
LEMMA JudgeTakes ==
  ASSUME Judge, TypeOK, Held
  PROVE  /\ running \in Round /\ up /\ place = "answered"
         /\ UNCHANGED <<attempts, chapters, commands, world, up, history, bounds>>
         /\ \/ jobs[running].state = "CANCELLED" /\ UNCHANGED jobs /\ Rest
            \/ \E s \in Blocked \cup {"REMOTE_UNKNOWN"} :
                 jobs[running].state = "RUNNING" /\ Stop(running, s) /\ Rest
            \/ /\ Current(running, TRUE) = "ok" /\ jobs[running].state = "RUNNING"
               /\ jobs' = [jobs EXCEPT ![running].candidate = jobs[running].digest]
               /\ Goto("accepting")
<1>1. running \in Round /\ up /\ place = "answered"
  BY RunningIs DEF Judge
<1>2. jobs[running].state \in {"RUNNING", "CANCELLED"}
  BY <1>1 DEF Held
<1>3. Current(running, TRUE) \in Blocked \cup {"ok"}
  BY CurrentValues
<1>4. UNCHANGED <<attempts, chapters, commands, world, up, history, bounds>>
  BY DEF Judge
<1>5. CASE Current(running, TRUE) # "ok"
  <2>1. Fail(running, Current(running, TRUE))
    BY <1>5 DEF Judge
  <2>2. QED
    BY <1>1, <1>2, <1>3, <1>4, <1>5, <2>1, FailTakes
<1>6. CASE Current(running, TRUE) = "ok"
  <2>1. jobs[running].state = "RUNNING"
    BY <1>1, <1>2, <1>6, CurrentOk
  <2>2. Verdict \in Blocked \cup {"REMOTE_UNKNOWN"}
    BY DEF Verdict
  <2>3. \/ Stop(running, Verdict) /\ Rest
        \/ /\ jobs' = [jobs EXCEPT ![running].candidate = jobs[running].digest]
           /\ Goto("accepting")
    BY <1>6 DEF Judge
  <2>4. QED
    BY <1>1, <1>4, <1>6, <2>1, <2>2, <2>3
<1>7. QED
  BY <1>5, <1>6

(* A lost answer leaves the attempt and the job unknown, unless the job    *)
(* was cancelled.                                                          *)
LEMMA AnswerLostTakes ==
  ASSUME AnswerLost, TypeOK, Numbered, Held
  PROVE  /\ running \in Round /\ up /\ place = "sent" /\ Rest
         /\ jobs[running].attempts \in Attempt
         /\ UNCHANGED <<chapters, commands, world, up, history>>
         /\ \/ jobs[running].state = "CANCELLED" /\ UNCHANGED <<jobs, attempts>>
            \/ /\ jobs[running].state = "RUNNING"
               /\ Stop(running, "REMOTE_UNKNOWN")
               /\ attempts' = [attempts EXCEPT
                    ![running][jobs[running].attempts].state = "UNKNOWN"]
<1>1. running \in Round /\ up /\ place = "sent"
  BY RunningIs DEF AnswerLost
<1>2. jobs[running].state \in {"RUNNING", "CANCELLED"}
  BY <1>1 DEF Held
<1>3. jobs[running].attempts \in Attempt
  BY <1>1, LastIs DEF Last
<1>4. QED
  BY <1>1, <1>2, <1>3 DEF AnswerLost, Over, Last

(* An answer settles the last attempt.                                     *)
LEMMA AnswerTakes ==
  ASSUME NEW result \in Results, Answer(result), TypeOK, Numbered, Held
  PROVE  /\ running \in Round /\ up /\ place = "sent" /\ place' = "answered"
         /\ jobs[running].attempts \in Attempt
         /\ attempts' = [attempts EXCEPT
              ![running][jobs[running].attempts].state = "SETTLED"]
         /\ UNCHANGED <<jobs, chapters, commands, world, up, running, seen,
                        aborted, history, bounds>>
<1>1. running \in Round /\ up /\ place = "sent"
  BY RunningIs DEF Answer
<1>2. jobs[running].attempts \in Attempt
  BY <1>1, LastIs DEF Last
<1>3. QED
  BY <1>1, <1>2 DEF Answer, Last

(* A chapter is committed for the running job.                             *)
LEMMA AcceptTakes ==
  ASSUME Accept, TypeOK, Held
  PROVE  /\ running \in Round /\ up /\ place = "intent" /\ Rest
         /\ jobs[running].state = "RUNNING" /\ sent[running] > 0
         /\ commands' = [commands EXCEPT ![running] = "SUCCEEDED"]
         /\ chapters' = chapters \cup {running}
         /\ jobs' = [jobs EXCEPT ![running] =
              [jobs[running] EXCEPT !.state = "COMPLETED", !.candidate = 0]]
         /\ UNCHANGED <<attempts, world, up, history, bounds>>
<1>1. running \in Round /\ up /\ place = "intent"
  BY RunningIs DEF Accept
<1>2. jobs' = [jobs EXCEPT ![running] =
        [jobs[running] EXCEPT !.state = "COMPLETED", !.candidate = 0]]
  BY <1>1 DEF Accept, TypeOK, JobsOK
<1>3. jobs[running].state = "RUNNING" /\ sent[running] > 0
  BY <1>1 DEF Held
<1>4. QED
  BY <1>1, <1>2, <1>3 DEF Accept

(* A commit that fails stops the job.                                      *)
LEMMA AcceptFaultTakes ==
  ASSUME AcceptFault, TypeOK, Held
  PROVE  /\ running \in Round /\ up /\ place = "intent" /\ Rest
         /\ jobs[running].state = "RUNNING"
         /\ commands' = [commands EXCEPT ![running] = "NOT_APPLIED"]
         /\ Stop(running, "FAILED_CONFIRMED")
         /\ UNCHANGED <<attempts, chapters, world, up, history>>
<1>1. running \in Round /\ up /\ place = "intent"
  BY RunningIs DEF AcceptFault
<1>2. jobs[running].state = "RUNNING"
  BY <1>1 DEF Held
<1>3. QED
  BY <1>1, <1>2, FailTakes DEF AcceptFault

-----------------------------------------------------------------------------
(***************************************************************************)
(* Types.                                                                  *)
(***************************************************************************)
(* Jobs keep their shape.                                                  *)
LEMMA JobsType ==
  ASSUME TypeOK, Numbered, Held, [Next]_vars
  PROVE  JobsOK'
<1>1. CASE UNCHANGED jobs
  BY <1>1 DEF TypeOK, JobsOK, durable, world, volatile, history, bounds
<1>2. ASSUME Pump PROVE JobsOK'
  BY <1>2, PumpFields DEF Pump, TypeOK
<1>3. ASSUME Execute PROVE JobsOK'
  <2>1. PICK r \in Round : Taken(r)
    BY <1>3, ExecuteTakes
  <2> USE DEF Taken
  <2>2. \A s \in States : Stop(r, s) => JobsOK'
    BY <2>1, StopFields DEF TypeOK
  <2>3. Charged(r) => JobsOK'
    BY <2>1, Room, ChargedFields DEF TypeOK, WorldOK
  <2>4. QED
    BY <2>1, <2>2, <2>3
<1>4. ASSUME Judge PROVE JobsOK'
  <2>1. \A s \in States : Stop(running, s) => JobsOK'
    BY <1>4, JudgeTakes, StopFields DEF TypeOK
  <2>2. jobs' = [jobs EXCEPT ![running].candidate = jobs[running].digest] => JobsOK'
    BY <1>4, JudgeTakes, JudgedFields DEF TypeOK
  <2>3. UNCHANGED jobs => JobsOK'
    BY DEF TypeOK, JobsOK
  <2>4. QED
    BY <1>4, <2>1, <2>2, <2>3, JudgeTakes
<1>5. ASSUME Accept PROVE JobsOK'
  BY <1>5, AcceptTakes, AcceptedFields DEF TypeOK
<1>6. ASSUME AcceptFault PROVE JobsOK'
  BY <1>6, AcceptFaultTakes, StopFields DEF TypeOK
<1>7. ASSUME AnswerLost PROVE JobsOK'
  <2>1. \/ UNCHANGED jobs
        \/ running \in Round /\ Stop(running, "REMOTE_UNKNOWN")
    BY <1>7, AnswerLostTakes
  <2>2. CASE UNCHANGED jobs
    BY <2>2 DEF TypeOK, JobsOK
  <2>3. CASE running \in Round /\ Stop(running, "REMOTE_UNKNOWN")
    BY <2>3, StopFields DEF TypeOK
  <2>4. QED
    BY <2>1, <2>2, <2>3
<1>8. ASSUME Run PROVE JobsOK'
  BY <1>8, PumpFields DEF TypeOK
<1>9. ASSUME NEW r \in Round, Cancel(r) PROVE JobsOK'
  BY <1>9, StopFields DEF Cancel, TypeOK
<1>10. ASSUME NEW r \in Round, Inspect(r) PROVE JobsOK'
  BY <1>10, StopFields DEF Inspect, TypeOK
<1>11. ASSUME NEW r \in Round, Retry(r) PROVE JobsOK'
  BY <1>11, RetryFields DEF TypeOK
<1>12. ASSUME Purge PROVE JobsOK'
  BY <1>12, PurgeFields DEF TypeOK
<1>13. ASSUME Restart PROVE JobsOK'
  BY <1>13, RestartFields DEF TypeOK
<1>14. QED
  BY JobsFrame, <1>1, <1>2, <1>3, <1>4, <1>5, <1>6, <1>7, <1>8, <1>9, <1>10,
     <1>11, <1>12, <1>13

(* Attempts keep their shape.                                              *)
LEMMA AttemptsType ==
  ASSUME TypeOK, Numbered, Held, [Next]_vars
  PROVE  AttemptsOK'
<1>1. CASE UNCHANGED attempts
  BY <1>1 DEF TypeOK, AttemptsOK, durable, world, volatile, history, bounds
<1>2. ASSUME Execute PROVE AttemptsOK'
  <2>1. PICK r \in Round : Taken(r)
    BY <1>2, ExecuteTakes
  <2> USE DEF Taken
  <2>2. UNCHANGED attempts => AttemptsOK'
    BY DEF TypeOK, AttemptsOK
  <2>3. Charged(r) => AttemptsOK'
    BY <2>1, Room, ChargedFields DEF TypeOK, WorldOK
  <2>4. QED
    BY <2>1, <2>2, <2>3
<1>3. ASSUME AnswerLost PROVE AttemptsOK'
  <2>1. UNCHANGED attempts => AttemptsOK'
    BY DEF TypeOK, AttemptsOK
  <2>2. QED
    BY <1>3, <2>1, AnswerLostTakes, EndedFields DEF TypeOK
<1>4. ASSUME NEW result \in Results, Answer(result) PROVE AttemptsOK'
  BY <1>4, AnswerTakes, EndedFields DEF TypeOK
<1>5. ASSUME Restart PROVE AttemptsOK'
  BY <1>5, RestartFields DEF TypeOK
<1>6. QED
  BY AttemptsFrame, <1>1, <1>2, <1>3, <1>4, <1>5

(* Chapters and commands keep their shape.                                 *)
LEMMA LedgerType ==
  ASSUME TypeOK, Held, [Next]_vars
  PROVE  LedgerOK'
<1>1. CASE UNCHANGED <<chapters, commands>>
  BY <1>1 DEF TypeOK, LedgerOK, durable, world, volatile, history, bounds
<1>2. ASSUME Intent PROVE LedgerOK'
  <2>1. running \in Round
    BY <1>2, RunningIs DEF Intent
  <2>2. QED
    BY <1>2, <2>1 DEF Intent, TypeOK, LedgerOK
<1>3. ASSUME Accept PROVE LedgerOK'
  BY <1>3, AcceptTakes DEF TypeOK, LedgerOK
<1>4. ASSUME AcceptFault PROVE LedgerOK'
  BY <1>4, AcceptFaultTakes DEF TypeOK, LedgerOK
<1>5. ASSUME Purge PROVE LedgerOK'
  BY <1>5 DEF Purge, TypeOK, LedgerOK
<1>6. ASSUME Restart PROVE LedgerOK'
  BY <1>6 DEF Restart, TypeOK, LedgerOK
<1>7. QED
  BY LedgerFrame, <1>1, <1>2, <1>3, <1>4, <1>5, <1>6

(* What jobs are checked against keeps its shape.                          *)
LEMMA WorldType ==
  ASSUME TypeOK, [Next]_vars
  PROVE  WorldOK'
<1>1. CASE UNCHANGED world
  BY <1>1 DEF TypeOK, WorldOK, durable, world, volatile, history, bounds
<1>2. ASSUME NEW enabled \in BOOLEAN, NEW granted \in BOOLEAN,
             Configure(enabled, granted)
      PROVE  WorldOK'
  BY <1>2 DEF Configure, TypeOK, WorldOK
<1>3. ASSUME NEW r \in Round, MoveSource(r) PROVE WorldOK'
  <2> DEFINE Moved == {[source[r] EXCEPT !.text = @ + 1],
                       [source[r] EXCEPT !.readable = ~@],
                       [source[r] EXCEPT !.usable = ~@]}
  <2>1. source[r] \in SourceRow
    BY DEF TypeOK, WorldOK
  <2>2. Moved \subseteq SourceRow
    <3>1. [source[r] EXCEPT !.text = @ + 1] \in SourceRow
      BY <2>1 DEF SourceRow
    <3>2. [source[r] EXCEPT !.readable = ~@] \in SourceRow
      BY <2>1 DEF SourceRow
    <3>3. [source[r] EXCEPT !.usable = ~@] \in SourceRow
      BY <2>1 DEF SourceRow
    <3>4. QED
      BY <3>1, <3>2, <3>3
  <2>3. \E row \in Moved : source' = [source EXCEPT ![r] = row]
    BY <1>3 DEF MoveSource
  <2> HIDE DEF Moved
  <2>4. source' \in [Round -> SourceRow]
    BY <2>2, <2>3 DEF TypeOK, WorldOK
  <2>5. QED
    BY <1>3, <2>4 DEF MoveSource, TypeOK, WorldOK
<1>4. ASSUME MoveGrant PROVE WorldOK'
  BY <1>4 DEF MoveGrant, TypeOK, WorldOK
<1>5. ASSUME MoveConnection PROVE WorldOK'
  BY <1>5 DEF MoveConnection, TypeOK, WorldOK
<1>6. ASSUME Purge PROVE WorldOK'
  BY <1>6 DEF Purge, TypeOK, WorldOK
<1>7. ASSUME Midnight PROVE WorldOK'
  BY <1>7 DEF Midnight, TypeOK, WorldOK
<1>8. QED
  BY WorldFrame, <1>1, <1>2, <1>3, <1>4, <1>5, <1>6, <1>7

(* A pump at rest has its shape.                                           *)
LEMMA RestType ==
  ASSUME TypeOK, UNCHANGED up, Rest
  PROVE  PumpOK'
BY DEF Rest, TypeOK, PumpOK

(* The pump keeps its shape.                                               *)
LEMMA PumpType ==
  ASSUME TypeOK, Numbered, Held, [Next]_vars
  PROVE  PumpOK'
<1>1. CASE UNCHANGED <<up, volatile>>
  BY <1>1 DEF TypeOK, PumpOK, durable, world, volatile, history, bounds
<1>2. ASSUME Pump PROVE PumpOK'
  BY <1>2 DEF Pump, TypeOK, PumpOK, Rest, Goto, volatile
<1>3. ASSUME NothingQueued PROVE PumpOK'
  BY <1>3 DEF NothingQueued, TypeOK, PumpOK, Rest, Goto, volatile
<1>4. ASSUME Execute PROVE PumpOK'
  <2>1. PICK r \in Round : Taken(r)
    BY <1>4, ExecuteTakes
  <2> USE DEF Taken
  <2>2. identity \in Nat
    BY DEF TypeOK, WorldOK
  <2>3. UNCHANGED up
    BY <1>4 DEF Execute, world, history, bounds
  <2>4. Rest => PumpOK'
    BY <2>3, RestType
  <2>5. running' = r /\ seen' = identity /\ place' \in Places
           /\ UNCHANGED <<aborted, answer>> => PumpOK'
    BY <2>2, <2>3 DEF TypeOK, PumpOK
  <2>6. QED
    BY <2>1, <2>4, <2>5
<1>5. ASSUME Send PROVE PumpOK'
  BY <1>5 DEF Send, TypeOK, PumpOK, Rest, Goto, volatile
<1>6. ASSUME Judge PROVE PumpOK'
  <2>1. UNCHANGED up
    BY <1>6 DEF Judge
  <2>2. Rest => PumpOK'
    BY <2>1, RestType
  <2>3. Goto("accepting") => PumpOK'
    BY <2>1 DEF Goto, TypeOK, PumpOK
  <2>4. QED
    BY <1>6, <2>2, <2>3, JudgeTakes
<1>7. ASSUME Intent PROVE PumpOK'
  BY <1>7 DEF Intent, TypeOK, PumpOK, Rest, Goto, volatile
<1>8. ASSUME Accept PROVE PumpOK'
  BY <1>8 DEF Accept, Rest, TypeOK, PumpOK
<1>9. ASSUME AcceptFault PROVE PumpOK'
  <2>1. UNCHANGED up /\ Rest
    BY <1>9, AcceptFaultTakes
  <2>2. QED
    BY <2>1, RestType
<1>10. ASSUME AnswerLost PROVE PumpOK'
  <2>1. UNCHANGED up /\ Rest
    BY <1>10, AnswerLostTakes
  <2>2. QED
    BY <2>1, RestType
<1>11. ASSUME NEW result \in Results, Answer(result) PROVE PumpOK'
  BY <1>11 DEF Answer, TypeOK, PumpOK
<1>12. ASSUME NEW enabled \in BOOLEAN, NEW granted \in BOOLEAN,
              Configure(enabled, granted)
       PROVE  PumpOK'
  BY <1>12 DEF Configure, TypeOK, PumpOK, Rest, Goto, volatile
<1>13. ASSUME NEW r \in Round, Cancel(r) PROVE PumpOK'
  BY <1>13 DEF Cancel, TypeOK, PumpOK, Rest, Goto, volatile
<1>14. ASSUME MoveConnection PROVE PumpOK'
  BY <1>14 DEF MoveConnection, TypeOK, PumpOK, Rest, Goto, volatile
<1>15. ASSUME Govern PROVE PumpOK'
  BY <1>15 DEF Govern, TypeOK, PumpOK, Rest, Goto, volatile
<1>16. ASSUME Purge PROVE PumpOK'
  BY <1>16 DEF Purge, TypeOK, PumpOK, Rest, Goto, volatile
<1>17. ASSUME Halt PROVE PumpOK'
  BY <1>17 DEF Halt, TypeOK, PumpOK, Rest, Goto, volatile
<1>18. ASSUME Restart PROVE PumpOK'
  BY <1>18 DEF Restart, TypeOK, PumpOK, Rest, Goto, volatile
<1>19. QED
  BY PumpFrame, <1>1, <1>2, <1>3, <1>4, <1>5, <1>6, <1>7, <1>8, <1>9, <1>10,
     <1>11, <1>12, <1>13, <1>14, <1>15, <1>16, <1>17, <1>18

(* Calls, retries and bounds keep their shape.                             *)
LEMMA CountsType ==
  ASSUME TypeOK, Held, [Next]_vars
  PROVE  CountsOK'
<1>1. CASE UNCHANGED <<history, bounds>>
  BY <1>1 DEF TypeOK, CountsOK, durable, world, volatile, history, bounds
<1>2. ASSUME Send PROVE CountsOK'
  <2>1. running \in Round
    BY <1>2, RunningIs DEF Send
  <2>2. QED
    BY <1>2, <2>1 DEF Send, bounds, TypeOK, CountsOK
<1>3. ASSUME AcceptFault PROVE CountsOK'
  BY <1>3 DEF AcceptFault, Move, history, bounds, TypeOK, CountsOK
<1>4. ASSUME AnswerLost PROVE CountsOK'
  BY <1>4 DEF AnswerLost, Move, history, bounds, TypeOK, CountsOK
<1>5. ASSUME NEW r \in Round, Retry(r) PROVE CountsOK'
  BY <1>5 DEF Retry, Move, history, bounds, TypeOK, CountsOK
<1>6. ASSUME NEW r \in Round, MoveSource(r) PROVE CountsOK'
  BY <1>6 DEF MoveSource, Move, history, bounds, TypeOK, CountsOK
<1>7. ASSUME MoveGrant PROVE CountsOK'
  BY <1>7 DEF MoveGrant, Move, history, bounds, TypeOK, CountsOK
<1>8. ASSUME MoveConnection PROVE CountsOK'
  BY <1>8 DEF MoveConnection, Move, history, bounds, TypeOK, CountsOK
<1>9. ASSUME Purge PROVE CountsOK'
  <2>1. UNCHANGED <<sent, retries, stops, faults>> /\ moves' = moves + 1
    BY <1>9 DEF Purge, Move, history
  <2>2. QED
    BY <2>1 DEF TypeOK, CountsOK
<1>10. ASSUME Halt PROVE CountsOK'
  BY <1>10 DEF Halt, Move, history, bounds, TypeOK, CountsOK
<1>11. QED
  BY CountsFrame, <1>1, <1>2, <1>3, <1>4, <1>5, <1>6, <1>7, <1>8, <1>9,
     <1>10

(* Every step keeps the variables well typed.                              *)
LEMMA TypeStep ==
  ASSUME TypeOK, Numbered, Held, [Next]_vars
  PROVE  TypeOK'
<1>1. JobsOK' /\ AttemptsOK'
  BY JobsType, AttemptsType
<1>2. LedgerOK' /\ WorldOK'
  BY LedgerType, WorldType
<1>3. PumpOK' /\ CountsOK'
  BY PumpType, CountsType
<1>4. QED
  BY <1>1, <1>2, <1>3 DEF TypeOK

-----------------------------------------------------------------------------
(***************************************************************************)
(* The invariant is kept: one step for each action that touches what it    *)
(* is about.                                                               *)
(***************************************************************************)
(* Jobs, attempts, calls and retries.                                      *)
LEMMA NumberedFrame ==
  ASSUME [Next]_vars
  PROVE  \/ UNCHANGED <<jobs, attempts, sent, retries>>
         \/ Pump \/ Execute \/ Send \/ Judge \/ Accept \/ AcceptFault
         \/ AnswerLost \/ (\E result \in Results : Answer(result)) \/ Run
         \/ Purge \/ Restart
         \/ (\E r \in Round : Cancel(r) \/ Inspect(r) \/ Retry(r))
BY DEF Next, PumpStep, AnswerStep, UserStep, WorldStep, vars, durable,
     world, volatile, history, bounds, NothingQueued, Goto, Intent,
     Configure, Free, MoveSource, Move, MoveGrant, MoveConnection, Govern,
     Midnight, Halt, Rest

(* Attempts stay numbered, and no job is charged that may not be.          *)
LEMMA NumberedStep ==
  ASSUME TypeOK, Numbered, Held, [Next]_vars
  PROVE  Numbered'
<1>1. CASE UNCHANGED <<jobs, attempts, sent, retries>>
  BY <1>1 DEF Numbered, NumberedAt
<1>2. ASSUME Pump PROVE Numbered'
  <2> SUFFICES ASSUME NEW q \in Round PROVE NumberedAt(q)'
    BY DEF Numbered
  <2>1. NumberedAt(q)
    BY DEF Numbered
  <2>2. UNCHANGED <<attempts, sent, retries>>
    BY <1>2 DEF Pump, history
  <2>3. QED
    BY <1>2, <2>1, <2>2, PumpFields, JobAssumption
       DEF Pump, TypeOK, NumberedAt, Kept, CountsOK
<1>3. ASSUME Execute PROVE Numbered'
  <2> SUFFICES ASSUME NEW q \in Round PROVE NumberedAt(q)'
    BY DEF Numbered
  <2>1. NumberedAt(q)
    BY DEF Numbered
  <2>2. PICK r \in Round : Taken(r)
    BY <1>3, ExecuteTakes
  <2> USE DEF Taken
  <2>3. UNCHANGED <<sent, retries>>
    BY <2>2 DEF history
  <2>4. jobs[q].attempts \in Nat /\ sent[q] \in Nat /\ retries[q] \in Nat
    BY DEF TypeOK, JobsOK, JobRow, CountsOK
  <2>5. ASSUME NEW s \in Blocked \cup {"RUNNING", "BUDGET_PAUSED"}, Stop(r, s),
               UNCHANGED attempts
        PROVE  NumberedAt(q)'
    <3>1. Kept(q) /\ jobs'[q].state = IF q = r THEN s ELSE jobs[q].state
      BY <2>5, StopFields DEF TypeOK
    <3>2. QED
      BY <3>1, <2>1, <2>2, <2>3, <2>5 DEF NumberedAt, Kept
  <2>6. ASSUME Charged(r) PROVE NumberedAt(q)'
    <3>1. jobs[r].attempts + 1 \in Attempt
      BY <2>2, Room DEF TypeOK
    <3>2. /\ jobs'[q].attempts = IF q = r THEN jobs[q].attempts + 1
                                           ELSE jobs[q].attempts
          /\ jobs'[q].state = IF q = r THEN "RUNNING" ELSE jobs[q].state
          /\ \A n \in Attempt :
               attempts'[q][n] = IF q = r /\ n = jobs[q].attempts + 1
                                 THEN [state |-> "SENDING", day |-> day]
                                 ELSE attempts[q][n]
      BY <2>6, <3>1, ChargedFields DEF TypeOK, WorldOK
    <3>3. \A n \in Attempt :
            attempts'[q][n].state # "NONE" <=> n <= jobs'[q].attempts
      BY <2>1, <2>4, <3>2 DEF NumberedAt
    <3>4. QED
      BY <2>1, <2>2, <2>3, <2>4, <3>2, <3>3 DEF NumberedAt
  <2>7. QED
    BY <2>2, <2>5, <2>6
<1>4. ASSUME Send PROVE Numbered'
  <2> SUFFICES ASSUME NEW q \in Round PROVE NumberedAt(q)'
    BY DEF Numbered
  <2>1. NumberedAt(q)
    BY DEF Numbered
  <2>2. running \in Round /\ sent[running] < jobs[running].attempts
    BY <1>4, RunningIs DEF Send, Held
  <2>3. UNCHANGED <<jobs, attempts, retries>>
    BY <1>4 DEF Send, durable
  <2>4. sent'[q] = IF q = running THEN sent[q] + 1 ELSE sent[q]
    BY <1>4, <2>2 DEF Send, TypeOK, CountsOK
  <2>5. jobs[q].attempts \in Nat /\ sent[q] \in Nat
    BY DEF TypeOK, JobsOK, JobRow, CountsOK
  <2>6. QED
    BY <2>1, <2>2, <2>3, <2>4, <2>5 DEF NumberedAt
<1>5. ASSUME Judge PROVE Numbered'
  <2> SUFFICES ASSUME NEW q \in Round PROVE NumberedAt(q)'
    BY DEF Numbered
  <2>1. NumberedAt(q)
    BY DEF Numbered
  <2>2. UNCHANGED <<attempts, sent, retries>>
    BY <1>5 DEF Judge, history
  <2>3. CASE UNCHANGED jobs
    BY <2>1, <2>2, <2>3 DEF NumberedAt
  <2>4. ASSUME NEW s \in Blocked \cup {"REMOTE_UNKNOWN"}, running \in Round,
               Stop(running, s)
        PROVE  NumberedAt(q)'
    <3>1. Kept(q) /\ jobs'[q].state = IF q = running THEN s ELSE jobs[q].state
      BY <2>4, StopFields DEF TypeOK
    <3>2. QED
      BY <3>1, <2>1, <2>2 DEF NumberedAt, Kept
  <2>5. CASE /\ running \in Round
             /\ jobs' = [jobs EXCEPT ![running].candidate = jobs[running].digest]
    <3>1. jobs'[q].state = jobs[q].state /\ jobs'[q].attempts = jobs[q].attempts
      BY <2>5, JudgedFields DEF TypeOK
    <3>2. QED
      BY <3>1, <2>1, <2>2 DEF NumberedAt
  <2>6. QED
    BY <1>5, <2>3, <2>4, <2>5, JudgeTakes
<1>6. ASSUME Accept PROVE Numbered'
  <2> SUFFICES ASSUME NEW q \in Round PROVE NumberedAt(q)'
    BY DEF Numbered
  <2>1. NumberedAt(q)
    BY DEF Numbered
  <2>2. UNCHANGED <<attempts, sent, retries>>
    BY <1>6 DEF Accept, history
  <2>3. /\ jobs'[q].state = IF q = running THEN "COMPLETED" ELSE jobs[q].state
        /\ jobs'[q].attempts = jobs[q].attempts
    BY <1>6, AcceptTakes, AcceptedFields DEF TypeOK
  <2>4. QED
    BY <2>1, <2>2, <2>3 DEF NumberedAt
<1>7. ASSUME AcceptFault PROVE Numbered'
  <2> SUFFICES ASSUME NEW q \in Round PROVE NumberedAt(q)'
    BY DEF Numbered
  <2>1. NumberedAt(q)
    BY DEF Numbered
  <2>2. UNCHANGED <<attempts, sent, retries>>
    BY <1>7 DEF AcceptFault, history
  <2>3. /\ Kept(q)
        /\ jobs'[q].state = IF q = running THEN "FAILED_CONFIRMED"
                            ELSE jobs[q].state
    BY <1>7, AcceptFaultTakes, StopFields DEF TypeOK
  <2>4. QED
    BY <2>1, <2>2, <2>3 DEF NumberedAt, Kept
<1>8. ASSUME AnswerLost PROVE Numbered'
  <2> SUFFICES ASSUME NEW q \in Round PROVE NumberedAt(q)'
    BY DEF Numbered
  <2>1. NumberedAt(q)
    BY DEF Numbered
  <2>2. \A n \in Attempt :
          attempts'[q][n].state = "NONE" <=> attempts[q][n].state = "NONE"
    <3>1. jobs[running].attempts \in Attempt
      BY <1>8, AnswerLostTakes
    <3>2. /\ jobs[running].attempts \in Nat
          /\ attempts[running][jobs[running].attempts].state # "NONE"
      BY <3>1, <1>8, AnswerLostTakes DEF Numbered, NumberedAt, TypeOK, JobsOK, JobRow
    <3>3. QED
      BY <3>1, <3>2, <1>8, AnswerLostTakes, EndedFields DEF TypeOK
  <2>3. UNCHANGED <<sent, retries>>
    BY <1>8 DEF AnswerLost, history
  <2>4. CASE UNCHANGED jobs
    BY <2>1, <2>2, <2>3, <2>4 DEF NumberedAt
  <2>5. CASE Stop(running, "REMOTE_UNKNOWN") /\ running \in Round
    <3>1. Kept(q) /\ jobs'[q].state = IF q = running THEN "REMOTE_UNKNOWN"
                                      ELSE jobs[q].state
      BY <2>5, StopFields DEF TypeOK
    <3>2. QED
      BY <3>1, <2>1, <2>2, <2>3 DEF NumberedAt, Kept
  <2>6. QED
    BY <1>8, <2>4, <2>5, AnswerLostTakes
<1>9. ASSUME NEW result \in Results, Answer(result) PROVE Numbered'
  <2> SUFFICES ASSUME NEW q \in Round PROVE NumberedAt(q)'
    BY DEF Numbered
  <2>1. NumberedAt(q)
    BY DEF Numbered
  <2>2. \A n \in Attempt :
          attempts'[q][n].state = "NONE" <=> attempts[q][n].state = "NONE"
    <3>1. jobs[running].attempts \in Attempt
      BY <1>9, AnswerTakes
    <3>2. /\ jobs[running].attempts \in Nat
          /\ attempts[running][jobs[running].attempts].state # "NONE"
      BY <3>1, <1>9, AnswerTakes DEF Numbered, NumberedAt, TypeOK, JobsOK, JobRow
    <3>3. QED
      BY <3>1, <3>2, <1>9, AnswerTakes, EndedFields DEF TypeOK
  <2>3. UNCHANGED <<jobs, sent, retries>>
    BY <1>9 DEF Answer, history
  <2>4. QED
    BY <2>1, <2>2, <2>3 DEF NumberedAt
<1>10. ASSUME Run PROVE Numbered'
  <2> SUFFICES ASSUME NEW q \in Round PROVE NumberedAt(q)'
    BY DEF Numbered
  <2>1. NumberedAt(q)
    BY DEF Numbered
  <2>2. UNCHANGED <<attempts, sent, retries>>
    BY <1>10 DEF Run, history
  <2>3. QED
    BY <1>10, <2>1, <2>2, PumpFields, JobAssumption
       DEF TypeOK, NumberedAt, Kept, CountsOK
<1>11. ASSUME NEW r \in Round, Cancel(r) PROVE Numbered'
  <2> SUFFICES ASSUME NEW q \in Round PROVE NumberedAt(q)'
    BY DEF Numbered
  <2>1. NumberedAt(q)
    BY DEF Numbered
  <2>2. UNCHANGED <<attempts, sent, retries>>
    BY <1>11 DEF Cancel, history
  <2>3. Kept(q) /\ jobs'[q].state = IF q = r THEN "CANCELLED" ELSE jobs[q].state
    BY <1>11, StopFields DEF Cancel, TypeOK
  <2>4. QED
    BY <2>1, <2>2, <2>3 DEF NumberedAt, Kept
<1>12. ASSUME NEW r \in Round, Inspect(r) PROVE Numbered'
  <2> SUFFICES ASSUME NEW q \in Round PROVE NumberedAt(q)'
    BY DEF Numbered
  <2>1. NumberedAt(q)
    BY DEF Numbered
  <2>2. UNCHANGED <<attempts, sent, retries>>
    BY <1>12 DEF Inspect, history
  <2>3. Kept(q) /\ jobs'[q].state = IF q = r THEN "COMPLETED" ELSE jobs[q].state
    BY <1>12, StopFields DEF Inspect, TypeOK
  <2>4. QED
    BY <2>1, <2>2, <2>3 DEF NumberedAt, Kept
<1>13. ASSUME NEW r \in Round, Retry(r) PROVE Numbered'
  <2> SUFFICES ASSUME NEW q \in Round PROVE NumberedAt(q)'
    BY DEF Numbered
  <2>1. NumberedAt(q)
    BY DEF Numbered
  <2>2. UNCHANGED <<attempts, sent>>
    BY <1>13 DEF Retry
  <2>3. retries'[q] = IF q = r THEN retries[q] + 1 ELSE retries[q]
    BY <1>13 DEF Retry, TypeOK, CountsOK
  <2>4. /\ jobs'[q].state = IF q = r THEN "QUEUED" ELSE jobs[q].state
        /\ jobs'[q].attempts = jobs[q].attempts
    BY <1>13, RetryFields DEF TypeOK
  <2>5. jobs[r].attempts < AttemptLimit
    BY <1>13 DEF Retry, MayRetry
  <2>6. jobs[q].attempts \in Nat /\ retries[q] \in Nat
    BY DEF TypeOK, JobsOK, JobRow, CountsOK
  <2>7. QED
    BY <2>1, <2>2, <2>3, <2>4, <2>5, <2>6 DEF NumberedAt
<1>14. ASSUME Purge PROVE Numbered'
  <2> SUFFICES ASSUME NEW q \in Round PROVE NumberedAt(q)'
    BY DEF Numbered
  <2>1. NumberedAt(q)
    BY DEF Numbered
  <2>2. UNCHANGED <<attempts, sent, retries>>
    BY <1>14 DEF Purge, history
  <2>3. /\ jobs[q].state = "NONE" => jobs'[q] = NoJob
        /\ jobs[q].state # "NONE" =>
             jobs'[q].state = "CANCELLED" /\ jobs'[q].attempts = jobs[q].attempts
    BY <1>14, PurgeFields DEF TypeOK
  <2>4. NoJob.state = "NONE" /\ NoJob.attempts = 0
    BY DEF NoJob
  <2>5. QED
    BY <2>1, <2>2, <2>3, <2>4 DEF NumberedAt
<1>15. ASSUME Restart PROVE Numbered'
  <2> SUFFICES ASSUME NEW q \in Round PROVE NumberedAt(q)'
    BY DEF Numbered
  <2>1. NumberedAt(q)
    BY DEF Numbered
  <2>2. UNCHANGED <<sent, retries>>
    BY <1>15 DEF Restart, history
  <2>3. /\ Kept(q)
        /\ jobs'[q].state = IF jobs[q].state # "RUNNING" THEN jobs[q].state
                            ELSE IF q \in chapters THEN "COMPLETED"
                            ELSE "REMOTE_UNKNOWN"
        /\ \A n \in Attempt :
             attempts'[q][n].state = IF attempts[q][n].state = "SENDING"
                                     THEN "UNKNOWN" ELSE attempts[q][n].state
    BY <1>15, RestartFields DEF TypeOK
  <2>4. QED
    BY <2>1, <2>2, <2>3 DEF NumberedAt, Kept
<1>16. QED
  BY NumberedFrame, <1>1, <1>2, <1>3, <1>4, <1>5, <1>6, <1>7, <1>8, <1>9,
     <1>10, <1>11, <1>12, <1>13, <1>14, <1>15

(* Jobs, calls and the pump.                                               *)
LEMMA HeldFrame ==
  ASSUME [Next]_vars
  PROVE  \/ UNCHANGED <<jobs, sent, up, volatile>>
         \/ Pump \/ NothingQueued \/ Execute \/ Send \/ Judge \/ Intent
         \/ Accept \/ AcceptFault \/ AnswerLost
         \/ (\E result \in Results : Answer(result))
         \/ (\E enabled, granted \in BOOLEAN : Configure(enabled, granted))
         \/ Run \/ MoveConnection \/ Govern \/ Purge \/ Halt \/ Restart
         \/ (\E r \in Round : Cancel(r) \/ Inspect(r) \/ Retry(r))
BY DEF Next, PumpStep, AnswerStep, UserStep, WorldStep, vars, durable,
     world, volatile, history, bounds, MoveSource, Free, Move, MoveGrant,
     Midnight

(* A pump at rest holds nothing.                                           *)
LEMMA RestHeld ==
  ASSUME Rest
  PROVE  Held'
BY DEF Rest, Held

(* A job whose call is out stays what it is, or is cancelled.              *)
LEMMA HeldKept ==
  ASSUME TypeOK, Held, place \in {"rest", "sent"}, up',
         UNCHANGED <<running, place, sent>>,
         place = "rest" => ~aborted',
         place = "sent" => jobs'[running].state \in {"RUNNING", "CANCELLED"}
  PROVE  Held'
BY DEF Held

(* What is known of the job the pump holds stays known.                    *)
LEMMA HeldStep ==
  ASSUME TypeOK, Numbered, Held, Candidates, ChapterIsWhole, [Next]_vars
  PROVE  Held'
<1>1. CASE UNCHANGED <<jobs, sent, up, volatile>>
  BY <1>1 DEF volatile, Held
<1>2. ASSUME Pump PROVE Held'
  BY <1>2 DEF Pump, Held
<1>3. ASSUME NothingQueued PROVE Held'
  BY <1>3 DEF NothingQueued, Goto, Held
<1>4. ASSUME Execute PROVE Held'
  <2>1. PICK r \in Round : Taken(r)
    BY <1>4, ExecuteTakes
  <2> USE DEF Taken
  <2>2. Rest => Held'
    BY RestHeld
  <2>3. r # None /\ UNCHANGED <<sent, up>>
    BY <2>1, JobAssumption DEF history
  <2>4. CASE /\ jobs[r].candidate # 0 /\ Stop(r, "RUNNING")
             /\ running' = r /\ place' = "accepting"
    <3>1. jobs'[r].state = "RUNNING"
      BY <2>4, StopFields DEF TypeOK
    <3>2. sent[r] > 0
      BY <2>4 DEF Candidates
    <3>3. QED
      BY <2>1, <2>3, <2>4, <3>1, <3>2 DEF Held
  <2>5. CASE Charged(r) /\ running' = r /\ place' = "reserved"
    <3>1. jobs'[r].state = "RUNNING" /\ jobs'[r].attempts = jobs[r].attempts + 1
      BY <2>1, <2>5, Room, ChargedFields DEF TypeOK, WorldOK
    <3>2. /\ sent[r] <= jobs[r].attempts
          /\ sent[r] \in Nat /\ jobs[r].attempts \in Nat
      BY DEF Numbered, NumberedAt, TypeOK, CountsOK, JobsOK, JobRow
    <3>3. QED
      BY <2>1, <2>3, <2>5, <3>1, <3>2 DEF Held
  <2>6. QED
    BY <2>1, <2>2, <2>4, <2>5
<1>5. ASSUME Send PROVE Held'
  <2>1. running \in Round /\ up /\ place = "reserved" /\ place' = "sent"
    BY <1>5, RunningIs DEF Send, Goto
  <2>2. UNCHANGED <<jobs, up, running>>
    BY <1>5 DEF Send, Goto, durable
  <2>3. sent'[running] = sent[running] + 1 /\ sent[running] \in Nat
    BY <1>5, <2>1 DEF Send, TypeOK, CountsOK
  <2>4. running # None
    BY <2>1, JobAssumption
  <2>5. QED
    BY <2>1, <2>2, <2>3, <2>4 DEF Held
<1>6. ASSUME Judge PROVE Held'
  <2>1. CASE Rest
    BY <2>1, RestHeld
  <2>2. CASE /\ Current(running, TRUE) = "ok" /\ jobs[running].state = "RUNNING"
             /\ jobs' = [jobs EXCEPT ![running].candidate = jobs[running].digest]
             /\ Goto("accepting")
    <3>1. running \in Round /\ up /\ place = "answered" /\ UNCHANGED <<sent, up>>
      BY <1>6, JudgeTakes DEF history
    <3>2. jobs'[running].state = "RUNNING"
      BY <2>2, <3>1, JudgedFields DEF TypeOK
    <3>3. QED
      BY <2>2, <3>1, <3>2 DEF Held, Goto
  <2>3. QED
    BY <1>6, <2>1, <2>2, JudgeTakes
<1>7. ASSUME Intent PROVE Held'
  BY <1>7 DEF Intent, Goto, history, Held
<1>8. ASSUME Accept PROVE Held'
  BY <1>8, RestHeld DEF Accept
<1>9. ASSUME AcceptFault PROVE Held'
  BY <1>9, RestHeld DEF AcceptFault, Fail
<1>10. ASSUME AnswerLost PROVE Held'
  BY <1>10, RestHeld DEF AnswerLost
<1>11. ASSUME NEW result \in Results, Answer(result) PROVE Held'
  <2>1. UNCHANGED sent
    BY <1>11 DEF Answer, history
  <2>2. QED
    BY <1>11, <2>1, AnswerTakes DEF Held
<1>12. ASSUME NEW enabled \in BOOLEAN, NEW granted \in BOOLEAN,
              Configure(enabled, granted)
       PROVE  Held'
  BY <1>12 DEF Configure, Free, durable, history, Held
<1>13. ASSUME Run PROVE Held'
  <2>1. /\ up' /\ place \in {"rest", "sent"}
        /\ UNCHANGED <<running, place, sent, aborted>>
    BY <1>13 DEF Run, Free, volatile, history
  <2>2. place = "sent" => jobs'[running].state \in {"RUNNING", "CANCELLED"}
    BY <1>13, RunningIs, PumpFields DEF Held, TypeOK
  <2>3. QED
    BY <2>1, <2>2, HeldKept DEF Held
<1>14. ASSUME NEW r \in Round, Cancel(r) PROVE Held'
  <2>1. /\ up' /\ place \in {"rest", "sent"} /\ UNCHANGED <<running, place, sent>>
        /\ aborted' = (aborted \/ running = r)
    BY <1>14 DEF Cancel, Free, history
  <2>2. place = "sent" => jobs'[running].state \in {"RUNNING", "CANCELLED"}
    BY <1>14, RunningIs, StopFields DEF Cancel, Held, TypeOK
  <2>3. place = "rest" => ~aborted'
    BY <2>1, JobAssumption DEF Held
  <2>4. QED
    BY <2>1, <2>2, <2>3, HeldKept
<1>15. ASSUME NEW r \in Round, Inspect(r) PROVE Held'
  <2>1. /\ up' /\ place \in {"rest", "sent"}
        /\ UNCHANGED <<running, place, sent, aborted>>
    BY <1>15 DEF Inspect, Free, volatile, history
  <2>2. jobs[r].state = "COMPLETED"
    BY <1>15 DEF Inspect, ChapterIsWhole
  <2>3. place = "sent" => jobs'[running].state \in {"RUNNING", "CANCELLED"}
    BY <1>15, <2>2, RunningIs, StopFields DEF Inspect, Held, TypeOK
  <2>4. QED
    BY <2>1, <2>3, HeldKept DEF Held
<1>16. ASSUME NEW r \in Round, Retry(r) PROVE Held'
  <2>1. /\ up' /\ place \in {"rest", "sent"}
        /\ UNCHANGED <<running, place, sent, aborted>>
    BY <1>16 DEF Retry, Free, volatile
  <2>2. jobs[r].state \notin {"RUNNING", "CANCELLED"}
    BY <1>16 DEF Retry, MayRetry
  <2>3. place = "sent" => jobs'[running].state \in {"RUNNING", "CANCELLED"}
    BY <1>16, <2>2, RunningIs, RetryFields DEF Held, TypeOK
  <2>4. QED
    BY <2>1, <2>3, HeldKept DEF Held
<1>17. ASSUME MoveConnection PROVE Held'
  BY <1>17 DEF MoveConnection, Free, durable, history, Held
<1>18. ASSUME Govern PROVE Held'
  BY <1>18 DEF Govern, Free, durable, history, Held
<1>19. ASSUME Purge PROVE Held'
  <2>1. /\ up' /\ place \in {"rest", "sent"} /\ UNCHANGED <<running, place, sent>>
        /\ aborted' = (place = "sent")
    BY <1>19 DEF Purge, Free, history
  <2>2. place = "sent" => jobs'[running].state \in {"RUNNING", "CANCELLED"}
    BY <1>19, RunningIs, PurgeFields DEF Held, TypeOK
  <2>3. QED
    BY <2>1, <2>2, HeldKept
<1>20. ASSUME Halt PROVE Held'
  BY <1>20, RestHeld DEF Halt
<1>21. ASSUME Restart PROVE Held'
  BY <1>21 DEF Restart, volatile, Held
<1>22. QED
  BY HeldFrame, <1>1, <1>2, <1>3, <1>4, <1>5, <1>6, <1>7, <1>8, <1>9, <1>10,
     <1>11, <1>12, <1>13, <1>14, <1>15, <1>16, <1>17, <1>18, <1>19, <1>20,
     <1>21

(* Jobs and calls.                                                         *)
LEMMA CandidatesFrame ==
  ASSUME [Next]_vars
  PROVE  \/ UNCHANGED <<jobs, sent>>
         \/ Pump \/ Execute \/ Send \/ Judge \/ Accept \/ AcceptFault
         \/ AnswerLost \/ Run \/ Purge \/ Restart
         \/ (\E r \in Round : Cancel(r) \/ Inspect(r) \/ Retry(r))
BY DEF Next, PumpStep, AnswerStep, UserStep, WorldStep, vars, durable,
     world, volatile, history, bounds, NothingQueued, Goto, Intent, Answer,
     Last, Configure, Free, MoveSource, Move, MoveGrant, MoveConnection,
     Govern, Midnight, Halt, Rest

(* A candidate that is kept stays one.                                     *)
LEMMA CandidateKept ==
  ASSUME TypeOK, Candidates, UNCHANGED sent,
         \A q \in Round : jobs'[q].candidate # 0 =>
           /\ jobs'[q].candidate = jobs[q].candidate
           /\ jobs'[q].digest = jobs[q].digest
  PROVE  Candidates'
BY DEF Candidates

(* A candidate has been made from the source its job names, by a call.     *)
LEMMA CandidatesStep ==
  ASSUME TypeOK, Numbered, Held, Candidates, [Next]_vars
  PROVE  Candidates'
<1>1. CASE UNCHANGED <<jobs, sent>>
  BY <1>1 DEF Candidates
<1>2. ASSUME Pump PROVE Candidates'
  <2>1. UNCHANGED sent
    BY <1>2 DEF Pump, history
  <2>2. \A q \in Round : jobs'[q].candidate # 0 =>
          /\ jobs'[q].candidate = jobs[q].candidate
          /\ jobs'[q].digest = jobs[q].digest
    BY <1>2, PumpFields
       DEF Pump, TypeOK, Kept
  <2>3. QED
    BY <2>1, <2>2, CandidateKept
<1>3. ASSUME Execute PROVE Candidates'
  <2>1. PICK r \in Round : Taken(r)
    BY <1>3, ExecuteTakes
  <2> USE DEF Taken
  <2>2. UNCHANGED sent
    BY <2>1 DEF history
  <2>3. \A s \in States : Stop(r, s) => Candidates'
    BY <2>2, StopFields, CandidateKept DEF TypeOK, Kept
  <2>4. Charged(r) => Candidates'
    BY <2>1, <2>2, Room, ChargedFields, CandidateKept DEF TypeOK, WorldOK
  <2>5. QED
    BY <2>1, <2>3, <2>4
<1>4. ASSUME Send PROVE Candidates'
  <2>1. running \in Round
    BY <1>4, RunningIs DEF Send
  <2>2. UNCHANGED jobs
    BY <1>4 DEF Send, durable
  <2>3. \A q \in Round : sent[q] > 0 => sent'[q] > 0
    BY <1>4, <2>1 DEF Send, TypeOK, CountsOK
  <2>4. QED
    BY <2>2, <2>3 DEF Candidates
<1>5. ASSUME Judge PROVE Candidates'
  <2>1. UNCHANGED sent /\ running \in Round
    BY <1>5, JudgeTakes DEF history
  <2>2. UNCHANGED jobs => Candidates'
    BY <2>1 DEF Candidates
  <2>3. \A s \in States : Stop(running, s) => Candidates'
    BY <2>1, StopFields, CandidateKept DEF TypeOK, Kept
  <2>4. CASE jobs' = [jobs EXCEPT ![running].candidate = jobs[running].digest]
    <3>1. sent[running] > 0
      BY <1>5, JudgeTakes DEF Held
    <3>2. \A q \in Round :
            /\ jobs'[q].digest = jobs[q].digest
            /\ jobs'[q].candidate = IF q = running THEN jobs[q].digest
                                                   ELSE jobs[q].candidate
      BY <2>1, <2>4, JudgedFields DEF TypeOK
    <3>3. QED
      BY <2>1, <3>1, <3>2 DEF Candidates
  <2>5. QED
    BY <1>5, <2>2, <2>3, <2>4, JudgeTakes
<1>6. ASSUME Accept PROVE Candidates'
  <2>1. UNCHANGED sent
    BY <1>6 DEF Accept, history
  <2>2. \A q \in Round : jobs'[q].candidate # 0 =>
          /\ jobs'[q].candidate = jobs[q].candidate
          /\ jobs'[q].digest = jobs[q].digest
    BY <1>6, AcceptTakes, AcceptedFields
       DEF TypeOK
  <2>3. QED
    BY <2>1, <2>2, CandidateKept
<1>7. ASSUME AcceptFault PROVE Candidates'
  <2>1. UNCHANGED sent
    BY <1>7 DEF AcceptFault, history
  <2>2. \A q \in Round : jobs'[q].candidate # 0 =>
          /\ jobs'[q].candidate = jobs[q].candidate
          /\ jobs'[q].digest = jobs[q].digest
    BY <1>7, AcceptFaultTakes, StopFields
       DEF TypeOK, Kept
  <2>3. QED
    BY <2>1, <2>2, CandidateKept
<1>8. ASSUME AnswerLost PROVE Candidates'
  <2>1. UNCHANGED sent
    BY <1>8 DEF AnswerLost, history
  <2>2. UNCHANGED jobs => Candidates'
    BY <2>1 DEF Candidates
  <2>3. running \in Round /\ Stop(running, "REMOTE_UNKNOWN") => Candidates'
    BY <2>1, StopFields, CandidateKept DEF TypeOK, Kept
  <2>4. QED
    BY <1>8, <2>2, <2>3, AnswerLostTakes
<1>9. ASSUME Run PROVE Candidates'
  <2>1. UNCHANGED sent
    BY <1>9 DEF Run, history
  <2>2. \A q \in Round : jobs'[q].candidate # 0 =>
          /\ jobs'[q].candidate = jobs[q].candidate
          /\ jobs'[q].digest = jobs[q].digest
    BY <1>9, PumpFields
       DEF TypeOK, Kept
  <2>3. QED
    BY <2>1, <2>2, CandidateKept
<1>10. ASSUME NEW r \in Round, Cancel(r) PROVE Candidates'
  <2>1. UNCHANGED sent
    BY <1>10 DEF Cancel, history
  <2>2. \A q \in Round : jobs'[q].candidate # 0 =>
          /\ jobs'[q].candidate = jobs[q].candidate
          /\ jobs'[q].digest = jobs[q].digest
    BY <1>10, StopFields
       DEF Cancel, TypeOK, Kept
  <2>3. QED
    BY <2>1, <2>2, CandidateKept
<1>11. ASSUME NEW r \in Round, Inspect(r) PROVE Candidates'
  <2>1. UNCHANGED sent
    BY <1>11 DEF Inspect, history
  <2>2. \A q \in Round : jobs'[q].candidate # 0 =>
          /\ jobs'[q].candidate = jobs[q].candidate
          /\ jobs'[q].digest = jobs[q].digest
    BY <1>11, StopFields
       DEF Inspect, TypeOK, Kept
  <2>3. QED
    BY <2>1, <2>2, CandidateKept
<1>12. ASSUME NEW r \in Round, Retry(r) PROVE Candidates'
  <2>1. UNCHANGED sent
    BY <1>12 DEF Retry
  <2>2. \A q \in Round : /\ jobs'[q].candidate = jobs[q].candidate
                        /\ \/ jobs'[q].digest = jobs[q].digest
                           \/ jobs[q].digest = 0
    BY <1>12, RetryFields DEF TypeOK
  <2>3. \A q \in Round : jobs'[q].candidate # 0 =>
          /\ jobs'[q].candidate = jobs[q].candidate
          /\ jobs'[q].digest = jobs[q].digest
    BY <2>2 DEF Candidates
  <2>4. QED
    BY <2>1, <2>3, CandidateKept
<1>13. ASSUME Purge PROVE Candidates'
  <2>1. UNCHANGED sent
    BY <1>13 DEF Purge, history
  <2>2. \A q \in Round : jobs'[q].candidate # 0 =>
          /\ jobs'[q].candidate = jobs[q].candidate
          /\ jobs'[q].digest = jobs[q].digest
    BY <1>13, PurgeFields
       DEF TypeOK, NoJob
  <2>3. QED
    BY <2>1, <2>2, CandidateKept
<1>14. ASSUME Restart PROVE Candidates'
  <2>1. UNCHANGED sent
    BY <1>14 DEF Restart, history
  <2>2. \A q \in Round : jobs'[q].candidate # 0 =>
          /\ jobs'[q].candidate = jobs[q].candidate
          /\ jobs'[q].digest = jobs[q].digest
    BY <1>14, RestartFields
       DEF TypeOK, Kept
  <2>3. QED
    BY <2>1, <2>2, CandidateKept
<1>15. QED
  BY CandidatesFrame, <1>1, <1>2, <1>3, <1>4, <1>5, <1>6, <1>7, <1>8, <1>9,
     <1>10, <1>11, <1>12, <1>13, <1>14

(* A commit is made ready by a check, or goes on from one.                 *)
LEMMA CommitFrame ==
  ASSUME TypeOK, Held, [Next]_vars, place' \in {"accepting", "intent"}
  PROVE  Execute \/ Judge \/ Intent \/ UNCHANGED <<jobs, world, volatile>>
BY DEF Next, PumpStep, AnswerStep, UserStep, WorldStep, vars, durable,
     world, volatile, history, bounds, Held, Pump, Scan, Scanned,
     NothingQueued, Goto, Send, Accept, Rest, AcceptFault, Fail, Stop, Over,
     AnswerLost, Last, Answer, Configure, Free, Run, Cancel, Inspect, Retry,
     MayRetry, Requeued, MoveSource, Move, MoveGrant, MoveConnection,
     Govern, Purge, Midnight, Halt, Restart, Recovered, UnknownAttempt

(* Between its last check and its commit, a job keeps what it was checked  *)
(* against.                                                                *)
LEMMA CheckedStep ==
  ASSUME TypeOK, Numbered, Held, Candidates, Checked, [Next]_vars
  PROVE  Checked'
<1> SUFFICES ASSUME place' \in {"accepting", "intent"} PROVE Checked'
  BY DEF Checked
<1>1. CASE UNCHANGED <<jobs, world, volatile>>
  BY <1>1 DEF Checked, world, volatile
<1>2. ASSUME Execute PROVE Checked'
  <2>1. PICK r \in Round : Taken(r)
    BY <1>2, ExecuteTakes
  <2> USE DEF Taken
  <2>2. place' = "accepting"
    BY <2>1 DEF Rest
  <2>3. /\ Current(r, FALSE) = "ok" /\ jobs[r].candidate # 0
        /\ Stop(r, "RUNNING") /\ running' = r /\ seen' = identity
        /\ UNCHANGED world
    BY <2>1, <2>2 DEF Rest
  <2>4. Kept(r)
    BY <2>3, StopFields DEF TypeOK
  <2>5. /\ config.version = jobs[r].config /\ ~gone /\ config.enabled /\ grant
        /\ source[r].readable /\ source[r].usable
        /\ source[r].text = jobs[r].digest
    BY <2>3, CurrentOk
  <2>6. jobs[r].candidate = jobs[r].digest
    BY <2>3 DEF Candidates
  <2>7. QED
    BY <2>3, <2>4, <2>5, <2>6 DEF Checked, Kept, world
<1>3. ASSUME Judge PROVE Checked'
  <2>1. /\ Current(running, TRUE) = "ok" /\ running \in Round
        /\ jobs' = [jobs EXCEPT ![running].candidate = jobs[running].digest]
        /\ Goto("accepting") /\ UNCHANGED world
    BY <1>3, JudgeTakes DEF Rest
  <2>2. /\ jobs'[running].config = jobs[running].config
        /\ jobs'[running].digest = jobs[running].digest
        /\ jobs'[running].candidate = jobs[running].digest
    BY <2>1, JudgedFields DEF TypeOK
  <2>3. /\ config.version = jobs[running].config
        /\ ~gone /\ config.enabled /\ grant /\ seen = identity
        /\ source[running].readable /\ source[running].usable
        /\ source[running].text = jobs[running].digest
    BY <2>1, CurrentOk
  <2>4. QED
    BY <2>1, <2>2, <2>3 DEF Checked, Goto, world
<1>4. ASSUME Intent PROVE Checked'
  BY <1>4 DEF Intent, Goto, world, Checked
<1>5. QED
  BY CommitFrame, <1>1, <1>2, <1>3, <1>4

(* Jobs, attempts and the pump.                                            *)
LEMMA OpenedFrame ==
  ASSUME [Next]_vars
  PROVE  \/ UNCHANGED <<jobs, attempts, up, volatile>>
         \/ Pump \/ NothingQueued \/ Execute \/ Send \/ Judge \/ Intent
         \/ Accept \/ AcceptFault \/ AnswerLost
         \/ (\E result \in Results : Answer(result))
         \/ (\E enabled, granted \in BOOLEAN : Configure(enabled, granted))
         \/ Run \/ MoveConnection \/ Govern \/ Purge \/ Halt \/ Restart
         \/ (\E r \in Round : Cancel(r) \/ Inspect(r) \/ Retry(r))
BY DEF Next, PumpStep, AnswerStep, UserStep, WorldStep, vars, durable,
     world, volatile, history, bounds, MoveSource, Free, Move, MoveGrant,
     Midnight

(* Where no call is out, only cancelled jobs have an attempt without an    *)
(* answer; a job runs only where the pump holds it.                        *)
LEMMA Settled ==
  ASSUME TypeOK, Held, Opened, up, place \notin {"reserved", "sent"}
  PROVE  \A q \in Round :
           /\ jobs[q].state = "RUNNING" => running = q
           /\ place \in {"rest", "scanned"} => jobs[q].state # "RUNNING"
           /\ \A n \in Attempt :
                attempts[q][n].state = "SENDING" => jobs[q].state = "CANCELLED"
BY JobAssumption DEF Held, Opened

(* A step that leaves attempts alone and only ends or cancels jobs.        *)
LEMMA OpenedKept ==
  ASSUME Opened, up, UNCHANGED <<attempts, running, place>>,
         \A q \in Round :
           /\ jobs'[q].state = "RUNNING" => jobs[q].state = "RUNNING"
           /\ jobs[q].state = "CANCELLED" => jobs'[q].state = "CANCELLED"
           /\ jobs'[q].attempts = jobs[q].attempts \/ jobs'[q].state = "CANCELLED"
              \/ \A n \in Attempt : attempts[q][n].state # "SENDING"
  PROVE  Opened'
BY DEF Opened

(* Where no call was out and no attempt is made.                           *)
LEMMA OpenedRest ==
  ASSUME TypeOK, Held, Opened, up, place \notin {"reserved", "sent"},
         UNCHANGED attempts,
         \A q \in Round :
           /\ jobs'[q].state = "RUNNING" =>
                running' = q \/ (jobs[q].state = "RUNNING" /\ running' = running)
           /\ jobs[q].state = "CANCELLED" => jobs'[q].state = "CANCELLED"
  PROVE  Opened'
<1>1. \A q \in Round :
        /\ jobs[q].state = "RUNNING" => running = q
        /\ \A n \in Attempt :
             attempts[q][n].state = "SENDING" => jobs[q].state = "CANCELLED"
  BY Settled
<1>2. QED
  BY <1>1 DEF Opened

(* An attempt without an answer stays that of the job whose call is out,   *)
(* or of a cancelled one.                                                  *)
LEMMA OpenedStep ==
  ASSUME TypeOK, Numbered, Held, Opened, ChapterIsWhole, [Next]_vars
  PROVE  Opened'
<1>1. CASE UNCHANGED <<jobs, attempts, up, volatile>>
  BY <1>1 DEF volatile, Opened
<1>2. ASSUME Pump PROVE Opened'
  <2>1. /\ up /\ place = "rest" /\ UNCHANGED <<attempts, running>>
        /\ JobsOK /\ WorldOK /\ Scan
    BY <1>2 DEF Pump, TypeOK
  <2>2. \A q \in Round :
          /\ jobs'[q].state = "RUNNING" => jobs[q].state = "RUNNING"
          /\ jobs[q].state = "CANCELLED" => jobs'[q].state = "CANCELLED"
    BY <2>1, PumpFields
  <2>3. QED
    BY <2>1, <2>2, OpenedRest
<1>3. ASSUME NothingQueued PROVE Opened'
  BY <1>3 DEF NothingQueued, Goto, durable, Opened
<1>4. ASSUME Execute PROVE Opened'
  <2>1. PICK r \in Round : Taken(r)
    BY <1>4, ExecuteTakes
  <2> USE DEF Taken
  <2>2. up /\ place = "scanned" /\ running = None
    BY <2>1 DEF Held
  <2>3. ASSUME NEW s \in Blocked \cup {"BUDGET_PAUSED"}, Stop(r, s),
               UNCHANGED attempts, Rest
        PROVE  Opened'
    <3>1. \A q \in Round :
            jobs'[q].state = IF q = r THEN s ELSE jobs[q].state
      BY <2>3, StopFields DEF TypeOK
    <3>2. QED
      BY <2>1, <2>2, <2>3, <3>1, OpenedRest DEF Rest
  <2>4. CASE Stop(r, "RUNNING") /\ UNCHANGED attempts /\ running' = r
    <3>1. \A q \in Round :
            jobs'[q].state = IF q = r THEN "RUNNING" ELSE jobs[q].state
      BY <2>4, StopFields DEF TypeOK
    <3>2. \A q \in Round : jobs[q].state # "RUNNING"
      BY <2>2, Settled
    <3>3. QED
      BY <2>1, <2>2, <2>4, <3>1, <3>2, OpenedRest
  <2>5. CASE Charged(r) /\ running' = r /\ place' = "reserved"
    <3>1. \A q \in Round :
            /\ jobs'[q].attempts = IF q = r THEN jobs[q].attempts + 1
                                            ELSE jobs[q].attempts
            /\ jobs'[q].state = IF q = r THEN "RUNNING" ELSE jobs[q].state
            /\ \A n \in Attempt :
                 attempts'[q][n] = IF q = r /\ n = jobs[q].attempts + 1
                                   THEN [state |-> "SENDING", day |-> day]
                                   ELSE attempts[q][n]
      BY <2>1, <2>5, Room, ChargedFields DEF TypeOK, WorldOK
    <3>2. \A q \in Round :
            /\ jobs[q].state # "RUNNING"
            /\ \A n \in Attempt :
                 attempts[q][n].state = "SENDING" => jobs[q].state = "CANCELLED"
      BY <2>2, Settled
    <3>3. ASSUME NEW q \in Round, jobs'[q].state = "RUNNING" PROVE running' = q
      BY <2>5, <3>1, <3>2, <3>3
    <3>4. ASSUME NEW q \in Round, NEW n \in Attempt,
                 attempts'[q][n].state = "SENDING"
          PROVE  \/ jobs'[q].state = "CANCELLED"
                 \/ /\ running' = q /\ place' \in {"reserved", "sent"}
                    /\ n = jobs'[q].attempts
      <4>1. CASE q = r /\ n = jobs[q].attempts + 1
        BY <2>5, <3>1, <4>1
      <4>2. CASE ~ (q = r /\ n = jobs[q].attempts + 1)
        <5>1. attempts'[q][n] = attempts[q][n]
          BY <3>1, <4>2
        <5>2. jobs[q].state = "CANCELLED"
          BY <3>2, <3>4, <5>1
        <5>3. QED
          BY <2>1, <3>1, <5>2
      <4>3. QED
        BY <4>1, <4>2
    <3>5. QED
      BY <3>3, <3>4 DEF Opened
  <2>6. QED
    BY <2>1, <2>3, <2>4, <2>5
<1>5. ASSUME Send PROVE Opened'
  BY <1>5 DEF Send, Goto, durable, Opened
<1>6. ASSUME Judge PROVE Opened'
  <2>1. /\ running \in Round /\ up /\ place = "answered"
        /\ UNCHANGED attempts
    BY <1>6, JudgeTakes
  <2>2. CASE jobs[running].state = "CANCELLED" /\ UNCHANGED jobs /\ Rest
    BY <2>1, <2>2 DEF Opened
  <2>3. ASSUME NEW s \in Blocked \cup {"REMOTE_UNKNOWN"},
               jobs[running].state = "RUNNING", Stop(running, s), Rest
        PROVE  Opened'
    <3>1. \A q \in Round :
            jobs'[q].state = IF q = running THEN s ELSE jobs[q].state
      BY <2>1, <2>3, StopFields DEF TypeOK
    <3>2. QED
      BY <2>1, <2>3, <3>1 DEF Opened
  <2>4. CASE /\ jobs' = [jobs EXCEPT ![running].candidate = jobs[running].digest]
             /\ Goto("accepting")
    <3>1. \A q \in Round : jobs'[q].state = jobs[q].state
      BY <2>1, <2>4, JudgedFields DEF TypeOK
    <3>2. QED
      BY <2>1, <2>4, <3>1, OpenedRest DEF Goto
  <2>5. QED
    BY <1>6, <2>2, <2>3, <2>4, JudgeTakes
<1>7. ASSUME Intent PROVE Opened'
  BY <1>7 DEF Intent, Goto, Opened
<1>8. ASSUME Accept PROVE Opened'
  <2>1. /\ running \in Round /\ up /\ place = "intent"
        /\ jobs[running].state = "RUNNING" /\ UNCHANGED attempts
    BY <1>8, AcceptTakes
  <2>2. \A q \in Round :
          jobs'[q].state = IF q = running THEN "COMPLETED" ELSE jobs[q].state
    BY <1>8, AcceptTakes, AcceptedFields DEF TypeOK
  <2>3. QED
    BY <2>1, <2>2 DEF Opened
<1>9. ASSUME AcceptFault PROVE Opened'
  <2>1. /\ running \in Round /\ up /\ place = "intent"
        /\ jobs[running].state = "RUNNING" /\ UNCHANGED attempts
    BY <1>9, AcceptFaultTakes
  <2>2. \A q \in Round :
          jobs'[q].state = IF q = running THEN "FAILED_CONFIRMED"
                                          ELSE jobs[q].state
    BY <1>9, AcceptFaultTakes, StopFields DEF TypeOK
  <2>3. QED
    BY <2>1, <2>2 DEF Opened
<1>10. ASSUME AnswerLost PROVE Opened'
  <2>1. /\ running \in Round /\ up
        /\ jobs[running].state \in {"RUNNING", "CANCELLED"}
    BY <1>10, AnswerLostTakes
  <2>2. CASE jobs[running].state = "CANCELLED"
    <3>1. UNCHANGED <<jobs, attempts>>
      BY <1>10, <2>2, AnswerLostTakes
    <3>2. QED
      BY <2>1, <2>2, <3>1 DEF Opened
  <2>3. CASE jobs[running].state = "RUNNING"
    <3>1. \A q \in Round :
            jobs'[q].state = IF q = running THEN "REMOTE_UNKNOWN"
                                            ELSE jobs[q].state
      BY <1>10, <2>3, AnswerLostTakes, StopFields DEF TypeOK
    <3>2. \A q \in Round, n \in Attempt :
            attempts'[q][n].state = "SENDING" =>
              /\ attempts[q][n].state = "SENDING"
              /\ ~ (q = running /\ n = jobs[running].attempts)
      BY <1>10, <2>3, AnswerLostTakes, EndedFields DEF TypeOK
    <3>3. QED
      BY <2>1, <2>3, <3>1, <3>2 DEF Opened
  <2>4. QED
    BY <2>1, <2>2, <2>3
<1>11. ASSUME NEW result \in Results, Answer(result) PROVE Opened'
  <2>1. /\ up /\ UNCHANGED <<jobs, running>>
    BY <1>11, AnswerTakes
  <2>2. \A q \in Round, n \in Attempt :
          attempts'[q][n].state = "SENDING" =>
            /\ attempts[q][n].state = "SENDING"
            /\ ~ (q = running /\ n = jobs[running].attempts)
    BY <1>11, AnswerTakes, EndedFields DEF TypeOK
  <2>3. QED
    BY <2>1, <2>2 DEF Opened
<1>12. ASSUME NEW enabled \in BOOLEAN, NEW granted \in BOOLEAN,
              Configure(enabled, granted)
       PROVE  Opened'
  BY <1>12 DEF Configure, durable, Opened
<1>13. ASSUME Run PROVE Opened'
  <2>1. up /\ UNCHANGED <<attempts, running, place>>
    BY <1>13 DEF Run, Free, volatile
  <2>2. \A q \in Round : jobs[q].state = "NONE" =>
          \A n \in Attempt : attempts[q][n].state # "SENDING"
    <3>1. ASSUME NEW q \in Round, jobs[q].state = "NONE", NEW n \in Attempt
          PROVE  attempts[q][n].state # "SENDING"
      <4>1. jobs[q].attempts = 0
        BY <3>1 DEF Numbered, NumberedAt
      <4>2. ~ (n <= jobs[q].attempts)
        BY <4>1
      <4>3. QED
        BY <4>2 DEF Numbered, NumberedAt
    <3>2. QED
      BY <3>1
  <2>3. \A q \in Round :
          /\ jobs'[q].state = "RUNNING" => jobs[q].state = "RUNNING"
          /\ jobs[q].state = "CANCELLED" => jobs'[q].state = "CANCELLED"
          /\ jobs'[q].attempts = jobs[q].attempts \/ jobs'[q].state = "CANCELLED"
             \/ \A n \in Attempt : attempts[q][n].state # "SENDING"
    BY <1>13, <2>2, PumpFields DEF TypeOK, Kept
  <2>4. QED
    BY <2>1, <2>3, OpenedKept
<1>14. ASSUME NEW r \in Round, Cancel(r) PROVE Opened'
  <2>1. up /\ UNCHANGED <<attempts, running, place>>
    BY <1>14 DEF Cancel, Free, volatile
  <2>2. \A q \in Round :
          /\ jobs'[q].state = "RUNNING" => jobs[q].state = "RUNNING"
          /\ jobs[q].state = "CANCELLED" => jobs'[q].state = "CANCELLED"
          /\ jobs'[q].attempts = jobs[q].attempts \/ jobs'[q].state = "CANCELLED"
             \/ \A n \in Attempt : attempts[q][n].state # "SENDING"
    BY <1>14, StopFields DEF Cancel, TypeOK, Kept
  <2>3. QED
    BY <2>1, <2>2, OpenedKept
<1>15. ASSUME NEW r \in Round, Inspect(r) PROVE Opened'
  <2>1. up /\ UNCHANGED <<attempts, running, place>>
    BY <1>15 DEF Inspect, Free, volatile
  <2>2. \A q \in Round :
          /\ jobs'[q].state = "RUNNING" => jobs[q].state = "RUNNING"
          /\ jobs[q].state = "CANCELLED" => jobs'[q].state = "CANCELLED"
          /\ jobs'[q].attempts = jobs[q].attempts \/ jobs'[q].state = "CANCELLED"
             \/ \A n \in Attempt : attempts[q][n].state # "SENDING"
    BY <1>15, StopFields DEF Inspect, TypeOK, Kept, ChapterIsWhole
  <2>3. QED
    BY <2>1, <2>2, OpenedKept
<1>16. ASSUME NEW r \in Round, Retry(r) PROVE Opened'
  <2>1. /\ up /\ place \in {"rest", "sent"}
        /\ UNCHANGED <<attempts, running, place>>
        /\ jobs[r].state \notin {"RUNNING", "CANCELLED"}
    BY <1>16 DEF Retry, Free, MayRetry, volatile
  <2>2. \A n \in Attempt : attempts[r][n].state # "SENDING"
    BY <2>1 DEF Held, Opened
  <2>3. \A q \in Round :
          /\ jobs'[q].state = IF q = r THEN "QUEUED" ELSE jobs[q].state
          /\ jobs'[q].attempts = jobs[q].attempts
    BY <1>16, RetryFields DEF TypeOK
  <2>4. QED
    BY <2>1, <2>2, <2>3 DEF Opened
<1>17. ASSUME MoveConnection PROVE Opened'
  BY <1>17 DEF MoveConnection, durable, Opened
<1>18. ASSUME Govern PROVE Opened'
  BY <1>18 DEF Govern, durable, Opened
<1>19. ASSUME Purge PROVE Opened'
  <2>1. up /\ UNCHANGED <<attempts, running, place>>
    BY <1>19 DEF Purge, Free, volatile
  <2>2. \A q \in Round : jobs[q].state = "NONE" =>
          \A n \in Attempt : attempts[q][n].state # "SENDING"
    <3>1. ASSUME NEW q \in Round, jobs[q].state = "NONE", NEW n \in Attempt
          PROVE  attempts[q][n].state # "SENDING"
      <4>1. jobs[q].attempts = 0
        BY <3>1 DEF Numbered, NumberedAt
      <4>2. ~ (n <= jobs[q].attempts)
        BY <4>1
      <4>3. QED
        BY <4>2 DEF Numbered, NumberedAt
    <3>2. QED
      BY <3>1
  <2>3. \A q \in Round :
          /\ jobs'[q].state = "RUNNING" => jobs[q].state = "RUNNING"
          /\ jobs[q].state = "CANCELLED" => jobs'[q].state = "CANCELLED"
          /\ jobs'[q].attempts = jobs[q].attempts \/ jobs'[q].state = "CANCELLED"
             \/ \A n \in Attempt : attempts[q][n].state # "SENDING"
    BY <1>19, <2>2, PurgeFields DEF TypeOK, NoJob
  <2>4. QED
    BY <2>1, <2>3, OpenedKept
<1>20. ASSUME Halt PROVE Opened'
  BY <1>20 DEF Halt, Opened
<1>21. ASSUME Restart PROVE Opened'
  <2>1. \A q \in Round :
          /\ jobs'[q].state # "RUNNING"
          /\ \A n \in Attempt : attempts'[q][n].state # "SENDING"
    BY <1>21, RestartFields DEF TypeOK
  <2>2. QED
    BY <2>1 DEF Opened
<1>22. QED
  BY OpenedFrame, <1>1, <1>2, <1>3, <1>4, <1>5, <1>6, <1>7, <1>8, <1>9,
     <1>10, <1>11, <1>12, <1>13, <1>14, <1>15, <1>16, <1>17, <1>18, <1>19,
     <1>20, <1>21

(* Jobs, chapters, commands and calls.                                     *)
LEMMA ChapterFrame ==
  ASSUME [Next]_vars
  PROVE  \/ UNCHANGED <<jobs, chapters, commands, sent, gone>>
         \/ Pump \/ Execute \/ Send \/ Judge \/ Intent \/ Accept
         \/ AcceptFault \/ AnswerLost \/ Run \/ Purge \/ Restart
         \/ (\E r \in Round : Cancel(r) \/ Inspect(r) \/ Retry(r))
BY DEF Next, PumpStep, AnswerStep, UserStep, WorldStep, vars, durable,
     world, volatile, history, bounds, NothingQueued, Goto, Answer, Last,
     Configure, Free, MoveSource, Move, MoveGrant, MoveConnection, Govern,
     Midnight, Halt, Rest

(* A step that neither completes a job nor takes up a completed one.       *)
LEMMA ChapterKept ==
  ASSUME ChapterIsWhole, UNCHANGED <<chapters, commands, sent, gone>>,
         \A q \in Round :
           jobs'[q].state = "COMPLETED" <=> jobs[q].state = "COMPLETED"
  PROVE  ChapterIsWhole'
BY DEF ChapterIsWhole

(* Memory, chapter and job are committed together.                         *)
LEMMA ChapterStep ==
  ASSUME TypeOK, Numbered, Held, ChapterIsWhole, [Next]_vars
  PROVE  ChapterIsWhole'
<1>1. CASE UNCHANGED <<jobs, chapters, commands, sent, gone>>
  BY <1>1 DEF ChapterIsWhole
<1>2. ASSUME Pump PROVE ChapterIsWhole'
  <2>1. UNCHANGED <<chapters, commands, sent, gone>>
    BY <1>2 DEF Pump, world, history
  <2>2. \A q \in Round :
          jobs'[q].state = "COMPLETED" <=> jobs[q].state = "COMPLETED"
    BY <1>2, PumpFields DEF Pump, TypeOK
  <2>3. QED
    BY <2>1, <2>2, ChapterKept
<1>3. ASSUME Execute PROVE ChapterIsWhole'
  <2>1. PICK r \in Round : Taken(r)
    BY <1>3, ExecuteTakes
  <2> USE DEF Taken
  <2>2. UNCHANGED <<chapters, commands, sent, gone>>
    BY <2>1 DEF world, history
  <2>3. ASSUME NEW s \in States \ {"COMPLETED"}, Stop(r, s)
        PROVE  ChapterIsWhole'
    <3>1. \A q \in Round :
            jobs'[q].state = IF q = r THEN s ELSE jobs[q].state
      BY <2>3, StopFields DEF TypeOK
    <3>2. QED
      BY <2>1, <2>2, <2>3, <3>1, ChapterKept
  <2>4. ASSUME Charged(r) PROVE ChapterIsWhole'
    <3>1. \A q \in Round :
            jobs'[q].state = IF q = r THEN "RUNNING" ELSE jobs[q].state
      BY <2>1, <2>4, Room, ChargedFields DEF TypeOK, WorldOK
    <3>2. QED
      BY <2>1, <2>2, <3>1, ChapterKept
  <2>5. QED
    BY <2>1, <2>3, <2>4
<1>4. ASSUME Send PROVE ChapterIsWhole'
  <2>1. UNCHANGED <<jobs, chapters, commands, gone>> /\ running \in Round
    BY <1>4, RunningIs DEF Send, durable, world
  <2>2. \A q \in Round : sent[q] > 0 => sent'[q] > 0
    BY <1>4, <2>1 DEF Send, TypeOK, CountsOK
  <2>3. QED
    BY <2>1, <2>2 DEF ChapterIsWhole
<1>5. ASSUME Judge PROVE ChapterIsWhole'
  <2>1. /\ running \in Round /\ UNCHANGED <<chapters, commands, sent, gone>>
    BY <1>5, JudgeTakes DEF world, history
  <2>2. ASSUME UNCHANGED jobs PROVE ChapterIsWhole'
    BY <2>1, <2>2, ChapterKept
  <2>3. ASSUME NEW s \in Blocked \cup {"REMOTE_UNKNOWN"},
               jobs[running].state = "RUNNING", Stop(running, s)
        PROVE  ChapterIsWhole'
    <3>1. \A q \in Round :
            jobs'[q].state = IF q = running THEN s ELSE jobs[q].state
      BY <2>1, <2>3, StopFields DEF TypeOK
    <3>2. QED
      BY <2>1, <2>3, <3>1, ChapterKept
  <2>4. ASSUME jobs' = [jobs EXCEPT ![running].candidate = jobs[running].digest]
        PROVE  ChapterIsWhole'
    <3>1. \A q \in Round : jobs'[q].state = jobs[q].state
      BY <2>1, <2>4, JudgedFields DEF TypeOK
    <3>2. QED
      BY <2>1, <3>1, ChapterKept
  <2>5. QED
    BY <1>5, <2>2, <2>3, <2>4, JudgeTakes
<1>6. ASSUME Intent PROVE ChapterIsWhole'
  <2>1. /\ running \in Round /\ jobs[running].state = "RUNNING"
    BY <1>6, RunningIs DEF Intent, Held
  <2>2. \A q \in Round :
          commands'[q] = IF q = running THEN "PREPARED" ELSE commands[q]
    BY <1>6 DEF Intent, TypeOK, LedgerOK
  <2>3. UNCHANGED <<jobs, chapters, sent, gone>>
    BY <1>6 DEF Intent, world, history
  <2>4. QED
    BY <2>1, <2>2, <2>3 DEF ChapterIsWhole
<1>7. ASSUME Accept PROVE ChapterIsWhole'
  <2>1. /\ running \in Round /\ sent[running] > 0
        /\ chapters' = chapters \cup {running} /\ UNCHANGED <<sent, gone>>
    BY <1>7, AcceptTakes DEF world, history
  <2>2. \A q \in Round :
          commands'[q] = IF q = running THEN "SUCCEEDED" ELSE commands[q]
    BY <1>7, AcceptTakes DEF TypeOK, LedgerOK
  <2>3. \A q \in Round :
          jobs'[q].state = IF q = running THEN "COMPLETED" ELSE jobs[q].state
    BY <1>7, AcceptTakes, AcceptedFields DEF TypeOK
  <2>4. QED
    BY <2>1, <2>2, <2>3 DEF ChapterIsWhole
<1>8. ASSUME AcceptFault PROVE ChapterIsWhole'
  <2>1. /\ running \in Round /\ jobs[running].state = "RUNNING"
        /\ UNCHANGED <<chapters, sent, gone>>
    BY <1>8, AcceptFaultTakes DEF world, history
  <2>2. \A q \in Round :
          commands'[q] = IF q = running THEN "NOT_APPLIED" ELSE commands[q]
    BY <1>8, AcceptFaultTakes DEF TypeOK, LedgerOK
  <2>3. \A q \in Round :
          jobs'[q].state = IF q = running THEN "FAILED_CONFIRMED"
                                          ELSE jobs[q].state
    BY <1>8, AcceptFaultTakes, StopFields DEF TypeOK
  <2>4. QED
    BY <2>1, <2>2, <2>3 DEF ChapterIsWhole
<1>9. ASSUME AnswerLost PROVE ChapterIsWhole'
  <2>1. /\ running \in Round /\ UNCHANGED <<chapters, commands, sent, gone>>
    BY <1>9, AnswerLostTakes DEF world, history
  <2>2. ASSUME UNCHANGED jobs PROVE ChapterIsWhole'
    BY <2>1, <2>2, ChapterKept
  <2>3. ASSUME jobs[running].state = "RUNNING", Stop(running, "REMOTE_UNKNOWN")
        PROVE  ChapterIsWhole'
    <3>1. \A q \in Round :
            jobs'[q].state = IF q = running THEN "REMOTE_UNKNOWN"
                                            ELSE jobs[q].state
      BY <2>1, <2>3, StopFields DEF TypeOK
    <3>2. QED
      BY <2>1, <2>3, <3>1, ChapterKept
  <2>4. QED
    BY <1>9, <2>2, <2>3, AnswerLostTakes
<1>10. ASSUME Run PROVE ChapterIsWhole'
  <2>1. UNCHANGED <<chapters, commands, sent, gone>>
    BY <1>10 DEF Run, world, history
  <2>2. \A q \in Round :
          jobs'[q].state = "COMPLETED" <=> jobs[q].state = "COMPLETED"
    BY <1>10, PumpFields DEF TypeOK
  <2>3. QED
    BY <2>1, <2>2, ChapterKept
<1>11. ASSUME NEW r \in Round, Cancel(r) PROVE ChapterIsWhole'
  <2>1. UNCHANGED <<chapters, commands, sent, gone>>
    BY <1>11 DEF Cancel, world, history
  <2>2. \A q \in Round :
          jobs'[q].state = "COMPLETED" <=> jobs[q].state = "COMPLETED"
    BY <1>11, StopFields DEF Cancel, TypeOK
  <2>3. QED
    BY <2>1, <2>2, ChapterKept
<1>12. ASSUME NEW r \in Round, Inspect(r) PROVE ChapterIsWhole'
  <2>1. UNCHANGED <<chapters, commands, sent, gone>>
    BY <1>12 DEF Inspect, world, history
  <2>2. \A q \in Round :
          jobs'[q].state = "COMPLETED" <=> jobs[q].state = "COMPLETED"
    BY <1>12, StopFields DEF Inspect, TypeOK, ChapterIsWhole
  <2>3. QED
    BY <2>1, <2>2, ChapterKept
<1>13. ASSUME NEW r \in Round, Retry(r) PROVE ChapterIsWhole'
  <2>1. UNCHANGED <<chapters, commands, sent, gone>>
        /\ jobs[r].state # "COMPLETED"
    BY <1>13 DEF Retry, MayRetry, world
  <2>2. \A q \in Round :
          jobs'[q].state = IF q = r THEN "QUEUED" ELSE jobs[q].state
    BY <1>13, RetryFields DEF TypeOK
  <2>3. QED
    BY <2>1, <2>2, ChapterKept
<1>14. ASSUME Purge PROVE ChapterIsWhole'
  <2>1. chapters' = {} /\ gone' = TRUE
    BY <1>14 DEF Purge
  <2>2. \A q \in Round : jobs'[q].state # "COMPLETED"
    BY <1>14, PurgeFields DEF TypeOK, NoJob
  <2>3. QED
    BY <2>1, <2>2 DEF ChapterIsWhole
<1>15. ASSUME Restart PROVE ChapterIsWhole'
  <2>1. UNCHANGED <<chapters, sent, gone>>
    BY <1>15 DEF Restart, world, history
  <2>2. \A q \in Round :
          commands'[q] = IF commands[q] = "PREPARED" THEN "NOT_APPLIED"
                         ELSE commands[q]
    BY <1>15 DEF Restart
  <2>3. \A q \in Round :
          jobs'[q].state = IF jobs[q].state # "RUNNING" THEN jobs[q].state
                           ELSE IF q \in chapters THEN "COMPLETED"
                           ELSE "REMOTE_UNKNOWN"
    BY <1>15, RestartFields DEF TypeOK
  <2>4. QED
    BY <2>1, <2>2, <2>3 DEF ChapterIsWhole
<1>16. QED
  BY ChapterFrame, <1>1, <1>2, <1>3, <1>4, <1>5, <1>6, <1>7, <1>8, <1>9,
     <1>10, <1>11, <1>12, <1>13, <1>14, <1>15

-----------------------------------------------------------------------------
(***************************************************************************)
(* The budget: the charges of a day are a finite set that grows by one     *)
(* where a call is reserved.                                               *)
(***************************************************************************)
(* Charges can be counted.                                                 *)
LEMMA ChargesFinite ==
  ASSUME NEW d
  PROVE  IsFiniteSet(Charges(d)) /\ Calls(d) \in Nat
<1>1. IsFiniteSet(Round) /\ IsFiniteSet(Attempt)
  BY JobAssumption, FS_Interval
<1>2. IsFiniteSet(Round \X Attempt)
  BY <1>1, FS_Product
<1>3. Charges(d) \subseteq Round \X Attempt
  BY DEF Charges
<1>4. IsFiniteSet(Charges(d))
  BY <1>2, <1>3, FS_Subset
<1>5. QED
  BY <1>4, FS_CardinalityType DEF Calls

(* Where every attempt keeps its day and stays charged or not, so do the   *)
(* calls of a day.                                                         *)
LEMMA CallsKept ==
  ASSUME \A q \in Round, n \in Attempt :
           /\ attempts'[q][n].day = attempts[q][n].day
           /\ attempts'[q][n].state = "NONE" <=> attempts[q][n].state = "NONE",
         Paid
  PROVE  Paid'
<1>1. ASSUME NEW d \in Nat PROVE Charges(d)' = Charges(d)
  BY DEF Charges
<1>2. QED
  BY <1>1 DEF Paid, Calls

(* No day is charged more than its budget.                                 *)
LEMMA PaidStep ==
  ASSUME TypeOK, Numbered, Held, Paid, [Next]_vars
  PROVE  Paid'
<1>1. CASE UNCHANGED attempts
  BY <1>1, CallsKept
<1>2. ASSUME Execute PROVE Paid'
  <2>1. PICK r \in Round : Taken(r)
    BY <1>2, ExecuteTakes
  <2> USE DEF Taken
  <2>2. CASE UNCHANGED attempts
    BY <2>2, CallsKept
  <2>3. CASE Charged(r) /\ ~Exhausted
    <3> DEFINE c == <<r, jobs[r].attempts + 1>>
    <3>1. /\ jobs[r].attempts \in Nat /\ jobs[r].attempts + 1 \in Attempt
          /\ day \in Nat
      BY <2>1, Room DEF TypeOK, JobsOK, JobRow, WorldOK
    <3>2. \A q \in Round, n \in Attempt :
            attempts'[q][n] = IF q = r /\ n = jobs[r].attempts + 1
                              THEN [state |-> "SENDING", day |-> day]
                              ELSE attempts[q][n]
      BY <2>3, <3>1, ChargedFields DEF TypeOK
    <3>3. attempts[r][jobs[r].attempts + 1].state = "NONE"
      BY <3>1 DEF Numbered, NumberedAt
    <3>4. ASSUME NEW d \in Nat, d # day PROVE Charges(d)' = Charges(d)
      <4>1. ASSUME NEW q \in Round, NEW n \in Attempt
            PROVE  attempts'[q][n].state # "NONE" /\ attempts'[q][n].day = d <=>
                     attempts[q][n].state # "NONE" /\ attempts[q][n].day = d
        BY <3>2, <3>3, <3>4
      <4>2. QED
        BY <4>1 DEF Charges
    <3>5. Charges(day)' = Charges(day) \cup {c} /\ c \notin Charges(day)
      <4>1. day' = day
        BY <2>1 DEF world
      <4>2. ASSUME NEW q \in Round, NEW n \in Attempt
            PROVE  attempts'[q][n].state # "NONE" /\ attempts'[q][n].day = day <=>
                     \/ attempts[q][n].state # "NONE" /\ attempts[q][n].day = day
                     \/ q = r /\ n = jobs[r].attempts + 1
        BY <3>2
      <4>3. QED
        BY <3>1, <3>3, <4>1, <4>2 DEF Charges
    <3>6. Calls(day)' = Calls(day) + 1
      BY <3>5, ChargesFinite, FS_AddElement DEF Calls
    <3>7. ASSUME NEW d \in Nat PROVE Calls(d)' <= Budget
      <4>1. CASE d = day
        <5>1. Budget \in Nat /\ Calls(day) \in Nat
          BY JobAssumption, ChargesFinite
        <5>2. day' = day
          BY <2>1 DEF world
        <5>3. Calls(d)' = Calls(day)'
          BY <4>1, <5>2 DEF Calls, Charges
        <5>4. QED
          BY <2>3, <3>6, <5>1, <5>3 DEF Exhausted
      <4>2. CASE d # day
        BY <3>4, <4>2 DEF Paid, Calls
      <4>3. QED
        BY <4>1, <4>2
    <3>8. QED
      BY <3>7 DEF Paid
  <2>4. QED
    BY <2>1, <2>2, <2>3
<1>3. ASSUME AnswerLost PROVE Paid'
  <2>1. jobs[running].attempts \in Attempt /\ running \in Round
    BY <1>3, AnswerLostTakes
  <2>2. attempts[running][jobs[running].attempts].state # "NONE"
    BY <2>1 DEF Numbered, NumberedAt, TypeOK, JobsOK, JobRow
  <2>3. \A q \in Round, n \in Attempt :
          /\ attempts'[q][n].day = attempts[q][n].day
          /\ attempts'[q][n].state = "NONE" <=> attempts[q][n].state = "NONE"
    BY <1>3, <2>1, <2>2, AnswerLostTakes, EndedFields DEF TypeOK
  <2>4. QED
    BY <2>3, CallsKept
<1>4. ASSUME NEW result \in Results, Answer(result) PROVE Paid'
  <2>1. jobs[running].attempts \in Attempt /\ running \in Round
    BY <1>4, AnswerTakes
  <2>2. attempts[running][jobs[running].attempts].state # "NONE"
    BY <2>1 DEF Numbered, NumberedAt, TypeOK, JobsOK, JobRow
  <2>3. \A q \in Round, n \in Attempt :
          /\ attempts'[q][n].day = attempts[q][n].day
          /\ attempts'[q][n].state = "NONE" <=> attempts[q][n].state = "NONE"
    BY <1>4, <2>1, <2>2, AnswerTakes, EndedFields DEF TypeOK
  <2>4. QED
    BY <2>3, CallsKept
<1>5. ASSUME Restart PROVE Paid'
  <2>1. \A q \in Round, n \in Attempt :
          /\ attempts'[q][n].day = attempts[q][n].day
          /\ attempts'[q][n].state = "NONE" <=> attempts[q][n].state = "NONE"
    BY <1>5, RestartFields DEF TypeOK
  <2>2. QED
    BY <2>1, CallsKept
<1>6. QED
  BY AttemptsFrame, <1>1, <1>2, <1>3, <1>4, <1>5

-----------------------------------------------------------------------------
(***************************************************************************)
(* The theorems.                                                           *)
(***************************************************************************)
(* At first nothing is charged, held or committed.                         *)
LEMMA JobInit ==
  ASSUME Init
  PROVE  JobInv
<1>1. TypeOK
  <2>1. JobsOK
    BY JobAssumption DEF Init, JobsOK, JobRow, NoJob
  <2>2. AttemptsOK
    BY DEF Init, AttemptsOK, AttemptRow, NoAttempt
  <2>3. LedgerOK /\ PumpOK /\ CountsOK
    BY DEF Init, LedgerOK, PumpOK, CountsOK
  <2>4. WorldOK
    <3>1. source \in [Round -> SourceRow]
      BY DEF Init, SourceRow
    <3>2. config \in [version : Nat, enabled : BOOLEAN]
      BY DEF Init
    <3>3. grant \in BOOLEAN /\ identity \in Nat /\ gone \in BOOLEAN /\ day \in Nat
      BY DEF Init
    <3>4. QED
      BY <3>1, <3>2, <3>3 DEF WorldOK
  <2>5. QED
    BY <2>1, <2>2, <2>3, <2>4 DEF TypeOK
<1>2. \A q \in Round : /\ jobs[q].state = "NONE" /\ jobs[q].attempts = 0
                       /\ jobs[q].candidate = 0 /\ sent[q] = 0 /\ retries[q] = 0
                       /\ commands[q] = "NONE"
                       /\ \A n \in Attempt : attempts[q][n].state = "NONE"
  BY DEF Init, NoJob, NoAttempt
<1>3. Numbered
  <2> SUFFICES ASSUME NEW q \in Round PROVE NumberedAt(q)
    BY DEF Numbered
  <2>1. \A n \in Attempt : ~ (n <= 0)
    BY JobAssumption
  <2>2. 0 < AttemptLimit
    BY JobAssumption
  <2>3. QED
    BY <1>2, <2>1, <2>2 DEF NumberedAt
<1>4. Held /\ Candidates /\ Checked
  BY <1>2 DEF Init, Held, Candidates, Checked
<1>5. Opened /\ ChapterIsWhole
  BY <1>2 DEF Init, Opened, ChapterIsWhole
<1>6. Paid
  <2>1. ASSUME NEW d \in Nat PROVE Calls(d) <= Budget
    <3>1. Charges(d) = {}
      BY <1>2 DEF Charges
    <3>2. QED
      BY <3>1, FS_EmptySet, JobAssumption DEF Calls
  <2>2. QED
    BY <2>1 DEF Paid
<1>7. QED
  BY <1>1, <1>3, <1>4, <1>5, <1>6 DEF JobInv

(* Every step keeps the invariant.                                         *)
LEMMA JobStep ==
  ASSUME JobInv, [Next]_vars
  PROVE  JobInv'
<1>1. TypeOK' /\ Numbered'
  BY TypeStep, NumberedStep DEF JobInv
<1>2. Held' /\ Candidates' /\ Checked'
  BY HeldStep, CandidatesStep, CheckedStep DEF JobInv
<1>3. Opened' /\ ChapterIsWhole'
  BY OpenedStep, ChapterStep DEF JobInv
<1>4. Paid'
  BY PaidStep DEF JobInv
<1>5. QED
  BY <1>1, <1>2, <1>3, <1>4 DEF JobInv

(* The inductive invariant holds of every behaviour of the pump, whatever  *)
(* the user, the rest of the program, exits and faults do (execute(),      *)
(* control(), the constructor of background-service.ts).                   *)
THEOREM JobsInductive == Spec => []JobInv
<1>1. Init => JobInv
  BY JobInit
<1>2. JobInv /\ [Next]_vars => JobInv'
  BY JobStep
<1>3. QED
  BY <1>1, <1>2, PTL DEF Spec

(* The rows of background_jobs, background_attempts and                    *)
(* background_chapters and the state of the pump keep their shapes.        *)
THEOREM JobsTypeCorrect == Spec => []TypeOK
<1>1. JobInv => TypeOK
  BY DEF JobInv
<1>2. QED
  BY <1>1, JobsInductive, PTL

(* No day is charged more calls than its budget, and no call goes out that *)
(* is not charged (usage(), the reservation in execute()).                 *)
THEOREM JobsBudgetHolds == Spec => []BudgetHolds
<1>1. JobInv => BudgetHolds
  <2> SUFFICES ASSUME JobInv PROVE BudgetHolds
    OBVIOUS
  <2>1. \A d \in 0..MaxDay : Calls(d) <= Budget
    BY JobAssumption DEF JobInv, Paid
  <2>2. ASSUME NEW r \in Round
        PROVE  sent[r] <= Cardinality({n \in Attempt : attempts[r][n].state # "NONE"})
    <3>1. jobs[r].attempts \in 0..AttemptLimit
      BY DEF JobInv, TypeOK, JobsOK, JobRow
    <3>2. {n \in Attempt : attempts[r][n].state # "NONE"} = 1..jobs[r].attempts
      BY <3>1, JobAssumption DEF JobInv, Numbered, NumberedAt
    <3>3. Cardinality(1..jobs[r].attempts) = jobs[r].attempts
      <4> DEFINE n == jobs[r].attempts
      <4>1. n \in Nat
        BY <3>1, JobAssumption
      <4> HIDE DEF n
      <4>2. Cardinality(1..n) = IF 1 > n THEN 0 ELSE n - 1 + 1
        BY <4>1, FS_Interval
      <4>3. Cardinality(1..n) = n
        BY <4>1, <4>2
      <4>4. QED
        BY <4>3 DEF n
    <3>4. sent[r] <= jobs[r].attempts
      BY DEF JobInv, Numbered, NumberedAt
    <3>5. QED
      BY <3>2, <3>3, <3>4
  <2>3. QED
    BY <2>1, <2>2 DEF BudgetHolds
<1>2. QED
  BY <1>1, JobsInductive, PTL

(* Beyond its first, a job has no call the user has not asked for by a     *)
(* retry, through exits, crashes and lost answers.                         *)
THEOREM JobsNotPaidTwice == Spec => []NoSecondCallUnasked
<1>1. JobInv => NoSecondCallUnasked
  <2> SUFFICES ASSUME JobInv, NEW r \in Round PROVE sent[r] <= 1 + retries[r]
    BY DEF NoSecondCallUnasked
  <2>1. sent[r] <= jobs[r].attempts /\ jobs[r].attempts <= 1 + retries[r]
    BY DEF JobInv, Numbered, NumberedAt
  <2>2. sent[r] \in Nat /\ jobs[r].attempts \in Nat /\ retries[r] \in Nat
    BY DEF JobInv, TypeOK, JobsOK, JobRow, CountsOK
  <2>3. QED
    BY <2>1, <2>2
<1>2. QED
  BY <1>1, JobsInductive, PTL

(* Memory, chapter and job are committed together, of a job that was       *)
(* called, and none is committed twice (commitReceipt(),                   *)
(* acceptCandidate()).                                                     *)
THEOREM ChaptersAreWhole == Spec => []ChapterIsWhole
<1>1. JobInv => ChapterIsWhole
  BY DEF JobInv
<1>2. QED
  BY <1>1, JobsInductive, PTL

(* While the service runs, whatever is RUNNING is held by the pump, and so *)
(* is every attempt without an answer that was not cancelled.              *)
THEOREM OpenIsAlwaysHeld == Spec => []OpenIsHeld
<1>1. JobInv => OpenIsHeld
  BY DEF JobInv, Opened, OpenIsHeld
<1>2. QED
  BY <1>1, JobsInductive, PTL

(* A chapter is committed only while source, configuration, grant and      *)
(* connection are those its candidate was made with (current(),            *)
(* authority()).                                                           *)
THEOREM JobsAcceptCurrent == Spec => AcceptsCurrent
<1>1. JobInv /\ [Next]_vars => [AcceptsCurrentStep]_vars
  <2> SUFFICES ASSUME JobInv, [Next]_vars, NEW r \in chapters' \ chapters
               PROVE  /\ jobs[r].candidate = source[r].text /\ source[r].readable
                      /\ source[r].usable
                      /\ jobs[r].config = config.version /\ config.enabled
                      /\ grant /\ seen = identity /\ ~gone
    BY DEF AcceptsCurrentStep
  <2>1. Accept
    BY LedgerFrame DEF Intent, AcceptFault, Purge, Restart
  <2>2. r = running /\ place = "intent"
    BY <2>1 DEF Accept
  <2>3. QED
    BY <2>2 DEF JobInv, Checked
<1>2. QED
  BY <1>1, JobsInductive, PTL DEF Spec, AcceptsCurrent

(* A step that leaves the state of cancelled jobs and their calls alone.   *)
LEMMA CancelledStep ==
  ASSUME JobInv, [Next]_vars
  PROVE  CancelledStaysStep
<1> SUFFICES ASSUME NEW q \in Round, jobs[q].state = "CANCELLED"
             PROVE  jobs'[q].state = "CANCELLED" /\ sent'[q] = sent[q]
  BY DEF CancelledStaysStep
<1> USE DEF JobInv
<1>1. jobs'[q].state = "CANCELLED"
  <2>1. CASE UNCHANGED jobs
    BY <2>1
  <2>2. ASSUME Pump PROVE jobs'[q].state = "CANCELLED"
    BY <2>2, PumpFields DEF Pump, TypeOK
  <2>3. ASSUME Execute PROVE jobs'[q].state = "CANCELLED"
    <3>1. \E r \in Round : /\ jobs[r].state = "QUEUED"
                           /\ (\E s \in States : Stop(r, s)) \/ Charged(r)
      BY <2>3, ExecuteTakes DEF Taken
    <3>2. PICK r \in Round : /\ jobs[r].state = "QUEUED"
                             /\ (\E s \in States : Stop(r, s)) \/ Charged(r)
      BY <3>1
    <3>3. q # r
      BY <3>2
    <3>4. JobsOK /\ AttemptsOK /\ day \in Nat
      BY DEF TypeOK, WorldOK
    <3>5. jobs[r].attempts + 1 \in Attempt
      BY <3>2, <3>4, Room
    <3>6. (\E s \in States : Stop(r, s)) => jobs'[q].state = "CANCELLED"
      BY <3>3, <3>4, StopFields
    <3>7. Charged(r) => jobs'[q].state = "CANCELLED"
      BY <3>3, <3>4, <3>5, ChargedFields
    <3>8. QED
      BY <3>2, <3>6, <3>7
  <2>4. ASSUME Judge PROVE jobs'[q].state = "CANCELLED"
    <3>1. running \in Round
      BY <2>4, JudgeTakes
    <3>2. CASE UNCHANGED jobs
      BY <3>2
    <3>3. ASSUME NEW s \in Blocked \cup {"REMOTE_UNKNOWN"},
                 jobs[running].state = "RUNNING", Stop(running, s)
          PROVE  jobs'[q].state = "CANCELLED"
      BY <3>1, <3>3, StopFields DEF TypeOK
    <3>4. CASE jobs' = [jobs EXCEPT ![running].candidate = jobs[running].digest]
      BY <3>1, <3>4, JudgedFields DEF TypeOK
    <3>5. QED
      BY <2>4, <3>2, <3>3, <3>4, JudgeTakes
  <2>5. ASSUME Accept PROVE jobs'[q].state = "CANCELLED"
    BY <2>5, AcceptTakes, AcceptedFields DEF TypeOK
  <2>6. ASSUME AcceptFault PROVE jobs'[q].state = "CANCELLED"
    BY <2>6, AcceptFaultTakes, StopFields DEF TypeOK
  <2>7. ASSUME AnswerLost PROVE jobs'[q].state = "CANCELLED"
    BY <2>7, AnswerLostTakes, StopFields DEF TypeOK
  <2>8. ASSUME Run PROVE jobs'[q].state = "CANCELLED"
    BY <2>8, PumpFields DEF TypeOK
  <2>9. ASSUME NEW r \in Round, Cancel(r) PROVE jobs'[q].state = "CANCELLED"
    BY <2>9, StopFields DEF Cancel, TypeOK
  <2>10. ASSUME NEW r \in Round, Inspect(r) PROVE jobs'[q].state = "CANCELLED"
    BY <2>10, StopFields DEF Inspect, ChapterIsWhole, TypeOK
  <2>11. ASSUME NEW r \in Round, Retry(r) PROVE jobs'[q].state = "CANCELLED"
    <3>1. jobs[r].state # "CANCELLED"
      BY <2>11 DEF Retry, MayRetry
    <3>2. QED
      BY <2>11, <3>1, RetryFields DEF TypeOK
  <2>12. ASSUME Purge PROVE jobs'[q].state = "CANCELLED"
    BY <2>12, PurgeFields DEF TypeOK
  <2>13. ASSUME Restart PROVE jobs'[q].state = "CANCELLED"
    BY <2>13, RestartFields DEF TypeOK
  <2>14. QED
    BY JobsFrame, <2>1, <2>2, <2>3, <2>4, <2>5, <2>6, <2>7, <2>8, <2>9,
       <2>10, <2>11, <2>12, <2>13
<1>2. sent'[q] = sent[q]
  <2>1. CASE UNCHANGED <<history, bounds>>
    BY <2>1 DEF history
  <2>2. CASE Send
    <3>1. jobs[running].state = "RUNNING"
      BY <2>2 DEF Send, Held
    <3>2. running # q
      BY <3>1
    <3>3. QED
      BY <2>2, <3>2 DEF Send, TypeOK, CountsOK
  <2>3. CASE \/ AcceptFault \/ AnswerLost \/ MoveGrant \/ MoveConnection \/ Purge
             \/ Halt \/ (\E r \in Round : Retry(r) \/ MoveSource(r))
    BY <2>3 DEF AcceptFault, AnswerLost, MoveGrant, MoveConnection, Purge, Halt,
                Retry, MoveSource, history
  <2>4. QED
    BY CountsFrame, <2>1, <2>2, <2>3
<1>3. QED
  BY <1>1, <1>2

(* A cancelled job is never taken up, called for or completed again        *)
(* (control(), purgeAssistant()).                                          *)
THEOREM JobsCancelledStay == Spec => CancelledStays
<1>1. JobInv /\ [Next]_vars => [CancelledStaysStep]_vars
  BY CancelledStep
<1>2. QED
  BY <1>1, JobsInductive, PTL DEF Spec, CancelledStays

-----------------------------------------------------------------------------
(***************************************************************************)
(* BackgroundJobs implements WorkPromise: charges, calls, chapters and     *)
(* cancelled jobs change one at a time, and as promised.                   *)
(***************************************************************************)
(* What the promise is about.                                              *)
LEMMA PromiseFrame ==
  ASSUME [Next]_vars
  PROVE  \/ UNCHANGED <<jobs, sent, chapters>>
         \/ Pump \/ Execute \/ Send \/ Judge \/ Intent \/ Accept
         \/ AcceptFault \/ AnswerLost \/ Run \/ Purge \/ Restart
         \/ (\E r \in Round : Cancel(r) \/ Inspect(r) \/ Retry(r))
BY DEF Next, PumpStep, AnswerStep, UserStep, WorldStep, vars, durable,
     world, volatile, history, bounds, NothingQueued, Goto, Answer, Last,
     Configure, Free, MoveSource, Move, MoveGrant, MoveConnection, Govern,
     Midnight, Halt, Rest

(* A step the promise does not see.                                        *)
LEMMA Unseen ==
  ASSUME UNCHANGED <<sent, chapters>>,
         \A q \in Round :
           /\ jobs'[q].attempts = jobs[q].attempts
           /\ jobs'[q].state = "CANCELLED" <=> jobs[q].state = "CANCELLED"
  PROVE  UNCHANGED Promised!promise
<1>1. [r \in Round |-> jobs[r].attempts]' = [r \in Round |-> jobs[r].attempts]
  OBVIOUS
<1>2. {r \in Round : jobs[r].state = "CANCELLED"}' =
        {r \in Round : jobs[r].state = "CANCELLED"}
  OBVIOUS
<1>3. QED
  BY <1>1, <1>2 DEF Promised!promise

(* Every step is one step of the promise, or none.                         *)
LEMMA PromiseStep ==
  ASSUME TypeOK, Numbered, Held, ChapterIsWhole, [Next]_vars
  PROVE  Promised!WorkStep \/ UNCHANGED Promised!promise
<1>1. CASE UNCHANGED <<jobs, sent, chapters>>
  BY <1>1, Unseen
<1>2. ASSUME Pump
      PROVE  Promised!WorkStep \/ UNCHANGED Promised!promise
  <2>1. UNCHANGED <<sent, chapters>>
    BY <1>2 DEF Pump, history
  <2>2. \A q \in Round : jobs[q].state = "NONE" => jobs[q].attempts = 0
    BY DEF Numbered, NumberedAt
  <2>3. \A q \in Round :
          /\ jobs'[q].attempts = jobs[q].attempts
          /\ jobs'[q].state = "CANCELLED" <=> jobs[q].state = "CANCELLED"
    BY <1>2, <2>2, PumpFields DEF Pump, TypeOK, Kept
  <2>4. QED
    BY <2>1, <2>3, Unseen
<1>3. ASSUME Execute
      PROVE  Promised!WorkStep \/ UNCHANGED Promised!promise
  <2>1. PICK r \in Round : Taken(r)
    BY <1>3, ExecuteTakes
  <2> USE DEF Taken
  <2>2. UNCHANGED <<sent, chapters>>
    BY <2>1 DEF history
  <2>3. ASSUME NEW s \in States \ {"CANCELLED"}, Stop(r, s)
        PROVE  UNCHANGED Promised!promise
    <3>1. \A q \in Round :
            /\ jobs'[q].attempts = jobs[q].attempts
            /\ jobs'[q].state = "CANCELLED" <=> jobs[q].state = "CANCELLED"
      BY <2>1, <2>3, StopFields DEF TypeOK, Kept
    <3>2. QED
      BY <2>2, <3>1, Unseen
  <2>4. ASSUME Charged(r) PROVE Promised!WorkStep
    <3>1. \A q \in Round :
            /\ jobs'[q].attempts = IF q = r THEN jobs[q].attempts + 1
                                            ELSE jobs[q].attempts
            /\ jobs'[q].state = IF q = r THEN "RUNNING" ELSE jobs[q].state
      BY <2>1, <2>4, Room, ChargedFields DEF TypeOK, WorldOK
    <3>2. r \notin chapters
      BY <2>1 DEF ChapterIsWhole
    <3>3. [q \in Round |-> jobs[q].attempts]' =
            [[q \in Round |-> jobs[q].attempts] EXCEPT ![r] = @ + 1]
      BY <3>1
    <3>4. {q \in Round : jobs[q].state = "CANCELLED"}' =
            {q \in Round : jobs[q].state = "CANCELLED"}
      BY <2>1, <3>1
    <3>5. Promised!Charge(r)
      BY <2>1, <2>2, <3>2, <3>3, <3>4 DEF Promised!Charge
    <3>6. QED
      BY <3>5 DEF Promised!WorkStep
  <2>5. QED
    BY <2>1, <2>3, <2>4
<1>4. ASSUME Send
      PROVE  Promised!WorkStep \/ UNCHANGED Promised!promise
  <2>1. /\ running \in Round /\ jobs[running].state = "RUNNING"
        /\ sent[running] < jobs[running].attempts
    BY <1>4, RunningIs DEF Send, Held
  <2>2. running \notin chapters
    BY <2>1 DEF ChapterIsWhole
  <2>3. UNCHANGED <<jobs, chapters>>
    BY <1>4 DEF Send, durable
  <2>4. Promised!Call(running)
    BY <1>4, <2>1, <2>2, <2>3 DEF Send, Promised!Call
  <2>5. QED
    BY <2>1, <2>4 DEF Promised!WorkStep
<1>5. ASSUME Judge
      PROVE  Promised!WorkStep \/ UNCHANGED Promised!promise
  <2>1. running \in Round /\ UNCHANGED <<sent, chapters>>
    BY <1>5, JudgeTakes DEF history
  <2>2. ASSUME UNCHANGED jobs PROVE UNCHANGED Promised!promise
    BY <2>1, <2>2, Unseen
  <2>3. ASSUME NEW s \in Blocked \cup {"REMOTE_UNKNOWN"},
               jobs[running].state = "RUNNING", Stop(running, s)
        PROVE  UNCHANGED Promised!promise
    <3>1. \A q \in Round :
            /\ jobs'[q].attempts = jobs[q].attempts
            /\ jobs'[q].state = IF q = running THEN s ELSE jobs[q].state
      BY <2>1, <2>3, StopFields DEF TypeOK, Kept
    <3>2. QED
      BY <2>1, <2>3, <3>1, Unseen
  <2>4. ASSUME jobs' = [jobs EXCEPT ![running].candidate = jobs[running].digest]
        PROVE  UNCHANGED Promised!promise
    <3>1. \A q \in Round :
            /\ jobs'[q].attempts = jobs[q].attempts
            /\ jobs'[q].state = jobs[q].state
      BY <2>1, <2>4, JudgedFields DEF TypeOK
    <3>2. QED
      BY <2>1, <3>1, Unseen
  <2>5. QED
    BY <1>5, <2>2, <2>3, <2>4, JudgeTakes
<1>6. ASSUME Intent
      PROVE  Promised!WorkStep \/ UNCHANGED Promised!promise
  <2>1. UNCHANGED <<jobs, sent, chapters>>
    BY <1>6 DEF Intent, history
  <2>2. QED
    BY <2>1, Unseen
<1>7. ASSUME Accept
      PROVE  Promised!WorkStep \/ UNCHANGED Promised!promise
  <2>1. /\ running \in Round /\ jobs[running].state = "RUNNING"
        /\ sent[running] > 0 /\ chapters' = chapters \cup {running}
        /\ UNCHANGED sent
    BY <1>7, AcceptTakes DEF history
  <2>2. \A q \in Round :
          /\ jobs'[q].attempts = jobs[q].attempts
          /\ jobs'[q].state = IF q = running THEN "COMPLETED" ELSE jobs[q].state
    BY <1>7, AcceptTakes, AcceptedFields DEF TypeOK
  <2>3. running \notin chapters
    BY <2>1 DEF ChapterIsWhole
  <2>4. [q \in Round |-> jobs[q].attempts]' = [q \in Round |-> jobs[q].attempts]
    BY <2>2
  <2>5. {q \in Round : jobs[q].state = "CANCELLED"}' =
          {q \in Round : jobs[q].state = "CANCELLED"}
    BY <2>1, <2>2
  <2>6. Promised!Accept(running)
    BY <2>1, <2>3, <2>4, <2>5 DEF Promised!Accept
  <2>7. QED
    BY <2>1, <2>6 DEF Promised!WorkStep
<1>8. ASSUME AcceptFault
      PROVE  Promised!WorkStep \/ UNCHANGED Promised!promise
  <2>1. /\ running \in Round /\ jobs[running].state = "RUNNING"
        /\ UNCHANGED <<sent, chapters>>
    BY <1>8, AcceptFaultTakes DEF history
  <2>2. \A q \in Round :
          /\ jobs'[q].attempts = jobs[q].attempts
          /\ jobs'[q].state = IF q = running THEN "FAILED_CONFIRMED"
                                             ELSE jobs[q].state
    BY <1>8, AcceptFaultTakes, StopFields DEF TypeOK, Kept
  <2>3. QED
    BY <2>1, <2>2, Unseen
<1>9. ASSUME AnswerLost
      PROVE  Promised!WorkStep \/ UNCHANGED Promised!promise
  <2>1. running \in Round /\ UNCHANGED <<sent, chapters>>
    BY <1>9, AnswerLostTakes DEF history
  <2>2. ASSUME UNCHANGED jobs PROVE UNCHANGED Promised!promise
    BY <2>1, <2>2, Unseen
  <2>3. ASSUME jobs[running].state = "RUNNING", Stop(running, "REMOTE_UNKNOWN")
        PROVE  UNCHANGED Promised!promise
    <3>1. \A q \in Round :
            /\ jobs'[q].attempts = jobs[q].attempts
            /\ jobs'[q].state = IF q = running THEN "REMOTE_UNKNOWN"
                                               ELSE jobs[q].state
      BY <2>1, <2>3, StopFields DEF TypeOK, Kept
    <3>2. QED
      BY <2>1, <2>3, <3>1, Unseen
  <2>4. QED
    BY <1>9, <2>2, <2>3, AnswerLostTakes
<1>10. ASSUME Run
       PROVE  Promised!WorkStep \/ UNCHANGED Promised!promise
  <2>1. UNCHANGED <<sent, chapters>>
    BY <1>10 DEF Run, history
  <2>2. \A q \in Round : jobs[q].state = "NONE" => jobs[q].attempts = 0
    BY DEF Numbered, NumberedAt
  <2>3. \A q \in Round :
          /\ jobs'[q].attempts = jobs[q].attempts
          /\ jobs'[q].state = "CANCELLED" <=> jobs[q].state = "CANCELLED"
    BY <1>10, <2>2, PumpFields DEF TypeOK, Kept
  <2>4. QED
    BY <2>1, <2>3, Unseen
<1>11. ASSUME NEW r \in Round, Cancel(r)
       PROVE  Promised!WorkStep \/ UNCHANGED Promised!promise
  <2>1. jobs[r].state # "COMPLETED" /\ UNCHANGED <<sent, chapters>>
    BY <1>11 DEF Cancel, history
  <2>2. \A q \in Round :
          /\ jobs'[q].attempts = jobs[q].attempts
          /\ jobs'[q].state = IF q = r THEN "CANCELLED" ELSE jobs[q].state
    BY <1>11, StopFields DEF Cancel, TypeOK, Kept
  <2>3. r \notin chapters
    BY <2>1 DEF ChapterIsWhole
  <2>4. [q \in Round |-> jobs[q].attempts]' = [q \in Round |-> jobs[q].attempts]
    BY <2>2
  <2>5. {q \in Round : jobs[q].state = "CANCELLED"}' =
          {q \in Round : jobs[q].state = "CANCELLED"} \cup {r}
    BY <2>2
  <2>6. Promised!Cancel(r)
    BY <2>1, <2>3, <2>4, <2>5 DEF Promised!Cancel
  <2>7. QED
    BY <2>6 DEF Promised!WorkStep
<1>12. ASSUME NEW r \in Round, Inspect(r)
       PROVE  Promised!WorkStep \/ UNCHANGED Promised!promise
  <2>1. r \in chapters /\ UNCHANGED <<sent, chapters>>
    BY <1>12 DEF Inspect, history
  <2>2. jobs[r].state = "COMPLETED"
    BY <2>1 DEF ChapterIsWhole
  <2>3. \A q \in Round :
          /\ jobs'[q].attempts = jobs[q].attempts
          /\ jobs'[q].state = IF q = r THEN "COMPLETED" ELSE jobs[q].state
    BY <1>12, StopFields DEF Inspect, TypeOK, Kept
  <2>4. QED
    BY <2>1, <2>2, <2>3, Unseen
<1>13. ASSUME NEW r \in Round, Retry(r)
       PROVE  Promised!WorkStep \/ UNCHANGED Promised!promise
  <2>1. jobs[r].state # "CANCELLED" /\ UNCHANGED <<sent, chapters>>
    BY <1>13 DEF Retry, MayRetry
  <2>2. \A q \in Round :
          /\ jobs'[q].attempts = jobs[q].attempts
          /\ jobs'[q].state = IF q = r THEN "QUEUED" ELSE jobs[q].state
    BY <1>13, RetryFields DEF TypeOK
  <2>3. QED
    BY <2>1, <2>2, Unseen
<1>14. ASSUME Purge
       PROVE  Promised!WorkStep \/ UNCHANGED Promised!promise
  <2> DEFINE W == {q \in Round : jobs[q].state # "NONE"}
  <2>1. chapters' = {} /\ UNCHANGED sent
    BY <1>14 DEF Purge, history
  <2>2. \A q \in Round : jobs[q].state = "NONE" => jobs[q].attempts = 0
    BY DEF Numbered, NumberedAt
  <2>3. \A q \in Round :
          /\ jobs'[q].attempts = jobs[q].attempts
          /\ jobs'[q].state = "CANCELLED" <=> jobs[q].state # "NONE"
    BY <1>14, <2>2, PurgeFields DEF TypeOK, NoJob
  <2>4. chapters \subseteq W
    BY DEF ChapterIsWhole, TypeOK, LedgerOK
  <2>5. [q \in Round |-> jobs[q].attempts]' = [q \in Round |-> jobs[q].attempts]
    BY <2>3
  <2>6. {q \in Round : jobs[q].state = "CANCELLED"}' =
          {q \in Round : jobs[q].state = "CANCELLED"} \cup W
    BY <2>3
  <2>7. W \in SUBSET Round
    OBVIOUS
  <2> HIDE DEF W
  <2>8. \E V \in SUBSET Round : Promised!Erase(V)
    BY <2>1, <2>4, <2>5, <2>6, <2>7 DEF Promised!Erase
  <2>9. QED
    BY <2>8, Zenon DEF Promised!WorkStep
<1>15. ASSUME Restart
       PROVE  Promised!WorkStep \/ UNCHANGED Promised!promise
  <2>1. UNCHANGED <<sent, chapters>>
    BY <1>15 DEF Restart, history
  <2>2. \A q \in Round :
          /\ jobs'[q].attempts = jobs[q].attempts
          /\ jobs'[q].state = "CANCELLED" <=> jobs[q].state = "CANCELLED"
    BY <1>15, RestartFields DEF TypeOK, Kept
  <2>3. QED
    BY <2>1, <2>2, Unseen
<1>16. QED
  BY PromiseFrame, <1>1, <1>2, <1>3, <1>4, <1>5, <1>6, <1>7, <1>8, <1>9,
     <1>10, <1>11, <1>12, <1>13, <1>14, <1>15

(* The refinement: what the services promise who pays for them, the pump   *)
(* keeps.                                                                  *)
THEOREM JobsKeepPromise == Spec => KeepsWorkPromise
<1>1. Init => Promised!Begin
  <2> SUFFICES ASSUME Init PROVE Promised!Begin
    OBVIOUS
  <2>1. \A q \in Round : jobs[q].attempts = 0 /\ jobs[q].state # "CANCELLED"
    BY DEF Init, NoJob
  <2>2. sent = [q \in Round |-> 0] /\ chapters = {}
    BY DEF Init
  <2>3. QED
    BY <2>1, <2>2 DEF Promised!Begin
<1>2. JobInv /\ [Next]_vars => [Promised!WorkStep]_(Promised!promise)
  BY PromiseStep DEF JobInv
<1>3. QED
  BY <1>1, <1>2, JobsInductive, PTL DEF Spec, KeepsWorkPromise, Promised!Promise

==============================================================================
