--------------------------- MODULE StewardRunsProofs ---------------------------
(***************************************************************************)
(* Proofs about StewardRuns, for every set of rounds and memories, number  *)
(* of slots, budget, and bound on what the user and the world do.          *)
(***************************************************************************)
EXTENDS StewardRuns, TLAPS

USE DEF States, Blocked, Role, EntryStates, Results, Places

(***************************************************************************)
(* The inductive invariant.                                                *)
(***************************************************************************)
JobRow == [state : States, config : Nat, digest : Nat, inputs : Inputs,
           plan : Inputs, finds : BOOLEAN, attempts : Nat, done : 0..Slots]

(* A job without a row is untouched; what was charged pays for the calls,  *)
(* and the user has asked for what may be charged again; a plan comes from *)
(* a call; the receipts say what was committed, and only a keeping job has *)
(* any; the inputs a job keeps have the text its digest is of.             *)
Sound(a, role, called, committed, asked) ==
  /\ a.state = "NONE" => a = NoJob
  /\ called <= a.attempts /\ a.attempts <= 1 + asked
  /\ (a.state \in {"NONE", "QUEUED", "BUDGET_PAUSED"} /\ a.plan = NoInputs)
       => a.attempts <= asked
  /\ a.plan # NoInputs => called > 0
  /\ committed = a.done
  /\ role = "find" => a.done = 0
  /\ a.inputs # NoInputs => a.inputs.mark # 0 /\ a.inputs.text = a.digest

(* A row that fits what has happened to job k.                             *)
Fits(a, k) == Sound(a, RoleOf(k), calls[k], made[k], retries[k])

AllSound == \A k \in Job : Fits(jobs[k], k)

(* What is known of the job the pump holds, by its place: what it works    *)
(* with is the text its digest is of, it is charged before it is sent and  *)
(* planned after it is answered; and where nothing has run since the last  *)
(* check, the check still holds.                                           *)
Held ==
  /\ running = None <=> place \in {"rest", "scanned"}
  /\ ~up => place = "rest"
  /\ running # None =>
       /\ jobs[running].state # "NONE" /\ jobs[running].digest # 0
       /\ using.mark # 0 /\ using.text = jobs[running].digest
  /\ place = "reserved" =>
       /\ calls[running] < jobs[running].attempts
       /\ jobs[running].state = "RUNNING"
  /\ place \in {"sent", "answered"} => calls[running] > 0
  /\ place \in {"planned", "slots", "prepared"} =>
       jobs[running].state = "RUNNING" /\ jobs[running].plan # NoInputs
  /\ place \in {"slots", "prepared"} => RoleOf(running) = "keep"
  /\ place = "prepared" => NextSlot
  /\ place \in {"reserved", "prepared"} => Current(running, held, using) = "ok"

(* A finding that was consumed is completed or was cancelled after that.   *)
Taken == \A j \in consumed :
  RoleOf(j) = "find" => jobs[j].state \in {"COMPLETED", "CANCELLED"}

StewardInv ==
  /\ TypeOK /\ AllSound /\ Held /\ Taken /\ ConsumedIsWhole /\ BudgetHolds

(***************************************************************************)
(* Jobs, their tables and the check before each commit.                    *)
(***************************************************************************)
LEMMA JobFacts ==
  ASSUME NEW j \in Job
  PROVE  /\ RoleOf(j) \in {"find", "keep"} /\ Subject(j) \in Entry
         /\ RoleOf(j) = "find" => Subject(j) \in Round
         /\ j = <<RoleOf(j), Subject(j)>>
<1>1. CASE j \in {"find"} \X Round
  BY <1>1 DEF RoleOf, Subject, Entry
<1>2. CASE j \in {"keep"} \X Entry
  BY <1>2 DEF RoleOf, Subject
<1>3. QED
  BY <1>1, <1>2 DEF Job

LEMMA JobOf ==
  /\ \A r \in Round : /\ <<"find", r>> \in Job /\ RoleOf(<<"find", r>>) = "find"
                      /\ Subject(<<"find", r>>) = r
  /\ \A e \in Entry : /\ <<"keep", e>> \in Job /\ RoleOf(<<"keep", e>>) = "keep"
                      /\ Subject(<<"keep", e>>) = e
BY DEF Job, RoleOf, Subject

LEMMA NoneIsNoJob == StewardAssumption => None \notin Job
BY DEF StewardAssumption, Job, Entry

LEMMA Tables ==
  ASSUME StewardAssumption, TypeOK
  PROVE  /\ jobs \in [Job -> JobRow]
         /\ entries \in [Entry -> [state : EntryStates, digest : Nat]]
         /\ open \in [Job -> {"none", "SENDING", "SETTLED", "UNKNOWN"}]
         /\ consumed \subseteq Job
         /\ config \in [{"find", "keep"} -> [version : Nat, enabled : BOOLEAN]]
         /\ allowed \in [{"find", "keep"} -> BOOLEAN]
         /\ mark \in Nat /\ mark # 0 /\ text \in [Entry -> Nat]
         /\ gone \in BOOLEAN /\ up \in BOOLEAN /\ aborted \in BOOLEAN
         /\ running \in Job \cup {None} /\ place \in Places /\ held \in Nat
         /\ using \in Inputs
         /\ calls \in [Job -> Nat] /\ made \in [Job -> Nat]
         /\ retries \in [Job -> Nat]
         /\ Slots \in Nat \ {0}
BY DEF TypeOK, JobRow, StewardAssumption

LEMMA NoInputsFacts ==
  /\ NoInputs \in Inputs /\ NoInputs.mark = 0 /\ NoInputs.text = 0
BY DEF NoInputs, Inputs

LEMMA NoJobFacts ==
  ASSUME StewardAssumption
  PROVE  /\ NoJob \in JobRow /\ NoJob.state = "NONE" /\ NoJob.attempts = 0
         /\ NoJob.done = 0 /\ NoJob.inputs = NoInputs /\ NoJob.plan = NoInputs
         /\ NoJob.digest = 0
BY NoInputsFacts DEF NoJob, JobRow, StewardAssumption

(* The job the pump holds is one.                                          *)
LEMMA TheHeld ==
  ASSUME StewardAssumption, TypeOK, Held, place \notin {"rest", "scanned"}
  PROVE  running \in Job /\ up
BY DEF TypeOK, Held

(* What the check says.                                                    *)
LEMMA CurrentIs ==
  ASSUME StewardAssumption, TypeOK, NEW j \in Job, NEW v, NEW expected
  PROVE  /\ Current(j, v, expected) \in
              {"ok", "STALE", "CONFIGURATION_BLOCKED", "PERMISSION_BLOCKED"}
         /\ Current(j, v, expected) = "ok" <=>
              /\ ~aborted /\ jobs[j].state \in {"RUNNING", "QUEUED"}
              /\ config[RoleOf(j)].version = v /\ ~gone
              /\ config[RoleOf(j)].enabled /\ allowed[RoleOf(j)]
              /\ expected # NoInputs => expected.mark = mark
              /\ EntryOpen(j) /\ text[Subject(j)] # 0
              /\ text[Subject(j)] = jobs[j].digest
<1>1. /\ config[RoleOf(j)] \in [version : Nat, enabled : BOOLEAN]
      /\ allowed[RoleOf(j)] \in BOOLEAN /\ gone \in BOOLEAN /\ aborted \in BOOLEAN
      /\ text[Subject(j)] \in Nat /\ mark \in Nat
  BY JobFacts, Tables
<1>2. /\ Authority(RoleOf(j)) \in {"ok", "CONFIGURATION_BLOCKED", "PERMISSION_BLOCKED"}
      /\ Authority(RoleOf(j)) = "ok" <=>
           ~gone /\ config[RoleOf(j)].enabled /\ allowed[RoleOf(j)]
  BY <1>1 DEF Authority
<1>3. EntryOpen(j) \in BOOLEAN
  BY DEF EntryOpen
<1>4. /\ SourceCode(j) \in {"ok", "STALE", "PERMISSION_BLOCKED"}
      /\ SourceCode(j) = "ok" <=>
           EntryOpen(j) /\ text[Subject(j)] # 0 /\ text[Subject(j)] = jobs[j].digest
  BY <1>1, <1>3 DEF SourceCode
<1>5. QED
  BY <1>1, <1>2, <1>4 DEF Current

(***************************************************************************)
(* What the rows become.                                                   *)
(***************************************************************************)
(* Nothing but the state changes, and not to one that may be charged.      *)
LEMMA StoppedRow ==
  ASSUME StewardAssumption, NEW a \in JobRow, NEW s \in States,
         NEW role, NEW called, NEW committed, NEW asked,
         Sound(a, role, called, committed, asked),
         \/ s \notin {"NONE", "QUEUED", "BUDGET_PAUSED"}
         \/ /\ s # "NONE" /\ a.state # "NONE"
            /\ a.state \in {"QUEUED", "BUDGET_PAUSED"} \/ a.plan # NoInputs
  PROVE  /\ [a EXCEPT !.state = s] \in JobRow
         /\ Sound([a EXCEPT !.state = s], role, called, committed, asked)
         /\ [a EXCEPT !.state = s].state = s
<1> DEFINE b == [a EXCEPT !.state = s]
<1>1. /\ b \in JobRow /\ b.state = s /\ b.config = a.config /\ b.digest = a.digest
      /\ b.inputs = a.inputs /\ b.plan = a.plan /\ b.attempts = a.attempts
      /\ b.done = a.done
  BY DEF JobRow
<1> HIDE DEF b
<1>2. Sound(b, role, called, committed, asked)
  BY <1>1 DEF Sound
<1>3. QED
  BY <1>1, <1>2 DEF b

(* A job that is scanned gets its row.                                     *)
LEMMA AddedRow ==
  ASSUME StewardAssumption, TypeOK, AllSound, NEW j \in Job,
         jobs[j].state = "NONE", NEW d \in Nat
  PROVE  /\ Added(j, d) \in JobRow /\ Fits(Added(j, d), j)
         /\ Added(j, d).state = "QUEUED" /\ Added(j, d).attempts = 0
         /\ Added(j, d).digest = d /\ Added(j, d).done = 0
<1> DEFINE b == Added(j, d)
<1>1. config[RoleOf(j)].version \in Nat
  BY JobFacts, Tables
<1>2. /\ b \in JobRow /\ b.state = "QUEUED" /\ b.digest = d /\ b.inputs = NoInputs
      /\ b.plan = NoInputs /\ b.attempts = 0 /\ b.done = 0
  BY <1>1, NoJobFacts DEF Added, JobRow
<1>3. Fits(NoJob, j)
  BY DEF AllSound, Fits, Sound
<1>4. /\ calls[j] \in Nat /\ retries[j] \in Nat
  BY Tables
<1> HIDE DEF b
<1>5. Fits(b, j)
  BY <1>2, <1>3, <1>4, NoJobFacts DEF Fits, Sound
<1>6. QED
  BY <1>2, <1>5 DEF b

(* What a scan makes of the table.                                         *)
LEMMA ScannedRows ==
  ASSUME StewardAssumption, TypeOK, AllSound, NEW roles
  PROVE  /\ Scanned(roles) \in [Job -> JobRow]
         /\ \A k \in Job :
              /\ Fits(Scanned(roles)[k], k)
              /\ Scanned(roles)[k].attempts = jobs[k].attempts
              /\ Scanned(roles)[k].done = jobs[k].done
              /\ \/ Scanned(roles)[k] = jobs[k]
                 \/ jobs[k].state = "NONE" /\ Scanned(roles)[k].state = "QUEUED"
<1> SUFFICES ASSUME NEW k \in Job
             PROVE  /\ Scanned(roles)[k] \in JobRow /\ Fits(Scanned(roles)[k], k)
                    /\ Scanned(roles)[k].attempts = jobs[k].attempts
                    /\ Scanned(roles)[k].done = jobs[k].done
                    /\ \/ Scanned(roles)[k] = jobs[k]
                       \/ jobs[k].state = "NONE" /\ Scanned(roles)[k].state = "QUEUED"
  BY DEF Scanned
<1>1. jobs[k] \in JobRow /\ Fits(jobs[k], k)
  BY Tables DEF AllSound
<1>2. CASE Scanned(roles)[k] = jobs[k]
  BY <1>1, <1>2
<1>3. ASSUME NEW d \in Nat, jobs[k].state = "NONE", Scanned(roles)[k] = Added(k, d)
      PROVE  /\ Scanned(roles)[k] \in JobRow /\ Fits(Scanned(roles)[k], k)
             /\ Scanned(roles)[k].attempts = jobs[k].attempts
             /\ Scanned(roles)[k].done = jobs[k].done
             /\ Scanned(roles)[k].state = "QUEUED"
  <2>1. jobs[k] = NoJob
    BY <1>1, <1>3 DEF Fits, Sound
  <2>2. QED
    BY <1>3, <2>1, AddedRow, NoJobFacts
<1>4. text[Subject(k)] \in Nat /\ entries[Subject(k)].digest \in Nat
  BY JobFacts, Tables
<1>5. \/ Scanned(roles)[k] = jobs[k]
      \/ jobs[k].state = "NONE" /\ Scanned(roles)[k] = Added(k, text[Subject(k)])
      \/ jobs[k].state = "NONE"
           /\ Scanned(roles)[k] = Added(k, entries[Subject(k)].digest)
  BY DEF Scanned, Found, Pending
<1>6. QED
  BY <1>2, <1>3, <1>4, <1>5

(***************************************************************************)
(* The rows through each step.                                             *)
(***************************************************************************)
(* A table of which one row is replaced, its history moving with it.       *)
LEMMA OneRow ==
  ASSUME StewardAssumption, TypeOK, AllSound, NEW j \in Job, NEW b \in JobRow,
         jobs' = [jobs EXCEPT ![j] = b],
         Sound(b, RoleOf(j), calls'[j], made'[j], retries'[j]),
         \A k \in Job \ {j} : /\ calls'[k] = calls[k] /\ made'[k] = made[k]
                              /\ retries'[k] = retries[k]
  PROVE  jobs' \in [Job -> JobRow] /\ AllSound'
<1>1. jobs' \in [Job -> JobRow] /\ jobs'[j] = b /\ \A k \in Job \ {j} : jobs'[k] = jobs[k]
  BY Tables
<1>2. ASSUME NEW k \in Job
      PROVE  Sound(jobs'[k], RoleOf(k), calls'[k], made'[k], retries'[k])
  <2>1. CASE k = j
    BY <1>1, <2>1
  <2>2. CASE k # j
    BY <1>1, <2>2 DEF AllSound, Fits
  <2>3. QED
    BY <2>1, <2>2
<1>3. QED
  BY <1>1, <1>2 DEF AllSound, Fits

LEMMA SameRows ==
  ASSUME StewardAssumption, TypeOK, AllSound, UNCHANGED <<jobs, calls, made, retries>>
  PROVE  jobs' \in [Job -> JobRow] /\ AllSound'
BY Tables DEF AllSound, Fits

(* Only the state of one row changes.                                      *)
LEMMA StopRows ==
  ASSUME StewardAssumption, TypeOK, AllSound, NEW j \in Job, NEW s \in States,
         jobs' = [jobs EXCEPT ![j].state = s], UNCHANGED history,
         \/ s \notin {"NONE", "QUEUED", "BUDGET_PAUSED"}
         \/ s = "BUDGET_PAUSED" /\ jobs[j].state = "QUEUED"
  PROVE  jobs' \in [Job -> JobRow] /\ AllSound'
<1> DEFINE b == [jobs[j] EXCEPT !.state = s]
<1>1. jobs[j] \in JobRow /\ Sound(jobs[j], RoleOf(j), calls[j], made[j], retries[j])
  BY Tables DEF AllSound, Fits
<1>2. b \in JobRow /\ Sound(b, RoleOf(j), calls[j], made[j], retries[j])
  BY <1>1, StoppedRow
<1>3. jobs' = [jobs EXCEPT ![j] = b]
  BY Tables
<1> HIDE DEF b
<1>4. QED
  BY <1>2, <1>3, OneRow DEF history

(* The catch block stops the job, or leaves it if it is over.              *)
LEMMA FailRows ==
  ASSUME StewardAssumption, TypeOK, NEW j \in Job, NEW code \in Blocked, Fail(j, code)
  PROVE  /\ Rest
         /\ open' \in [Job -> {"none", "SENDING", "SETTLED", "UNKNOWN"}]
         /\ \/ UNCHANGED jobs
            \/ /\ jobs[j].state \notin Final
               /\ \E s \in Blocked \cup {"PARTIAL", "REMOTE_UNKNOWN"} :
                    jobs' = [jobs EXCEPT ![j].state = s]
BY Tables DEF Fail, Stop

LEMMA FailSound ==
  ASSUME StewardAssumption, TypeOK, AllSound, NEW j \in Job, NEW code \in Blocked,
         Fail(j, code), UNCHANGED history
  PROVE  jobs' \in [Job -> JobRow] /\ AllSound'
<1>1. CASE UNCHANGED jobs
  BY <1>1, SameRows DEF history
<1>2. ASSUME NEW s \in Blocked \cup {"PARTIAL", "REMOTE_UNKNOWN"},
             jobs' = [jobs EXCEPT ![j].state = s]
      PROVE  jobs' \in [Job -> JobRow] /\ AllSound'
  BY <1>2, StopRows
<1>3. QED
  BY <1>1, <1>2, FailRows

(* The digest and the inputs a job goes on with.                           *)
Working(j) == IF jobs[j].inputs = NoInputs THEN Present(j) ELSE jobs[j].inputs

LEMMA WorkingIs ==
  ASSUME StewardAssumption, TypeOK, AllSound, NEW j \in Job,
         Current(j, jobs[j].config, jobs[j].inputs) = "ok"
  PROVE  /\ Working(j) \in Inputs /\ Working(j).mark = mark
         /\ Working(j).text = jobs[j].digest /\ jobs[j].digest # 0
<1>1. /\ jobs[j].inputs \in Inputs /\ text[Subject(j)] \in Nat /\ mark \in Nat
      /\ jobs[j].digest = text[Subject(j)] /\ text[Subject(j)] # 0
      /\ jobs[j].inputs # NoInputs => jobs[j].inputs.mark = mark
  BY Tables, JobFacts, CurrentIs DEF JobRow
<1>2. jobs[j].inputs # NoInputs => jobs[j].inputs.text = jobs[j].digest
  BY DEF AllSound, Fits, Sound
<1>3. QED
  BY <1>1, <1>2 DEF Working, Present, Inputs

(* What a step of Execute does, by what the check says.                    *)
LEMMA ExecuteIs ==
  ASSUME StewardAssumption, TypeOK, NEW j \in Job, Execute(j)
  PROVE  LET code == Current(j, jobs[j].config, jobs[j].inputs) IN
         /\ up /\ place = "scanned" /\ jobs[j].state = "QUEUED"
         /\ UNCHANGED <<entries, consumed, world, up, history, bounds>>
         /\ \/ code # "ok" /\ code \in Blocked /\ Fail(j, code) /\ UNCHANGED spent
            \/ /\ code = "ok" /\ jobs' = [jobs EXCEPT ![j].state = "BUDGET_PAUSED"]
               /\ Rest /\ UNCHANGED <<open, spent>>
            \/ /\ code = "ok" /\ jobs[j].plan = NoInputs /\ Affordable(RoleOf(j))
               /\ jobs' = [jobs EXCEPT ![j].state = "RUNNING", ![j].inputs = Working(j),
                                ![j].attempts = @ + 1]
               /\ open' = [open EXCEPT ![j] = "SENDING"]
               /\ spent' = [spent EXCEPT ![RoleOf(j)][day] = @ + 1]
               /\ running' = j /\ held' = jobs[j].config /\ using' = Working(j)
               /\ place' = "reserved" /\ UNCHANGED <<aborted, answer>>
            \/ /\ code = "ok" /\ jobs[j].plan # NoInputs
               /\ jobs' = [jobs EXCEPT ![j].state = "RUNNING"]
               /\ running' = j /\ held' = jobs[j].config /\ using' = Working(j)
               /\ place' = "planned" /\ UNCHANGED <<open, spent, aborted, answer>>
<1>1. Current(j, jobs[j].config, jobs[j].inputs) \in
        {"ok", "STALE", "CONFIGURATION_BLOCKED", "PERMISSION_BLOCKED"}
  BY CurrentIs
<1>2. QED
  BY <1>1 DEF Execute, Queued, Stop, Working

LEMMA ChargedRow ==
  ASSUME NEW a \in JobRow, NEW w \in Inputs
  PROVE  LET b == [a EXCEPT !.state = "RUNNING", !.inputs = w, !.attempts = @ + 1] IN
         /\ b \in JobRow /\ b.state = "RUNNING" /\ b.inputs = w
         /\ b.attempts = a.attempts + 1 /\ b.plan = a.plan /\ b.done = a.done
         /\ b.digest = a.digest /\ b.config = a.config
<1>1. a.attempts + 1 \in Nat
  BY DEF JobRow
<1>2. QED
  BY <1>1 DEF JobRow

LEMMA ExecuteSound ==
  ASSUME StewardAssumption, TypeOK, AllSound, NEW j \in Job, Execute(j)
  PROVE  jobs' \in [Job -> JobRow] /\ AllSound'
<1> DEFINE code == Current(j, jobs[j].config, jobs[j].inputs)
<1>1. /\ jobs[j].state = "QUEUED" /\ UNCHANGED history
      /\ UNCHANGED <<calls, made, retries>>
  BY ExecuteIs DEF history
<1>2. CASE code \in Blocked /\ Fail(j, code)
  BY <1>1, <1>2, FailSound
<1>3. ASSUME NEW s \in {"BUDGET_PAUSED", "RUNNING"}, jobs' = [jobs EXCEPT ![j].state = s]
      PROVE  jobs' \in [Job -> JobRow] /\ AllSound'
  BY <1>1, <1>3, StopRows
<1>4. CASE /\ code = "ok" /\ jobs[j].plan = NoInputs
           /\ jobs' = [jobs EXCEPT ![j].state = "RUNNING", ![j].inputs = Working(j),
                            ![j].attempts = @ + 1]
  <2> DEFINE b == [jobs[j] EXCEPT !.state = "RUNNING", !.inputs = Working(j),
                                  !.attempts = @ + 1]
  <2>1. /\ Working(j) \in Inputs /\ Working(j).mark # 0
        /\ Working(j).text = jobs[j].digest
    BY <1>4, WorkingIs, Tables
  <2>2. /\ jobs[j] \in JobRow
        /\ Sound(jobs[j], RoleOf(j), calls[j], made[j], retries[j])
        /\ calls[j] \in Nat /\ retries[j] \in Nat
    BY Tables DEF AllSound, Fits
  <2>3. /\ b \in JobRow /\ b.state = "RUNNING" /\ b.inputs = Working(j)
        /\ b.attempts = jobs[j].attempts + 1 /\ b.plan = jobs[j].plan
        /\ b.done = jobs[j].done /\ b.digest = jobs[j].digest
    BY <2>1, <2>2, ChargedRow
  <2>4. jobs' = [jobs EXCEPT ![j] = b]
    BY <1>4, Tables
  <2> HIDE DEF b
  <2>5. jobs[j].attempts \in Nat
    BY <2>2 DEF JobRow
  <2>6. Sound(b, RoleOf(j), calls[j], made[j], retries[j])
    BY <1>1, <1>4, <2>1, <2>2, <2>3, <2>5 DEF Sound
  <2>7. QED
    BY <1>1, <2>3, <2>4, <2>6, OneRow
<1>5. QED
  BY <1>2, <1>3, <1>4, ExecuteIs

LEMMA SendSound ==
  ASSUME StewardAssumption, TypeOK, AllSound, Held, Send
  PROVE  jobs' \in [Job -> JobRow] /\ AllSound'
<1>1. /\ running \in Job /\ place = "reserved" /\ UNCHANGED <<jobs, made, retries>>
      /\ calls' = [calls EXCEPT ![running] = @ + 1]
  BY TheHeld DEF Send, durable
<1>2. calls[running] < jobs[running].attempts
  BY <1>1 DEF Held
<1>3. /\ jobs \in [Job -> JobRow] /\ calls \in [Job -> Nat]
      /\ jobs[running].attempts \in Nat
  BY <1>1, Tables DEF JobRow
<1>4. ASSUME NEW k \in Job
      PROVE  Sound(jobs'[k], RoleOf(k), calls'[k], made'[k], retries'[k])
  <2>1. Sound(jobs[k], RoleOf(k), calls[k], made[k], retries[k])
    BY DEF AllSound, Fits
  <2>2. CASE k = running
    <3>1. calls'[k] = calls[k] + 1 /\ calls[k] \in Nat /\ retries[k] \in Nat
      BY <1>1, <1>3, <2>2, Tables
    <3>2. QED
      BY <1>1, <1>2, <1>3, <2>1, <2>2, <3>1 DEF Sound
  <2>3. CASE k # running
    BY <1>1, <1>3, <2>1, <2>3
  <2>4. QED
    BY <2>2, <2>3
<1>5. QED
  BY <1>1, <1>3, <1>4 DEF AllSound, Fits

(* What a step of Judge does.                                              *)
LEMMA JudgeIs ==
  ASSUME StewardAssumption, TypeOK, Held, Judge
  PROVE  LET code == Current(running, held, using) IN
         /\ running \in Job /\ up /\ place = "answered"
         /\ UNCHANGED <<entries, spent, consumed, world, up, history, bounds>>
         /\ \/ /\ \E c \in Blocked : Fail(running, c)
               /\ code # "ok" \/ answer \in {"failed", "malformed"}
            \/ /\ code = "ok" /\ Rest /\ UNCHANGED open
               /\ jobs' = [jobs EXCEPT ![running].state = "REMOTE_UNKNOWN"]
            \/ /\ code = "ok" /\ Goto("planned") /\ UNCHANGED open
               /\ \E c \in {held, jobs[running].config}, f \in BOOLEAN :
                    jobs' = [jobs EXCEPT ![running].plan = using,
                               ![running].finds = f, ![running].state = "RUNNING",
                               ![running].config = c]
<1>1. running \in Job /\ up /\ place = "answered"
  BY TheHeld DEF Judge
<1>2. Current(running, held, using) \in
        {"ok", "STALE", "CONFIGURATION_BLOCKED", "PERMISSION_BLOCKED"}
  BY <1>1, CurrentIs
<1>3. QED
  BY <1>1, <1>2 DEF Judge, Stop

LEMMA JudgeSound ==
  ASSUME StewardAssumption, TypeOK, AllSound, Held, Judge
  PROVE  jobs' \in [Job -> JobRow] /\ AllSound'
<1>1. running \in Job /\ UNCHANGED history /\ UNCHANGED <<calls, made, retries>>
  BY JudgeIs DEF history
<1>2. ASSUME NEW c \in Blocked, Fail(running, c)
      PROVE  jobs' \in [Job -> JobRow] /\ AllSound'
  BY <1>1, <1>2, FailSound
<1>3. CASE jobs' = [jobs EXCEPT ![running].state = "REMOTE_UNKNOWN"]
  BY <1>1, <1>3, StopRows
<1>4. ASSUME NEW c \in {held, jobs[running].config}, NEW f \in BOOLEAN,
             jobs' = [jobs EXCEPT ![running].plan = using, ![running].finds = f,
                        ![running].state = "RUNNING", ![running].config = c]
      PROVE  jobs' \in [Job -> JobRow] /\ AllSound'
  <2> DEFINE b == [jobs[running] EXCEPT !.plan = using, !.finds = f,
                     !.state = "RUNNING", !.config = c]
  <2>1. /\ jobs[running] \in JobRow /\ using \in Inputs /\ held \in Nat
        /\ Sound(jobs[running], RoleOf(running), calls[running], made[running],
                 retries[running])
    BY <1>1, Tables DEF AllSound, Fits
  <2>2. /\ b \in JobRow /\ b.state = "RUNNING" /\ b.plan = using
        /\ b.inputs = jobs[running].inputs /\ b.digest = jobs[running].digest
        /\ b.attempts = jobs[running].attempts /\ b.done = jobs[running].done
    BY <2>1 DEF JobRow
  <2>3. jobs' = [jobs EXCEPT ![running] = b]
    BY <1>1, <1>4, Tables
  <2>4. calls[running] > 0
    BY JudgeIs DEF Held
  <2> HIDE DEF b
  <2>5. Sound(b, RoleOf(running), calls[running], made[running], retries[running])
    BY <2>1, <2>2, <2>4 DEF Sound
  <2>6. QED
    BY <1>1, <2>2, <2>3, <2>5, OneRow
<1>5. QED
  BY <1>2, <1>3, <1>4, JudgeIs

(* A slot is committed together with its receipt.                          *)
LEMMA SlotSound ==
  ASSUME StewardAssumption, TypeOK, AllSound, running \in Job, SlotDone,
         RoleOf(running) = "keep", NextSlot, jobs[running].state # "NONE",
         UNCHANGED <<calls, retries>>
  PROVE  jobs' \in [Job -> JobRow] /\ AllSound'
<1> DEFINE b == [jobs[running] EXCEPT !.done = @ + 1]
<1>1. /\ jobs[running] \in JobRow /\ made \in [Job -> Nat] /\ Slots \in Nat
      /\ Sound(jobs[running], RoleOf(running), calls[running], made[running],
               retries[running])
  BY Tables DEF AllSound, Fits
<1>2. jobs[running].done < Slots /\ jobs[running].done \in 0..Slots
  BY <1>1 DEF NextSlot, JobRow
<1>3. jobs[running].done + 1 \in 0..Slots
  BY <1>1, <1>2
<1>4. /\ b \in JobRow /\ b.state = jobs[running].state /\ b.plan = jobs[running].plan
      /\ b.inputs = jobs[running].inputs /\ b.digest = jobs[running].digest
      /\ b.attempts = jobs[running].attempts /\ b.done = jobs[running].done + 1
  BY <1>1, <1>3 DEF JobRow
<1>5. /\ jobs' = [jobs EXCEPT ![running] = b]
      /\ made'[running] = made[running] + 1
      /\ \A k \in Job \ {running} : made'[k] = made[k]
  BY <1>1, Tables DEF SlotDone
<1> HIDE DEF b
<1>6. Sound(b, RoleOf(running), calls[running], made'[running], retries[running])
  BY <1>1, <1>4, <1>5 DEF Sound
<1>7. QED
  BY <1>4, <1>5, <1>6, OneRow

(* A retry is a request of the user, and what is read again fits its text. *)
LEMMA RetryIs ==
  ASSUME StewardAssumption, TypeOK, AllSound, NEW j \in Job, Retry(j)
  PROVE  \E b \in JobRow :
           /\ jobs' = [jobs EXCEPT ![j] = b]
           /\ b.state = "QUEUED" /\ b.attempts = jobs[j].attempts
           /\ b.done = jobs[j].done /\ b.plan = jobs[j].plan
           /\ jobs[j].digest # 0 => b.digest = jobs[j].digest
           /\ \/ b.inputs = NoInputs
              \/ b.inputs = jobs[j].inputs /\ b.digest = jobs[j].digest
<1> DEFINE a == Refreshed(j)
           v == config[RoleOf(j)].version
           b == [a EXCEPT !.state = "QUEUED", !.config = v]
<1>1. /\ jobs[j] \in JobRow /\ v \in Nat /\ text[Subject(j)] \in Nat
  BY JobFacts, Tables
<1>2. /\ a \in JobRow /\ a.attempts = jobs[j].attempts /\ a.done = jobs[j].done
      /\ a.plan = jobs[j].plan
      /\ jobs[j].digest # 0 => a.digest = jobs[j].digest
      /\ \/ a.inputs = NoInputs
         \/ a.inputs = jobs[j].inputs /\ a.digest = jobs[j].digest
  <2>1. CASE jobs[j].plan # NoInputs
    BY <1>1, <2>1 DEF Refreshed
  <2>2. CASE jobs[j].plan = NoInputs
    <3> DEFINE d == IF RoleOf(j) = "find" /\ jobs[j].digest = 0
                    THEN text[Subject(j)] ELSE jobs[j].digest
    <3>1. d \in Nat /\ (jobs[j].digest # 0 => d = jobs[j].digest)
      BY <1>1 DEF JobRow
    <3>2. a = [jobs[j] EXCEPT !.inputs = NoInputs, !.digest = d]
      BY <2>2 DEF Refreshed
    <3> HIDE DEF d
    <3>3. QED
      BY <1>1, <3>1, <3>2, NoInputsFacts DEF JobRow
  <2>3. QED
    BY <2>1, <2>2
<1>3. jobs' = [jobs EXCEPT ![j] = b]
  BY DEF Retry
<1> HIDE DEF a, v
<1>4. /\ b \in JobRow /\ b.state = "QUEUED" /\ b.attempts = a.attempts
      /\ b.done = a.done /\ b.plan = a.plan /\ b.inputs = a.inputs
      /\ b.digest = a.digest
  BY <1>1, <1>2 DEF JobRow
<1> HIDE DEF b
<1>5. QED
  BY <1>2, <1>3, <1>4

LEMMA RetrySound ==
  ASSUME StewardAssumption, TypeOK, AllSound, NEW j \in Job, Retry(j)
  PROVE  jobs' \in [Job -> JobRow] /\ AllSound'
<1>1. PICK b \in JobRow :
        /\ jobs' = [jobs EXCEPT ![j] = b]
        /\ b.state = "QUEUED" /\ b.attempts = jobs[j].attempts
        /\ b.done = jobs[j].done /\ b.plan = jobs[j].plan
        /\ \/ b.inputs = NoInputs
           \/ b.inputs = jobs[j].inputs /\ b.digest = jobs[j].digest
  BY RetryIs
<1>2. /\ Sound(jobs[j], RoleOf(j), calls[j], made[j], retries[j])
      /\ jobs[j] \in JobRow /\ retries \in [Job -> Nat] /\ calls[j] \in Nat
      /\ retries' = [retries EXCEPT ![j] = @ + 1] /\ UNCHANGED <<calls, made>>
  BY Tables DEF AllSound, Fits, Retry
<1>3. /\ retries'[j] = retries[j] + 1 /\ retries[j] \in Nat
      /\ \A k \in Job \ {j} : retries'[k] = retries[k]
  BY <1>2
<1>4. jobs[j].attempts \in Nat
  BY <1>2 DEF JobRow
<1>5. Sound(b, RoleOf(j), calls'[j], made'[j], retries'[j])
  BY <1>1, <1>2, <1>3, <1>4 DEF Sound
<1>6. QED
  BY <1>1, <1>2, <1>3, <1>5, OneRow

(* Halting a job: it is over, with what it has committed.                  *)
LEMMA HaltedIs ==
  ASSUME StewardAssumption, TypeOK, NEW j \in Job
  PROVE  /\ Halted(j) \in {"PARTIAL", "CANCELLED"}
         /\ jobs[j].done = 0 => Halted(j) = "CANCELLED"
BY Tables DEF Halted, JobRow

LEMMA CancelSound ==
  ASSUME StewardAssumption, TypeOK, AllSound, NEW j \in Job, Cancel(j)
  PROVE  jobs' \in [Job -> JobRow] /\ AllSound'
<1>1. jobs' = [jobs EXCEPT ![j].state = Halted(j)] /\ UNCHANGED history
  BY DEF Cancel, Stop
<1>2. PICK s \in {"PARTIAL", "CANCELLED"} : s = Halted(j)
  BY HaltedIs
<1>3. jobs' = [jobs EXCEPT ![j].state = s]
  BY <1>1, <1>2
<1>4. QED
  BY <1>1, <1>3, StopRows

LEMMA DismissIs ==
  ASSUME StewardAssumption, TypeOK, NEW e \in Entry, DismissJob(e)
  PROVE  \/ UNCHANGED jobs
         \/ \E s \in {"PARTIAL", "CANCELLED"} :
              /\ jobs' = [jobs EXCEPT ![<<"keep", e>>].state = s]
              /\ jobs[<<"keep", e>>].state # "NONE"
BY HaltedIs, JobOf DEF DismissJob

LEMMA DismissSound ==
  ASSUME StewardAssumption, TypeOK, AllSound, NEW e \in Entry, Dismiss(e)
  PROVE  jobs' \in [Job -> JobRow] /\ AllSound'
<1>1. UNCHANGED history /\ DismissJob(e) /\ UNCHANGED <<calls, made, retries>>
  BY DEF Dismiss, history
<1>2. CASE UNCHANGED jobs
  BY <1>1, <1>2, SameRows
<1>3. ASSUME NEW s \in {"PARTIAL", "CANCELLED"},
             jobs' = [jobs EXCEPT ![<<"keep", e>>].state = s]
      PROVE  jobs' \in [Job -> JobRow] /\ AllSound'
  <2>1. <<"keep", e>> \in Job
    BY JobOf
  <2>2. QED
    BY <1>1, <1>3, <2>1, StopRows
<1>4. QED
  BY <1>1, <1>2, <1>3, DismissIs

(* Steps that rewrite the whole table, row by row.                         *)
LEMMA AllRows ==
  ASSUME StewardAssumption, TypeOK, UNCHANGED <<calls, made, retries>>,
         NEW F, jobs' = [k \in Job |-> F[k]],
         \A k \in Job : F[k] \in JobRow /\ Fits(F[k], k)
  PROVE  jobs' \in [Job -> JobRow] /\ AllSound'
<1>1. jobs' \in [Job -> JobRow]
  OBVIOUS
<1>2. \A k \in Job : Sound(jobs'[k], RoleOf(k), calls'[k], made'[k], retries'[k])
  BY DEF Fits
<1>3. QED
  BY <1>1, <1>2 DEF AllSound, Fits

LEMMA PumpSound ==
  ASSUME StewardAssumption, TypeOK, AllSound, Pump
  PROVE  jobs' \in [Job -> JobRow] /\ AllSound'
<1>1. jobs' = Scanned(Role) /\ UNCHANGED <<calls, made, retries>>
  BY DEF Pump, history
<1>2. jobs' = [k \in Job |-> Scanned(Role)[k]]
  BY <1>1, ScannedRows, Zenon
<1>3. QED
  BY <1>1, <1>2, ScannedRows, AllRows

LEMMA RunSound ==
  ASSUME StewardAssumption, TypeOK, AllSound, NEW role, Run(role)
  PROVE  jobs' \in [Job -> JobRow] /\ AllSound'
<1> DEFINE found == Scanned({role})
           F == [k \in Job |-> IF RoleOf(k) = role /\ found[k].state = "BUDGET_PAUSED"
                               THEN [found[k] EXCEPT !.state = "QUEUED"] ELSE found[k]]
<1>1. jobs' = F /\ UNCHANGED <<calls, made, retries>>
  BY DEF Run, history
<1>2. ASSUME NEW k \in Job
      PROVE  F[k] \in JobRow /\ Fits(F[k], k)
  <2>1. found[k] \in JobRow /\ Fits(found[k], k)
    BY ScannedRows
  <2>2. CASE found[k].state = "BUDGET_PAUSED"
    <3>1. /\ [found[k] EXCEPT !.state = "QUEUED"] \in JobRow
          /\ Fits([found[k] EXCEPT !.state = "QUEUED"], k)
      BY <2>1, <2>2, StoppedRow DEF Fits
    <3>2. QED
      BY <2>1, <3>1
  <2>3. CASE found[k].state # "BUDGET_PAUSED"
    BY <2>1, <2>3
  <2>4. QED
    BY <2>2, <2>3
<1>3. jobs' = [k \in Job |-> F[k]]
  BY <1>1
<1> HIDE DEF F
<1>4. QED
  BY <1>1, <1>2, <1>3, AllRows

(* What a deletion leaves of a row.                                        *)
Purged(a) ==
  [a EXCEPT !.state = IF a.done > 0 THEN "PARTIAL" ELSE "CANCELLED",
            !.inputs = NoInputs, !.plan = NoInputs, !.finds = FALSE]

LEMMA PurgedRow ==
  ASSUME StewardAssumption, NEW a \in JobRow
  PROVE  /\ Purged(a) \in JobRow /\ Purged(a).state \in {"PARTIAL", "CANCELLED"}
         /\ Purged(a).inputs = NoInputs /\ Purged(a).plan = NoInputs
         /\ Purged(a).done = a.done /\ Purged(a).attempts = a.attempts
         /\ Purged(a).digest = a.digest
         /\ a.done = 0 => Purged(a).state = "CANCELLED"
<1>1. a.done \in Nat
  BY DEF JobRow, StewardAssumption
<1> DEFINE s == IF a.done > 0 THEN "PARTIAL" ELSE "CANCELLED"
<1>2. s \in {"PARTIAL", "CANCELLED"} /\ (a.done = 0 => s = "CANCELLED")
  BY <1>1
<1>3. Purged(a) = [a EXCEPT !.state = s, !.inputs = NoInputs, !.plan = NoInputs,
                            !.finds = FALSE]
  BY DEF Purged
<1> HIDE DEF s
<1>4. QED
  BY <1>2, <1>3, NoInputsFacts DEF JobRow

LEMMA PurgeIs ==
  ASSUME StewardAssumption, TypeOK, Purge
  PROVE  /\ jobs' = [k \in Job |-> IF jobs[k].state = "NONE" THEN jobs[k]
                                   ELSE Purged(jobs[k])]
         /\ UNCHANGED history
BY DEF Purge, Purged, Halted

LEMMA PurgeSound ==
  ASSUME StewardAssumption, TypeOK, AllSound, Purge
  PROVE  jobs' \in [Job -> JobRow] /\ AllSound'
<1> DEFINE F == [k \in Job |-> IF jobs[k].state = "NONE" THEN jobs[k]
                               ELSE Purged(jobs[k])]
<1>1. jobs' = F /\ UNCHANGED <<calls, made, retries>>
  BY PurgeIs DEF history
<1>2. ASSUME NEW k \in Job
      PROVE  F[k] \in JobRow /\ Fits(F[k], k)
  <2>1. jobs[k] \in JobRow /\ Fits(jobs[k], k)
    BY Tables DEF AllSound
  <2>2. Purged(jobs[k]) \in JobRow /\ Fits(Purged(jobs[k]), k)
    BY <2>1, PurgedRow DEF Fits, Sound
  <2>3. QED
    BY <2>1, <2>2
<1>3. jobs' = [k \in Job |-> F[k]]
  BY <1>1
<1> HIDE DEF F
<1>4. QED
  BY <1>1, <1>2, <1>3, AllRows

LEMMA RecoveredRow ==
  ASSUME StewardAssumption, TypeOK, AllSound, NEW k \in Job
  PROVE  /\ Recovered(k) \in JobRow /\ Fits(Recovered(k), k)
         /\ jobs[k].state # "RUNNING" => Recovered(k) = jobs[k]
         /\ Recovered(k).attempts = jobs[k].attempts
         /\ Recovered(k).done = jobs[k].done
         /\ jobs[k].state = "RUNNING" =>
              Recovered(k).state \in {"QUEUED", "REMOTE_UNKNOWN"}
<1>1. jobs[k] \in JobRow /\ Fits(jobs[k], k)
  BY Tables DEF AllSound
<1>2. CASE jobs[k].state # "RUNNING"
  BY <1>1, <1>2 DEF Recovered
<1>3. CASE jobs[k].state = "RUNNING"
  <2> DEFINE s == IF jobs[k].plan # NoInputs THEN "QUEUED" ELSE "REMOTE_UNKNOWN"
             b == [jobs[k] EXCEPT !.state = s]
  <2>1. s \in {"QUEUED", "REMOTE_UNKNOWN"} /\ (s = "QUEUED" => jobs[k].plan # NoInputs)
    OBVIOUS
  <2>2. Recovered(k) = b
    BY <1>3 DEF Recovered
  <2> HIDE DEF s
  <2>3. b \in JobRow /\ Fits(b, k) /\ b.state = s
    BY <1>1, <1>3, <2>1, StoppedRow DEF Fits
  <2>4. b.attempts = jobs[k].attempts /\ b.done = jobs[k].done
    BY <1>1 DEF JobRow
  <2> HIDE DEF b
  <2>5. QED
    BY <1>3, <2>1, <2>2, <2>3, <2>4
<1>4. QED
  BY <1>2, <1>3

LEMMA RestartSound ==
  ASSUME StewardAssumption, TypeOK, AllSound, Restart
  PROVE  jobs' \in [Job -> JobRow] /\ AllSound'
<1> DEFINE F == [k \in Job |-> Recovered(k)]
<1>1. jobs' = F /\ UNCHANGED <<calls, made, retries>>
  BY DEF Restart, history
<1>2. \A k \in Job : F[k] \in JobRow /\ Fits(F[k], k)
  BY RecoveredRow
<1>3. jobs' = [k \in Job |-> F[k]]
  BY <1>1
<1> HIDE DEF F
<1>4. QED
  BY <1>1, <1>2, <1>3, AllRows

LEMMA RowsStep ==
  ASSUME StewardAssumption, TypeOK, AllSound, Held, [Next]_vars
  PROVE  jobs' \in [Job -> JobRow] /\ AllSound'
<1>1. CASE UNCHANGED <<jobs, calls, made, retries>>
  BY <1>1, SameRows
<1>2. CASE Pump
  BY <1>2, PumpSound
<1>3. ASSUME NEW j \in Job, Execute(j)
      PROVE  jobs' \in [Job -> JobRow] /\ AllSound'
  BY <1>3, ExecuteSound
<1>4. CASE Send
  BY <1>4, SendSound
<1>5. CASE Judge
  BY <1>5, JudgeSound
<1>6. CASE Discover \/ Finish
  <2>1. /\ running \in Job /\ jobs' = [jobs EXCEPT ![running].state = "COMPLETED"]
        /\ UNCHANGED history
    BY <1>6, TheHeld DEF Discover, Finish, Stop
  <2>2. QED
    BY <2>1, StopRows
<1>7. CASE Equivalent
  <2>1. /\ running \in Job /\ SlotDone /\ NextSlot /\ UNCHANGED <<calls, retries>>
        /\ place = "slots"
    BY <1>7, TheHeld DEF Equivalent
  <2>2. QED
    BY <2>1, SlotSound DEF Held
<1>8. CASE Remember
  <2>1. /\ running \in Job /\ SlotDone /\ UNCHANGED <<calls, retries>>
        /\ place = "prepared"
    BY <1>8, TheHeld DEF Remember
  <2>2. QED
    BY <2>1, SlotSound DEF Held
<1>9. CASE SlotFails \/ AnswerLost
  <2>1. /\ running \in Job /\ UNCHANGED history
        /\ \E c \in Blocked : Fail(running, c)
    BY <1>9, TheHeld DEF SlotFails, AnswerLost
  <2>2. QED
    BY <2>1, FailSound
<1>10. ASSUME NEW role \in Role, Run(role)
       PROVE  jobs' \in [Job -> JobRow] /\ AllSound'
  BY <1>10, RunSound
<1>11. ASSUME NEW j \in Job, Cancel(j)
       PROVE  jobs' \in [Job -> JobRow] /\ AllSound'
  BY <1>11, CancelSound
<1>12. ASSUME NEW j \in Job, Retry(j)
       PROVE  jobs' \in [Job -> JobRow] /\ AllSound'
  BY <1>12, RetrySound
<1>13. ASSUME NEW e \in Entry, Dismiss(e)
       PROVE  jobs' \in [Job -> JobRow] /\ AllSound'
  BY <1>13, DismissSound
<1>14. CASE Purge
  BY <1>14, PurgeSound
<1>15. CASE Restart
  BY <1>15, RestartSound
<1>16. CASE NothingQueued \/ Freeze \/ Prepare \/ Midnight \/ Halt
  BY <1>1, <1>16 DEF NothingQueued, Freeze, Prepare, Midnight, Halt, durable, history
<1>17. ASSUME NEW result, Answer(result)
       PROVE  UNCHANGED <<jobs, calls, made, retries>>
  BY <1>17 DEF Answer, history
<1>18. ASSUME NEW role, NEW e, NEW g, Configure(role, e, g)
       PROVE  UNCHANGED <<jobs, calls, made, retries>>
  BY <1>18 DEF Configure, durable, history
<1>19. ASSUME NEW m, Keep(m) \/ Correct(m) \/ MoveSource(m) \/ MoveGrant(m)
       PROVE  UNCHANGED <<jobs, calls, made, retries>>
  BY <1>19 DEF Keep, Correct, MoveSource, MoveGrant, durable, history
<1>20. CASE MoveEpoch
  BY <1>1, <1>20 DEF MoveEpoch, durable, history
<1>21. CASE UNCHANGED vars
  BY <1>1, <1>21 DEF vars, durable, history
<1>22. QED
  BY <1>1, <1>2, <1>3, <1>4, <1>5, <1>6, <1>7, <1>8, <1>9, <1>10, <1>11, <1>12,
     <1>13, <1>14, <1>15, <1>16, <1>17, <1>18, <1>19, <1>20, <1>21
     DEF Next, PumpStep, AnswerStep, UserStep, WorldStep

(***************************************************************************)
(* What the other steps leave of a row.                                    *)
(***************************************************************************)
Over == {"COMPLETED", "CANCELLED"}

(* The counts stay, nothing is completed, a finding that is over stays so, *)
(* and what a job is about stays.                                          *)
Moves(k) ==
  /\ jobs'[k].done = jobs[k].done /\ jobs'[k].attempts = jobs[k].attempts
  /\ jobs'[k].state = "COMPLETED" => jobs[k].state = "COMPLETED"
  /\ RoleOf(k) = "find" /\ jobs[k].state \in Over => jobs'[k].state \in Over
  /\ jobs[k].state # "NONE" => jobs'[k].state # "NONE"
  /\ jobs[k].digest # 0 => jobs'[k].digest = jobs[k].digest

LEMMA StopMoves ==
  ASSUME StewardAssumption, TypeOK, NEW j \in Job, NEW s \in States,
         jobs' = [jobs EXCEPT ![j].state = s], s \notin {"NONE", "COMPLETED"},
         RoleOf(j) = "find" /\ jobs[j].state \in Over => s = "CANCELLED"
  PROVE  \A k \in Job : Moves(k)
<1>1. /\ jobs'[j] = [jobs[j] EXCEPT !.state = s] /\ jobs[j] \in JobRow
      /\ \A k \in Job \ {j} : jobs'[k] = jobs[k]
  BY Tables
<1>2. /\ jobs'[j].state = s /\ jobs'[j].done = jobs[j].done
      /\ jobs'[j].attempts = jobs[j].attempts /\ jobs'[j].digest = jobs[j].digest
  BY <1>1 DEF JobRow
<1>3. QED
  BY <1>1, <1>2 DEF Moves, Over

LEMMA SameMoves ==
  ASSUME UNCHANGED jobs
  PROVE  \A k \in Job : Moves(k)
BY DEF Moves

LEMMA FailMoves ==
  ASSUME StewardAssumption, TypeOK, NEW j \in Job, NEW code \in Blocked, Fail(j, code)
  PROVE  \A k \in Job : Moves(k)
<1>1. CASE UNCHANGED jobs
  BY <1>1, SameMoves
<1>2. ASSUME NEW s \in Blocked \cup {"PARTIAL", "REMOTE_UNKNOWN"},
             jobs[j].state \notin Final, jobs' = [jobs EXCEPT ![j].state = s]
      PROVE  \A k \in Job : Moves(k)
  BY <1>2, StopMoves DEF Final, Over
<1>3. QED
  BY <1>1, <1>2, FailRows

(* A finding has committed no slot.                                        *)
LEMMA FindsNone ==
  ASSUME AllSound, NEW k \in Job, RoleOf(k) = "find"
  PROVE  jobs[k].done = 0
BY DEF AllSound, Fits, Sound

(* Every step but a charge, a slot and an end.                             *)
LEMMA MovesStep ==
  ASSUME StewardAssumption, TypeOK, AllSound, Held, [Next]_vars,
         \A j \in Job : ~Execute(j),
         ~Discover, ~Finish, ~Equivalent, ~Remember
  PROVE  \A k \in Job : Moves(k)
<1>1. CASE UNCHANGED jobs
  BY <1>1, SameMoves
<1>2. CASE Pump
  <2>1. jobs' = Scanned(Role)
    BY <1>2 DEF Pump
  <2>2. ASSUME NEW k \in Job
        PROVE  Moves(k)
    <3>1. /\ jobs'[k].attempts = jobs[k].attempts /\ jobs'[k].done = jobs[k].done
          /\ \/ jobs'[k] = jobs[k]
             \/ jobs[k].state = "NONE" /\ jobs'[k].state = "QUEUED"
      BY <2>1, ScannedRows
    <3>2. jobs[k].state = "NONE" => jobs[k].digest = 0
      BY NoJobFacts DEF AllSound, Fits, Sound
    <3>3. QED
      BY <3>1, <3>2 DEF Moves, Over
  <2>3. QED
    BY <2>2
<1>3. CASE Send
  BY <1>1, <1>3 DEF Send, durable
<1>4. CASE Judge
  <2>1. running \in Job
    BY <1>4, JudgeIs
  <2>2. ASSUME NEW c \in Blocked, Fail(running, c)
        PROVE  \A k \in Job : Moves(k)
    BY <2>1, <2>2, FailMoves
  <2>3. CASE Current(running, held, using) = "ok"
    <3>1. jobs[running].state \in {"RUNNING", "QUEUED"}
      BY <2>1, <2>3, CurrentIs
    <3>2. CASE jobs' = [jobs EXCEPT ![running].state = "REMOTE_UNKNOWN"]
      <4>1. jobs[running].state \notin Over
        BY <3>1 DEF Over
      <4>2. QED
        BY <2>1, <3>2, <4>1, StopMoves, "REMOTE_UNKNOWN" \in States
    <3>3. ASSUME NEW c, NEW f,
                 jobs' = [jobs EXCEPT ![running].plan = using, ![running].finds = f,
                            ![running].state = "RUNNING", ![running].config = c]
          PROVE  \A k \in Job : Moves(k)
      <4>1. /\ jobs'[running] = [jobs[running] EXCEPT !.plan = using, !.finds = f,
                                  !.state = "RUNNING", !.config = c]
            /\ \A k \in Job \ {running} : jobs'[k] = jobs[k]
            /\ jobs[running] \in JobRow
        BY <2>1, <3>3, Tables
      <4>2. /\ jobs'[running].state = "RUNNING"
            /\ jobs'[running].done = jobs[running].done
            /\ jobs'[running].attempts = jobs[running].attempts
            /\ jobs'[running].digest = jobs[running].digest
        BY <4>1 DEF JobRow
      <4>3. QED
        BY <3>1, <4>1, <4>2 DEF Moves, Over
    <3>4. QED
      BY <1>4, <2>2, <3>2, <3>3, JudgeIs
  <2>4. QED
    BY <1>4, <2>2, <2>3, JudgeIs
<1>5. CASE SlotFails \/ AnswerLost
  <2>1. running \in Job /\ \E c \in Blocked : Fail(running, c)
    BY <1>5, TheHeld DEF SlotFails, AnswerLost
  <2>2. QED
    BY <2>1, FailMoves
<1>6. ASSUME NEW role \in Role, Run(role)
      PROVE  \A k \in Job : Moves(k)
  <2> DEFINE found == Scanned({role})
  <2>1. ASSUME NEW k \in Job
        PROVE  Moves(k)
    <3>1. \/ jobs'[k] = found[k]
          \/ /\ found[k].state = "BUDGET_PAUSED"
             /\ jobs'[k] = [found[k] EXCEPT !.state = "QUEUED"]
      BY <1>6 DEF Run
    <3>2. /\ found[k] \in JobRow
          /\ found[k].attempts = jobs[k].attempts /\ found[k].done = jobs[k].done
          /\ \/ found[k] = jobs[k]
             \/ jobs[k].state = "NONE" /\ found[k].state = "QUEUED"
      BY ScannedRows
    <3>3. jobs[k].state = "NONE" => jobs[k].digest = 0
      BY NoJobFacts DEF AllSound, Fits, Sound
    <3> HIDE DEF found
    <3>4. /\ jobs'[k].attempts = found[k].attempts /\ jobs'[k].done = found[k].done
          /\ jobs'[k].digest = found[k].digest
          /\ \/ jobs'[k].state = found[k].state
             \/ jobs'[k].state = "QUEUED" /\ found[k].state = "BUDGET_PAUSED"
      <4>1. CASE jobs'[k] = found[k]
        BY <4>1
      <4>2. CASE /\ found[k].state = "BUDGET_PAUSED"
                 /\ jobs'[k] = [found[k] EXCEPT !.state = "QUEUED"]
        BY <3>2, <4>2 DEF JobRow
      <4>3. QED
        BY <3>1, <4>1, <4>2
    <3>5. QED
      BY <3>2, <3>3, <3>4 DEF Moves, Over
  <2>2. QED
    BY <2>1
<1>7. ASSUME NEW j \in Job, Cancel(j)
      PROVE  \A k \in Job : Moves(k)
  <2>1. PICK s \in {"PARTIAL", "CANCELLED"} :
          s = Halted(j) /\ (jobs[j].done = 0 => s = "CANCELLED")
    BY HaltedIs
  <2>2. jobs' = [jobs EXCEPT ![j].state = s]
    BY <1>7, <2>1 DEF Cancel, Stop
  <2>3. QED
    BY <2>1, <2>2, FindsNone, StopMoves
<1>8. ASSUME NEW j \in Job, Retry(j)
      PROVE  \A k \in Job : Moves(k)
  <2>1. PICK b \in JobRow :
          /\ jobs' = [jobs EXCEPT ![j] = b]
          /\ b.state = "QUEUED" /\ b.attempts = jobs[j].attempts
          /\ b.done = jobs[j].done
          /\ jobs[j].digest # 0 => b.digest = jobs[j].digest
    BY <1>8, RetryIs
  <2>2. jobs[j].state \notin Over
    BY <1>8 DEF Retry, MayRetry, Over
  <2>3. jobs'[j] = b /\ \A k \in Job \ {j} : jobs'[k] = jobs[k]
    BY <2>1, Tables
  <2>4. QED
    BY <2>1, <2>2, <2>3 DEF Moves
<1>9. ASSUME NEW e \in Entry, Dismiss(e)
      PROVE  \A k \in Job : Moves(k)
  <2>1. <<"keep", e>> \in Job /\ RoleOf(<<"keep", e>>) = "keep"
    BY JobOf
  <2>2. ASSUME NEW s \in {"PARTIAL", "CANCELLED"},
               jobs' = [jobs EXCEPT ![<<"keep", e>>].state = s]
        PROVE  \A k \in Job : Moves(k)
    BY <2>1, <2>2, StopMoves
  <2>3. QED
    BY <1>1, <1>9, <2>2, DismissIs DEF Dismiss
<1>10. CASE Purge
  <2>1. ASSUME NEW k \in Job
        PROVE  Moves(k)
    <3>1. /\ jobs'[k] = IF jobs[k].state = "NONE" THEN jobs[k] ELSE Purged(jobs[k])
          /\ jobs[k] \in JobRow
      BY <1>10, PurgeIs, Tables
    <3>2. QED
      BY <3>1, PurgedRow, FindsNone DEF Moves, Over
  <2>2. QED
    BY <2>1
<1>11. CASE Restart
  <2>1. ASSUME NEW k \in Job
        PROVE  Moves(k)
    <3>1. jobs'[k] = Recovered(k) /\ jobs[k] \in JobRow
      BY <1>11, Tables DEF Restart
    <3>2. Recovered(k).digest = jobs[k].digest
      BY <3>1 DEF Recovered, JobRow
    <3>3. QED
      BY <3>1, <3>2, RecoveredRow DEF Moves, Over
  <2>2. QED
    BY <2>1
<1>12. CASE NothingQueued \/ Freeze \/ Prepare \/ Midnight \/ Halt
  BY <1>1, <1>12 DEF NothingQueued, Freeze, Prepare, Midnight, Halt, durable
<1>13. ASSUME NEW result, Answer(result)
       PROVE  UNCHANGED jobs
  BY <1>13 DEF Answer
<1>14. ASSUME NEW role, NEW e, NEW g, Configure(role, e, g)
       PROVE  UNCHANGED jobs
  BY <1>14 DEF Configure, durable
<1>15. ASSUME NEW m, Keep(m) \/ Correct(m) \/ MoveSource(m) \/ MoveGrant(m)
       PROVE  UNCHANGED jobs
  BY <1>15 DEF Keep, Correct, MoveSource, MoveGrant, durable
<1>16. CASE MoveEpoch
  BY <1>1, <1>16 DEF MoveEpoch, durable
<1>17. CASE UNCHANGED vars
  BY <1>1, <1>17 DEF vars, durable
<1>18. QED
  BY <1>1, <1>2, <1>3, <1>4, <1>5, <1>6, <1>7, <1>8, <1>9, <1>10, <1>11, <1>12,
     <1>13, <1>14, <1>15, <1>16, <1>17
     DEF Next, PumpStep, AnswerStep, UserStep, WorldStep

(***************************************************************************)
(* Types.                                                                  *)
(***************************************************************************)
LEMMA WorldTypes ==
  ASSUME StewardAssumption, TypeOK, [Next]_vars
  PROVE  /\ config' \in [Role -> [version : Nat, enabled : BOOLEAN]]
         /\ allowed' \in [Role -> BOOLEAN] /\ mark' \in Nat \ {0}
         /\ text' \in [Entry -> Nat] /\ gone' \in BOOLEAN
         /\ day' \in 0..MaxDay /\ up' \in BOOLEAN
         /\ moves' \in Nat /\ stops' \in Nat /\ faults' \in Nat
<1>1. /\ config \in [Role -> [version : Nat, enabled : BOOLEAN]]
      /\ allowed \in [Role -> BOOLEAN] /\ mark \in Nat \ {0}
      /\ text \in [Entry -> Nat] /\ gone \in BOOLEAN
      /\ day \in 0..MaxDay /\ up \in BOOLEAN /\ MaxDay \in Nat
      /\ moves \in Nat /\ stops \in Nat /\ faults \in Nat
  BY DEF TypeOK, StewardAssumption
<1>2. CASE UNCHANGED <<world, up, bounds>>
  BY <1>1, <1>2 DEF world, bounds
<1>3. CASE AnswerLost \/ SlotFails
  BY <1>1, <1>3 DEF AnswerLost, SlotFails, world
<1>4. ASSUME NEW role \in Role, NEW e \in BOOLEAN, NEW g \in BOOLEAN,
             Configure(role, e, g)
      PROVE  /\ config' \in [Role -> [version : Nat, enabled : BOOLEAN]]
             /\ allowed' \in [Role -> BOOLEAN] /\ mark' \in Nat \ {0}
             /\ UNCHANGED <<text, gone, day, up, bounds>>
  <2>1. [version |-> config[role].version + 1, enabled |-> e]
          \in [version : Nat, enabled : BOOLEAN]
    BY <1>1
  <2>2. config' \in [Role -> [version : Nat, enabled : BOOLEAN]]
    BY <1>1, <1>4, <2>1 DEF Configure
  <2>3. /\ allowed' \in [Role -> BOOLEAN] /\ mark' \in Nat \ {0}
        /\ UNCHANGED <<text, gone, day, up, bounds>>
    BY <1>1, <1>4 DEF Configure
  <2>4. QED
    BY <2>2, <2>3
<1>5. ASSUME NEW m \in Memory, Correct(m)
      PROVE  /\ text' \in [Entry -> Nat] /\ moves' \in Nat
             /\ UNCHANGED <<config, allowed, mark, gone, day, up, stops, faults>>
  BY <1>1, <1>5 DEF Correct, Move, Entry
<1>6. ASSUME NEW r \in Round, MoveSource(r)
      PROVE  /\ text' \in [Entry -> Nat] /\ moves' \in Nat
             /\ UNCHANGED <<config, allowed, mark, gone, day, up, stops, faults>>
  BY <1>1, <1>6 DEF MoveSource, Move, Entry
<1>7. ASSUME NEW role \in Role, MoveGrant(role)
      PROVE  /\ allowed' \in [Role -> BOOLEAN] /\ mark' \in Nat \ {0} /\ moves' \in Nat
             /\ UNCHANGED <<config, text, gone, day, up, stops, faults>>
  BY <1>1, <1>7 DEF MoveGrant, Move
<1>8. CASE MoveEpoch
  BY <1>1, <1>8 DEF MoveEpoch, Move
<1>9. CASE Purge
  <2>1. /\ gone' = TRUE /\ moves' = moves + 1
        /\ UNCHANGED <<config, allowed, mark, text, day, up, stops, faults>>
    BY <1>9, Zenon DEF Purge, Move
  <2>2. QED
    BY <1>1, <2>1
<1>10. CASE Midnight
  BY <1>1, <1>10 DEF Midnight, bounds
<1>11. CASE Halt
  <2>1. /\ up' = FALSE /\ stops' = stops + 1
        /\ UNCHANGED <<config, allowed, mark, text, gone, day, moves, faults>>
    BY <1>11 DEF Halt, world
  <2>2. up' \in BOOLEAN
    BY <2>1
  <2>3. stops' \in Nat
    BY <1>1, <2>1
  <2>4. QED
    BY <1>1, <2>1, <2>2, <2>3
<1>12. CASE Restart
  BY <1>1, <1>12 DEF Restart, world, bounds
<1>13. ASSUME NEW j, Execute(j) \/ Cancel(j) \/ Retry(j)
       PROVE  UNCHANGED <<world, up, bounds>>
  BY <1>13 DEF Execute, Cancel, Retry
<1>14. ASSUME NEW e, Answer(e) \/ Run(e) \/ Dismiss(e) \/ Keep(e)
       PROVE  UNCHANGED <<world, up, bounds>>
  BY <1>14 DEF Answer, Run, Dismiss, Keep
<1>15. CASE Pump \/ NothingQueued \/ Send \/ Judge \/ Discover \/ Freeze \/ Equivalent
  BY <1>2, <1>15 DEF Pump, NothingQueued, Send, Judge, Discover, Freeze, Equivalent
<1>16. CASE Prepare \/ Remember \/ Finish
  BY <1>2, <1>16 DEF Prepare, Remember, Finish
<1>17. CASE UNCHANGED vars
  BY <1>2, <1>17 DEF vars
<1>18. QED
  BY <1>1, <1>2, <1>3, <1>4, <1>5, <1>6, <1>7, <1>8, <1>9, <1>10, <1>11, <1>12,
     <1>13, <1>14, <1>15, <1>16, <1>17
     DEF Next, PumpStep, AnswerStep, UserStep, WorldStep, bounds

LEMMA HistoryTypes ==
  ASSUME StewardAssumption, TypeOK, Held, [Next]_vars
  PROVE  calls' \in [Job -> Nat] /\ made' \in [Job -> Nat] /\ retries' \in [Job -> Nat]
<1>1. calls \in [Job -> Nat] /\ made \in [Job -> Nat] /\ retries \in [Job -> Nat]
  BY Tables
<1>2. CASE UNCHANGED history
  BY <1>1, <1>2 DEF history
<1>3. CASE Send
  BY <1>1, <1>3, TheHeld DEF Send
<1>4. CASE Equivalent \/ Remember
  BY <1>1, <1>4, TheHeld DEF Equivalent, Remember, SlotDone
<1>5. ASSUME NEW j \in Job, Retry(j)
      PROVE  retries' \in [Job -> Nat] /\ UNCHANGED <<calls, made>>
  BY <1>1, <1>5 DEF Retry
<1>6. ASSUME NEW j, Execute(j) \/ Cancel(j) \/ Answer(j) \/ Run(j) \/ Dismiss(j)
      PROVE  UNCHANGED history
  BY <1>6 DEF Execute, Cancel, Answer, Run, Dismiss
<1>7. ASSUME NEW m, Keep(m) \/ Correct(m) \/ MoveSource(m) \/ MoveGrant(m)
      PROVE  UNCHANGED history
  BY <1>7 DEF Keep, Correct, MoveSource, MoveGrant
<1>8. ASSUME NEW role, NEW e, NEW g, Configure(role, e, g)
      PROVE  UNCHANGED history
  BY <1>8 DEF Configure
<1>9. CASE Pump \/ NothingQueued \/ Judge \/ Discover \/ Freeze \/ Prepare \/ Finish
  BY <1>2, <1>9 DEF Pump, NothingQueued, Judge, Discover, Freeze, Prepare, Finish
<1>10. CASE SlotFails \/ AnswerLost \/ MoveEpoch \/ Purge \/ Midnight \/ Halt \/ Restart
  BY <1>2, <1>10 DEF SlotFails, AnswerLost, MoveEpoch, Purge, Midnight, Halt, Restart
<1>11. CASE UNCHANGED vars
  BY <1>2, <1>11 DEF vars
<1>12. QED
  BY <1>1, <1>2, <1>3, <1>4, <1>5, <1>6, <1>7, <1>8, <1>9, <1>10, <1>11
     DEF Next, PumpStep, AnswerStep, UserStep, WorldStep

LEMMA RestTypes ==
  ASSUME Rest
  PROVE  /\ running' = None /\ place' \in Places /\ held' \in Nat /\ using' \in Inputs
         /\ aborted' \in BOOLEAN /\ answer' \in Results \cup {"none"}
BY NoInputsFacts DEF Rest

LEMMA PumpTypes ==
  ASSUME StewardAssumption, TypeOK, AllSound, Held, [Next]_vars
  PROVE  /\ running' \in Job \cup {None} /\ place' \in Places /\ held' \in Nat
         /\ using' \in Inputs /\ aborted' \in BOOLEAN
         /\ answer' \in Results \cup {"none"}
<1>1. /\ running \in Job \cup {None} /\ place \in Places /\ held \in Nat
      /\ using \in Inputs /\ aborted \in BOOLEAN /\ answer \in Results \cup {"none"}
  BY DEF TypeOK
<1>2. CASE UNCHANGED volatile
  BY <1>1, <1>2 DEF volatile
<1>3. CASE Rest
  BY <1>3, RestTypes
<1>4. ASSUME NEW j \in Job, Execute(j)
      PROVE  \/ Rest
             \/ /\ running' \in Job /\ place' \in Places /\ held' \in Nat
                /\ using' \in Inputs /\ UNCHANGED <<aborted, answer>>
  <2>1. jobs[j].config \in Nat
    BY Tables DEF JobRow
  <2>2. QED
    BY <1>4, <2>1, ExecuteIs, WorkingIs, FailRows
<1>5. CASE Pump \/ NothingQueued \/ Send \/ Freeze \/ Prepare \/ Remember
  BY <1>1, <1>5 DEF Pump, NothingQueued, Send, Freeze, Prepare, Remember, Goto
<1>6. CASE Judge
  <2>1. Rest \/ Goto("planned")
    BY <1>6, JudgeIs, FailRows
  <2>2. QED
    BY <1>1, <1>3, <2>1 DEF Goto
<1>7. CASE Discover \/ Finish \/ Halt
  BY <1>3, <1>7 DEF Discover, Finish, Halt
<1>8. CASE SlotFails \/ AnswerLost
  <2>1. Rest
    BY <1>8, TheHeld, FailRows DEF SlotFails, AnswerLost
  <2>2. QED
    BY <1>3, <2>1
<1>9. ASSUME NEW result \in Results, Answer(result)
      PROVE  /\ UNCHANGED <<running, held, using, aborted>>
             /\ answer' = result /\ place' = "answered"
  BY <1>9 DEF Answer
<1>10. ASSUME NEW role, NEW e, NEW g, Configure(role, e, g)
       PROVE  aborted' \in BOOLEAN /\ UNCHANGED <<running, place, held, using, answer>>
  BY <1>1, <1>10 DEF Configure
<1>11. ASSUME NEW j, Cancel(j)
       PROVE  aborted' \in BOOLEAN /\ UNCHANGED <<running, place, held, using, answer>>
  BY <1>1, <1>11 DEF Cancel
<1>12. CASE MoveEpoch \/ Purge
  BY <1>1, <1>12 DEF MoveEpoch, Purge
<1>13. ASSUME NEW m, \/ Retry(m) \/ Run(m) \/ Dismiss(m) \/ Keep(m) \/ Correct(m)
                     \/ MoveSource(m) \/ MoveGrant(m)
       PROVE  UNCHANGED volatile
  BY <1>13 DEF Retry, Run, Dismiss, Keep, Correct, MoveSource, MoveGrant
<1>14. CASE Equivalent \/ Midnight \/ Restart
  BY <1>2, <1>14 DEF Equivalent, Midnight, Restart
<1>15. CASE UNCHANGED vars
  BY <1>2, <1>15 DEF vars
<1>16. QED
  BY <1>1, <1>2, <1>3, <1>4, <1>5, <1>6, <1>7, <1>8, <1>9, <1>10, <1>11, <1>12,
     <1>13, <1>14, <1>15
     DEF Next, PumpStep, AnswerStep, UserStep, WorldStep

(* The entry of a finding that was new.                                    *)
LEMMA DiscoverIs ==
  ASSUME StewardAssumption, TypeOK, Held, Discover
  PROVE  /\ running \in Job /\ RoleOf(running) = "find" /\ Subject(running) \in Round
         /\ Current(running, held, using) = "ok" /\ place = "planned"
         /\ \/ UNCHANGED entries
            \/ /\ entries[Subject(running)].state = "none"
               /\ entries' = [entries EXCEPT ![Subject(running)] =
                                [state |-> "pending", digest |-> using.text]]
         /\ consumed' = consumed \cup {running}
         /\ jobs' = [jobs EXCEPT ![running].state = "COMPLETED"]
         /\ Rest /\ UNCHANGED <<open, spent, world, up, history, bounds>>
<1>1. running \in Job
  BY TheHeld DEF Discover
<1>2. QED
  BY <1>1, JobFacts DEF Discover, Stop

LEMMA Counted ==
  ASSUME NEW S, NEW f \in [S -> Nat], NEW d \in S
  PROVE  /\ [f EXCEPT ![d] = @ + 1] \in [S -> Nat]
         /\ [f EXCEPT ![d] = @ + 1][d] = f[d] + 1
         /\ \A x \in S \ {d} : [f EXCEPT ![d] = @ + 1][x] = f[x]
OBVIOUS

LEMMA LedgerTypes ==
  ASSUME StewardAssumption, TypeOK, AllSound, Held, [Next]_vars
  PROVE  /\ entries' \in [Entry -> [state : EntryStates, digest : Nat]]
         /\ open' \in [Job -> {"none", "SENDING", "SETTLED", "UNKNOWN"}]
         /\ spent' \in [Role -> [0..MaxDay -> Nat]]
         /\ consumed' \subseteq Job
<1>1. /\ entries \in [Entry -> [state : EntryStates, digest : Nat]]
      /\ open \in [Job -> {"none", "SENDING", "SETTLED", "UNKNOWN"}]
      /\ spent \in [Role -> [0..MaxDay -> Nat]]
      /\ consumed \subseteq Job
  BY DEF TypeOK
<1>2. CASE UNCHANGED <<entries, open, spent, consumed>>
  BY <1>1, <1>2
<1>3. ASSUME NEW j \in Job, Execute(j)
      PROVE  /\ open' \in [Job -> {"none", "SENDING", "SETTLED", "UNKNOWN"}]
             /\ spent' \in [Role -> [0..MaxDay -> Nat]]
             /\ UNCHANGED <<entries, consumed>>
  <2>1. RoleOf(j) \in Role /\ day \in 0..MaxDay
    BY JobFacts DEF TypeOK
  <2>2. spent[RoleOf(j)] \in [0..MaxDay -> Nat]
    BY <1>1, <2>1
  <2>3. [spent EXCEPT ![RoleOf(j)][day] = @ + 1] \in [Role -> [0..MaxDay -> Nat]]
    <3> DEFINE s == [spent[RoleOf(j)] EXCEPT ![day] = @ + 1]
    <3>1. s \in [0..MaxDay -> Nat]
      BY <2>1, <2>2, Counted
    <3>2. [spent EXCEPT ![RoleOf(j)][day] = @ + 1] = [spent EXCEPT ![RoleOf(j)] = s]
      BY <1>1, <2>1
    <3> HIDE DEF s
    <3>3. QED
      BY <1>1, <2>1, <3>1, <3>2
  <2>4. [open EXCEPT ![j] = "SENDING"] \in [Job -> {"none", "SENDING", "SETTLED", "UNKNOWN"}]
    BY <1>1
  <2>5. QED
    BY <1>1, <1>3, <2>3, <2>4, ExecuteIs, FailRows
<1>4. CASE Judge
  BY <1>1, <1>4, JudgeIs, FailRows
<1>5. CASE SlotFails \/ AnswerLost
  <2>1. running \in Job /\ UNCHANGED <<entries, spent, consumed>>
        /\ \E c \in Blocked : Fail(running, c)
    BY <1>5, TheHeld DEF SlotFails, AnswerLost
  <2>2. QED
    BY <1>1, <2>1, FailRows
<1>6. CASE Discover
  <2>1. Subject(running) \in Entry /\ using.text \in Nat
    BY <1>6, DiscoverIs, JobFacts, Tables DEF Inputs
  <2>2. [state |-> "pending", digest |-> using.text] \in [state : EntryStates, digest : Nat]
    BY <2>1
  <2>3. QED
    BY <1>1, <1>6, <2>1, <2>2, DiscoverIs
<1>7. CASE Finish
  <2>1. running \in Job /\ Subject(running) \in Entry
    BY <1>7, TheHeld, JobFacts DEF Finish
  <2>2. [entries[Subject(running)] EXCEPT !.state = "completed"]
          \in [state : EntryStates, digest : Nat]
    BY <1>1, <2>1
  <2>3. /\ entries' = [entries EXCEPT ![Subject(running)] =
                         [entries[Subject(running)] EXCEPT !.state = "completed"]]
        /\ consumed' = consumed \cup {running} /\ UNCHANGED <<open, spent>>
    BY <1>1, <1>7, <2>1 DEF Finish
  <2>4. QED
    BY <1>1, <2>1, <2>2, <2>3
<1>8. ASSUME NEW result, Answer(result)
      PROVE  /\ open' \in [Job -> {"none", "SENDING", "SETTLED", "UNKNOWN"}]
             /\ UNCHANGED <<entries, spent, consumed>>
  BY <1>1, <1>8 DEF Answer
<1>9. ASSUME NEW e \in Entry, NEW s \in EntryStates,
             entries' = [entries EXCEPT ![e].state = s]
      PROVE  entries' \in [Entry -> [state : EntryStates, digest : Nat]]
  <2>1. [entries[e] EXCEPT !.state = s] \in [state : EntryStates, digest : Nat]
    BY <1>1
  <2>2. entries' = [entries EXCEPT ![e] = [entries[e] EXCEPT !.state = s]]
    BY <1>1, <1>9
  <2>3. QED
    BY <1>1, <2>1, <2>2
<1>10. ASSUME NEW e \in Entry, Dismiss(e)
       PROVE  /\ entries' \in [Entry -> [state : EntryStates, digest : Nat]]
              /\ UNCHANGED <<open, spent, consumed>>
  BY <1>9, <1>10 DEF Dismiss
<1>11. ASSUME NEW m \in Memory, Keep(m)
       PROVE  /\ entries' \in [Entry -> [state : EntryStates, digest : Nat]]
              /\ UNCHANGED <<open, spent, consumed>>
  <2>1. m \in Entry /\ text[m] \in Nat
    BY Tables DEF Entry
  <2>2. [state |-> "pending", digest |-> text[m]] \in [state : EntryStates, digest : Nat]
    BY <2>1
  <2>3. QED
    BY <1>1, <1>11, <2>1, <2>2 DEF Keep
<1>12. ASSUME NEW m \in Memory, Correct(m)
       PROVE  /\ entries' \in [Entry -> [state : EntryStates, digest : Nat]]
              /\ UNCHANGED <<open, spent, consumed>>
  BY <1>9, <1>12 DEF Correct, Entry
<1>13. CASE Purge
  <2>1. \A e \in Entry :
          /\ entries[e] \in [state : EntryStates, digest : Nat]
          /\ [entries[e] EXCEPT !.state = "dismissed"] \in [state : EntryStates, digest : Nat]
    BY <1>1
  <2>2. /\ entries' = [e \in Entry |->
                         IF e \in Round /\ entries[e].state # "none"
                         THEN [entries[e] EXCEPT !.state = "dismissed"] ELSE entries[e]]
        /\ UNCHANGED <<open, spent, consumed>>
    BY <1>13, Zenon DEF Purge
  <2>3. QED
    BY <1>1, <2>1, <2>2
<1>14. CASE Restart
  <2>1. /\ open' = [j \in Job |-> IF open[j] = "SENDING" THEN "UNKNOWN" ELSE open[j]]
        /\ UNCHANGED <<entries, spent, consumed>>
    BY <1>14 DEF Restart
  <2>2. QED
    BY <1>1, <2>1
<1>15. CASE Pump \/ NothingQueued \/ Send \/ Freeze \/ Equivalent \/ Prepare \/ Remember
  BY <1>2, <1>15
     DEF Pump, NothingQueued, Send, Freeze, Equivalent, Prepare, Remember, durable
<1>16. CASE MoveEpoch \/ Midnight \/ Halt
  BY <1>2, <1>16 DEF MoveEpoch, Midnight, Halt, durable
<1>17. ASSUME NEW role, NEW e, NEW g, Configure(role, e, g)
       PROVE  UNCHANGED <<entries, open, spent, consumed>>
  BY <1>17 DEF Configure, durable
<1>18. ASSUME NEW m, Run(m) \/ Cancel(m) \/ Retry(m) \/ MoveSource(m) \/ MoveGrant(m)
       PROVE  UNCHANGED <<entries, open, spent, consumed>>
  BY <1>18 DEF Run, Cancel, Retry, MoveSource, MoveGrant, durable
<1>19. CASE UNCHANGED vars
  BY <1>2, <1>19 DEF vars, durable
<1>20. QED
  BY <1>1, <1>2, <1>3, <1>4, <1>5, <1>6, <1>7, <1>8, <1>10, <1>11, <1>12, <1>13,
     <1>14, <1>15, <1>16, <1>17, <1>18, <1>19
     DEF Next, PumpStep, AnswerStep, UserStep, WorldStep

LEMMA TypesStep ==
  ASSUME StewardAssumption, TypeOK, AllSound, Held, [Next]_vars
  PROVE  TypeOK'
BY RowsStep, WorldTypes, HistoryTypes, PumpTypes, LedgerTypes DEF TypeOK, JobRow

(***************************************************************************)
(* What is known of the job the pump holds.                                *)
(***************************************************************************)
LEMMA RestHeld ==
  ASSUME Rest, None \notin Job
  PROVE  Held'
BY DEF Rest, Held

(* Steps of the user and of the world come at rest or during a call.       *)
LEMMA FreeHeld ==
  ASSUME StewardAssumption, TypeOK, Held, Free, \A k \in Job : Moves(k),
         UNCHANGED <<running, place, using, up, calls>>
  PROVE  Held'
<1>1. /\ place \in {"rest", "sent"} /\ up
      /\ running \in Job \cup {None}
  BY Tables DEF Free
<1>2. running # None =>
        /\ jobs'[running].state # "NONE" /\ jobs'[running].digest # 0
        /\ using.mark # 0 /\ using.text = jobs'[running].digest
  BY <1>1 DEF Held, Moves
<1>3. QED
  BY <1>1, <1>2 DEF Held

LEMMA ExecuteHeld ==
  ASSUME StewardAssumption, TypeOK, AllSound, Held, NEW j \in Job, Execute(j)
  PROVE  Held'
<1>1. /\ up /\ UNCHANGED <<world, up, history>> /\ jobs[j].state = "QUEUED"
      /\ j # None
  BY ExecuteIs, NoneIsNoJob
<1>2. CASE Rest
  BY <1>2, RestHeld, NoneIsNoJob
<1>3. CASE ~Rest
  <2> DEFINE b == jobs'[j]
  <2>1. /\ Current(j, jobs[j].config, jobs[j].inputs) = "ok"
        /\ running' = j /\ held' = jobs[j].config /\ using' = Working(j)
        /\ UNCHANGED aborted
        /\ \/ /\ place' = "reserved"
              /\ jobs' = [jobs EXCEPT ![j].state = "RUNNING", ![j].inputs = Working(j),
                                ![j].attempts = @ + 1]
           \/ /\ place' = "planned" /\ jobs[j].plan # NoInputs
              /\ jobs' = [jobs EXCEPT ![j].state = "RUNNING"]
    BY <1>3, ExecuteIs, FailRows
  <2>2. /\ Working(j) \in Inputs /\ Working(j).mark = mark
        /\ Working(j).text = jobs[j].digest /\ jobs[j].digest # 0 /\ mark # 0
    BY <2>1, WorkingIs, Tables
  <2>3. jobs[j] \in JobRow /\ jobs \in [Job -> JobRow]
    BY Tables
  <2>4. CASE place' = "reserved"
    <3> DEFINE c == [jobs[j] EXCEPT !.state = "RUNNING", !.inputs = Working(j),
                                    !.attempts = @ + 1]
    <3>1. /\ c.state = "RUNNING" /\ c.attempts = jobs[j].attempts + 1
          /\ c.digest = jobs[j].digest
      BY <2>2, <2>3, ChargedRow
    <3>0. b = c
      BY <2>1, <2>3, <2>4
    <3> HIDE DEF c
    <3>2. /\ b.state = "RUNNING" /\ b.attempts = jobs[j].attempts + 1
          /\ b.digest = jobs[j].digest
      BY <3>0, <3>1
    <3>3. calls[j] <= jobs[j].attempts /\ calls[j] \in Nat /\ jobs[j].attempts \in Nat
      BY <2>3, Tables DEF AllSound, Fits, Sound, JobRow
    <3>4. calls'[j] < b.attempts
      BY <1>1, <3>2, <3>3 DEF history
    <3>5. /\ ~aborted /\ config[RoleOf(j)].version = jobs[j].config /\ ~gone
          /\ config[RoleOf(j)].enabled /\ allowed[RoleOf(j)]
          /\ EntryOpen(j) /\ text[Subject(j)] # 0
          /\ text[Subject(j)] = jobs[j].digest
      BY <2>1, CurrentIs
    <3>6. UNCHANGED <<config, allowed, mark, text, gone, entries>>
      BY ExecuteIs DEF world
    <3>7. EntryOpen(j)'
      BY <3>2, <3>5, <3>6 DEF EntryOpen
    <3>8. (Current(running, held, using) = "ok")'
      <4>1. Authority(RoleOf(j))' = "ok"
        BY <3>5, <3>6 DEF Authority
      <4>2. SourceCode(j)' = "ok"
        BY <3>2, <3>5, <3>6, <3>7 DEF SourceCode
      <4>3. Current(j, held, using)' = "ok"
        BY <2>1, <2>2, <3>2, <3>5, <3>6, <4>1, <4>2 DEF Current
      <4>4. QED
        BY <2>1, <4>3
    <3> HIDE DEF b
    <3>9. jobs'[running'] = b
      BY <2>1 DEF b
    <3>10. QED
      BY <1>1, <2>1, <2>2, <2>4, <3>2, <3>4, <3>8, <3>9 DEF Held
  <2>5. CASE place' = "planned"
    <3>1. b = [jobs[j] EXCEPT !.state = "RUNNING"] /\ jobs[j].plan # NoInputs
      BY <2>1, <2>3, <2>5
    <3>2. /\ b.state = "RUNNING" /\ b.digest = jobs[j].digest /\ b.plan # NoInputs
      BY <2>3, <3>1 DEF JobRow
    <3> HIDE DEF b
    <3>3. jobs'[running'] = b
      BY <2>1 DEF b
    <3>4. QED
      BY <1>1, <2>1, <2>2, <2>5, <3>2, <3>3 DEF Held
  <2>6. QED
    BY <2>1, <2>4, <2>5
<1>4. QED
  BY <1>2, <1>3

LEMMA SlotHeld ==
  ASSUME StewardAssumption, TypeOK, AllSound, Held, SlotDone, place \in {"slots", "prepared"},
         place' = "slots", UNCHANGED <<running, using, up, calls>>
  PROVE  Held'
<1>1. running \in Job /\ up /\ jobs \in [Job -> JobRow]
  BY TheHeld, Tables
<1>2. jobs'[running] = [jobs[running] EXCEPT !.done = @ + 1] /\ jobs[running] \in JobRow
  BY <1>1 DEF SlotDone
<1>3. /\ jobs'[running].state = jobs[running].state
      /\ jobs'[running].plan = jobs[running].plan
      /\ jobs'[running].digest = jobs[running].digest
  BY <1>2 DEF JobRow
<1>4. QED
  BY <1>1, <1>3 DEF Held

LEMMA HeldStep ==
  ASSUME StewardAssumption, TypeOK, AllSound, Held, [Next]_vars
  PROVE  Held'
<1>0. None \notin Job
  BY NoneIsNoJob
<1>1. CASE Rest
  BY <1>0, <1>1, RestHeld
<1>2. CASE Pump \/ NothingQueued
  BY <1>2 DEF Pump, NothingQueued, Goto, Held
<1>3. ASSUME NEW j \in Job, Execute(j)
      PROVE  Held'
  BY <1>3, ExecuteHeld
<1>4. CASE Send
  <2>1. /\ running \in Job /\ up /\ place = "reserved" /\ place' = "sent"
        /\ UNCHANGED <<jobs, up, running, using>> /\ running # None
        /\ calls' = [calls EXCEPT ![running] = @ + 1]
    BY <1>0, <1>4, TheHeld DEF Send, durable, Goto
  <2>2. calls'[running] > 0
    BY <2>1, Tables
  <2>3. QED
    BY <2>1, <2>2 DEF Held
<1>5. ASSUME NEW result, Answer(result)
      PROVE  Held'
  BY <1>5 DEF Answer, history, Held
<1>6. CASE Judge
  <2>1. CASE \E c \in Blocked : Fail(running, c)
    BY <1>1, <1>6, <2>1, JudgeIs, FailRows
  <2>2. ASSUME NEW c, NEW f, Goto("planned"),
               jobs' = [jobs EXCEPT ![running].plan = using, ![running].finds = f,
                          ![running].state = "RUNNING", ![running].config = c]
        PROVE  Held'
    <3>1. /\ running \in Job /\ running # None /\ up /\ place = "answered"
          /\ UNCHANGED <<up, calls>> /\ place' = "planned"
          /\ UNCHANGED <<running, using>>
      BY <1>0, <1>6, <2>2, JudgeIs DEF history, Goto
    <3>2. /\ jobs'[running] = [jobs[running] EXCEPT !.plan = using, !.finds = f,
                                !.state = "RUNNING", !.config = c]
          /\ jobs[running] \in JobRow /\ using \in Inputs
      BY <2>2, <3>1, Tables
    <3>3. /\ jobs'[running].state = "RUNNING" /\ jobs'[running].plan = using
          /\ jobs'[running].digest = jobs[running].digest
      BY <3>2 DEF JobRow
    <3>4. using.mark # 0 /\ using # NoInputs
      BY <3>1, NoInputsFacts DEF Held
    <3>5. QED
      BY <3>1, <3>3, <3>4 DEF Held
  <2>3. QED
    BY <1>1, <1>6, <2>1, <2>2, JudgeIs
<1>7. CASE Discover \/ Finish \/ Halt
  BY <1>1, <1>7 DEF Discover, Finish, Halt
<1>8. CASE SlotFails \/ AnswerLost
  <2>1. running \in Job /\ \E c \in Blocked : Fail(running, c)
    BY <1>8, TheHeld DEF SlotFails, AnswerLost
  <2>2. QED
    BY <1>1, <2>1, FailRows
<1>9. CASE Freeze
  BY <1>9 DEF Freeze, Goto, durable, history, Held
<1>10. CASE Prepare
  <2>1. /\ running \in Job /\ Current(running, held, using) = "ok" /\ NextSlot
        /\ place = "slots" /\ place' = "prepared"
        /\ UNCHANGED <<jobs, entries, world, up, calls, running, held, using, aborted>>
    BY <1>10, TheHeld DEF Prepare, Goto, durable, history
  <2>2. (Current(running, held, using) = "ok")' /\ NextSlot'
    BY <2>1 DEF Current, Authority, SourceCode, EntryOpen, NextSlot, world
  <2>3. QED
    BY <2>1, <2>2 DEF Held
<1>11. CASE Equivalent
  BY <1>11, SlotHeld DEF Equivalent, volatile
<1>12. CASE Remember
  BY <1>12, SlotHeld DEF Remember, Goto
<1>13. CASE /\ Free /\ UNCHANGED <<running, place, using, up, calls>>
            /\ \A k \in Job : ~Execute(k)
            /\ ~Discover /\ ~Finish /\ ~Equivalent /\ ~Remember
  <2>1. \A k \in Job : Moves(k)
    BY <1>13, MovesStep
  <2>2. QED
    BY <1>13, <2>1, FreeHeld
<1>14. ASSUME Free, UNCHANGED <<running, place, using, up, calls>>
       PROVE  Held'
  <2>1. \A k \in Job : ~Execute(k)
    BY <1>14 DEF Free, Execute
  <2>2. ~Discover /\ ~Finish /\ ~Equivalent /\ ~Remember
    BY <1>14 DEF Free, Discover, Finish, Equivalent, Remember
  <2>3. QED
    BY <1>13, <1>14, <2>1, <2>2
<1>15. ASSUME NEW role, NEW e, NEW g, Configure(role, e, g)
       PROVE  Held'
  BY <1>14, <1>15 DEF Configure, history
<1>16. ASSUME NEW m, Run(m) \/ Cancel(m) \/ Retry(m) \/ Dismiss(m) \/ Keep(m)
       PROVE  Held'
  BY <1>14, <1>16 DEF Run, Cancel, Retry, Dismiss, Keep, history, volatile
<1>17. ASSUME NEW m, Correct(m) \/ MoveSource(m) \/ MoveGrant(m)
       PROVE  Held'
  BY <1>14, <1>17 DEF Correct, MoveSource, MoveGrant, history, volatile
<1>18. CASE MoveEpoch \/ Midnight
  BY <1>14, <1>18 DEF MoveEpoch, Midnight, history, volatile
<1>19. CASE Purge
  <2>1. Free /\ UNCHANGED <<running, place, using, up, calls>>
    BY <1>19, Zenon DEF Purge, history
  <2>2. QED
    BY <1>14, <2>1
<1>20. CASE Restart
  <2>1. place = "rest" /\ UNCHANGED <<running, place>> /\ up'
    BY <1>20 DEF Restart, volatile, Held
  <2>2. QED
    BY <2>1 DEF Held
<1>21. CASE UNCHANGED vars
  <2>1. UNCHANGED <<jobs, entries, config, allowed, mark, text, gone, up, running,
                    place, held, using, aborted, calls>>
    BY <1>21 DEF vars, durable, world, volatile, history
  <2>2. Current(running, held, using)' = Current(running, held, using)
    BY <2>1 DEF Current, Authority, SourceCode, EntryOpen
  <2>3. QED
    BY <2>1, <2>2 DEF Held, NextSlot
<1>22. QED
  BY <1>2, <1>3, <1>4, <1>5, <1>6, <1>7, <1>8, <1>9, <1>10, <1>11, <1>12,
     <1>15, <1>16, <1>17, <1>18, <1>19, <1>20, <1>21
     DEF Next, PumpStep, AnswerStep, UserStep, WorldStep

(***************************************************************************)
(* What was consumed, and the budget.                                      *)
(***************************************************************************)
(* An execution leaves what is over, and completes nothing.                *)
LEMMA ExecuteMoves ==
  ASSUME StewardAssumption, TypeOK, AllSound, NEW j \in Job, Execute(j)
  PROVE  /\ \A k \in Job \ {j} : Moves(k)
         /\ jobs'[j].done = jobs[j].done /\ jobs'[j].state \notin {"COMPLETED", "NONE"}
         /\ jobs[j].state = "QUEUED"
         /\ \/ Moves(j)
            \/ /\ Current(j, jobs[j].config, jobs[j].inputs) = "ok"
               /\ jobs'[j].attempts = jobs[j].attempts + 1
<1>1. jobs[j].state = "QUEUED" /\ jobs[j] \in JobRow /\ jobs \in [Job -> JobRow]
  BY ExecuteIs, Tables
<1>2. ASSUME NEW s \in Blocked \cup {"PARTIAL", "REMOTE_UNKNOWN", "BUDGET_PAUSED", "RUNNING"},
             jobs' = [jobs EXCEPT ![j].state = s]
      PROVE  /\ \A k \in Job : Moves(k)
             /\ jobs'[j].done = jobs[j].done
             /\ jobs'[j].state \notin {"COMPLETED", "NONE"}
  <2>1. jobs[j].state \notin Over /\ s \notin {"COMPLETED", "NONE"}
    BY <1>1 DEF Over
  <2>2. jobs'[j] = [jobs[j] EXCEPT !.state = s]
    BY <1>1, <1>2
  <2>3. jobs'[j].state = s /\ jobs'[j].done = jobs[j].done
    BY <1>1, <2>2 DEF JobRow
  <2>4. QED
    BY <1>2, <2>1, <2>3, StopMoves
<1>3. CASE \E c \in Blocked : Fail(j, c)
  <2>1. CASE UNCHANGED jobs
    BY <1>1, <2>1, SameMoves
  <2>2. QED
    BY <1>1, <1>2, <1>3, <2>1, FailRows
<1>4. CASE /\ Current(j, jobs[j].config, jobs[j].inputs) = "ok"
           /\ jobs' = [jobs EXCEPT ![j].state = "RUNNING", ![j].inputs = Working(j),
                            ![j].attempts = @ + 1]
  <2> DEFINE c == [jobs[j] EXCEPT !.state = "RUNNING", !.inputs = Working(j),
                                  !.attempts = @ + 1]
  <2>1. Working(j) \in Inputs
    BY <1>4, WorkingIs
  <2>2. /\ c.state = "RUNNING" /\ c.attempts = jobs[j].attempts + 1
        /\ c.done = jobs[j].done
    BY <1>1, <2>1, ChargedRow
  <2>3. jobs'[j] = c /\ \A k \in Job \ {j} : jobs'[k] = jobs[k]
    BY <1>1, <1>4
  <2> HIDE DEF c
  <2>4. \A k \in Job \ {j} : Moves(k)
    BY <2>3 DEF Moves
  <2>5. QED
    BY <1>1, <1>4, <2>2, <2>3, <2>4
<1>5. QED
  BY <1>1, <1>2, <1>3, <1>4, ExecuteIs

(* A slot is one more, and nothing else.                                   *)
LEMMA SlotMoves ==
  ASSUME StewardAssumption, TypeOK, Held, Equivalent \/ Remember
  PROVE  /\ running \in Job /\ RoleOf(running) = "keep" /\ NextSlot
         /\ place \in {"slots", "prepared"}
         /\ \A k \in Job \ {running} : jobs'[k] = jobs[k] /\ made'[k] = made[k]
         /\ jobs'[running].state = jobs[running].state
         /\ jobs'[running].attempts = jobs[running].attempts
         /\ jobs'[running].done = jobs[running].done + 1
         /\ Current(running, held, using) = "ok"
         /\ UNCHANGED <<entries, consumed, calls>>
<1>1. /\ place \in {"slots", "prepared"} /\ SlotDone
      /\ UNCHANGED <<entries, consumed, calls>>
  BY DEF Equivalent, Remember
<1>2. running \in Job
  BY <1>1, TheHeld
<1>3. /\ RoleOf(running) = "keep" /\ NextSlot
      /\ Current(running, held, using) = "ok"
  BY DEF Held, Equivalent, Remember
<1>4. /\ jobs'[running] = [jobs[running] EXCEPT !.done = @ + 1]
      /\ \A k \in Job \ {running} : jobs'[k] = jobs[k] /\ made'[k] = made[k]
      /\ jobs[running] \in JobRow
  BY <1>1, <1>2, Tables DEF SlotDone
<1>5. /\ jobs'[running].state = jobs[running].state
      /\ jobs'[running].attempts = jobs[running].attempts
      /\ jobs'[running].done = jobs[running].done + 1
  BY <1>4 DEF JobRow
<1>6. QED
  BY <1>1, <1>2, <1>3, <1>4, <1>5

LEMMA FinishIs ==
  ASSUME StewardAssumption, TypeOK, Held, Finish
  PROVE  /\ running \in Job /\ RoleOf(running) = "keep" /\ Subject(running) \in Entry
         /\ place = "slots" /\ Current(running, held, using) = "ok"
         /\ jobs[running].done = Slots
         /\ entries[Subject(running)].state = "pending"
         /\ entries' = [entries EXCEPT ![Subject(running)].state = "completed"]
         /\ consumed' = consumed \cup {running}
         /\ jobs' = [jobs EXCEPT ![running].state = "COMPLETED"]
         /\ UNCHANGED history
<1>1. running \in Job /\ place = "slots" /\ Current(running, held, using) = "ok"
  BY TheHeld DEF Finish
<1>2. RoleOf(running) = "keep" /\ Subject(running) \in Entry
  BY <1>1, JobFacts DEF Held
<1>3. entries[Subject(running)].state = "pending"
  BY <1>1, <1>2, CurrentIs DEF EntryOpen
<1>4. jobs[running].done \in 0..Slots /\ Slots \in Nat
  BY <1>1, Tables DEF JobRow
<1>5. jobs[running].done = Slots
  BY <1>4 DEF Finish, NextSlot
<1>6. QED
  BY <1>1, <1>2, <1>3, <1>5 DEF Finish, Stop

(* What the rows of jobs keep, whatever the step.                          *)
Keeps(k) ==
  /\ jobs'[k].done = jobs[k].done \/ jobs[k].done < Slots
  /\ jobs'[k].state = "COMPLETED" => jobs[k].state = "COMPLETED" \/ k \in consumed'
  /\ RoleOf(k) = "find" /\ jobs[k].state \in Over => jobs'[k].state \in Over

LEMMA KeepsStep ==
  ASSUME StewardAssumption, TypeOK, AllSound, Held, [Next]_vars
  PROVE  \A k \in Job : Keeps(k)
<1>1. ASSUME NEW j \in Job, Execute(j)
      PROVE  \A k \in Job : Keeps(k)
  <2>1. jobs[j].state \notin Over
    BY <1>1, ExecuteMoves DEF Over
  <2>2. QED
    BY <1>1, <2>1, ExecuteMoves DEF Moves, Keeps
<1>2. CASE Discover \/ Finish
  <2>1. /\ running \in Job /\ jobs' = [jobs EXCEPT ![running].state = "COMPLETED"]
        /\ consumed' = consumed \cup {running}
    BY <1>2, DiscoverIs, FinishIs
  <2>2. /\ jobs'[running] = [jobs[running] EXCEPT !.state = "COMPLETED"]
        /\ jobs[running] \in JobRow
        /\ \A k \in Job \ {running} : jobs'[k] = jobs[k]
    BY <2>1, Tables
  <2>3. /\ jobs'[running].state = "COMPLETED" /\ jobs'[running].done = jobs[running].done
    BY <2>2 DEF JobRow
  <2>4. QED
    BY <2>1, <2>2, <2>3 DEF Keeps, Over
<1>3. CASE Equivalent \/ Remember
  BY <1>3, SlotMoves DEF Keeps, NextSlot
<1>4. CASE /\ \A j \in Job : ~Execute(j)
           /\ ~Discover /\ ~Finish /\ ~Equivalent /\ ~Remember
  BY <1>4, MovesStep DEF Moves, Keeps
<1>5. QED
  BY <1>1, <1>2, <1>3, <1>4

(* Every step but a finding and an end keeps an entry, dismisses or        *)
(* replaces it, or adds a memory.                                          *)
Turns(e) ==
  \/ entries'[e] = entries[e]
  \/ /\ entries[e].state # "none"
     /\ entries'[e].state \in {"dismissed", "replaced"}
  \/ e \in Memory /\ entries[e].state = "none" /\ entries'[e].state = "pending"

LEMMA TurnsStep ==
  ASSUME StewardAssumption, TypeOK, [Next]_vars, ~Discover, ~Finish
  PROVE  (\A e \in Entry : Turns(e)) /\ UNCHANGED consumed
<1>1. entries \in [Entry -> [state : EntryStates, digest : Nat]]
  BY Tables
<1>2. CASE UNCHANGED <<entries, consumed>>
  BY <1>2 DEF Turns
<1>3. ASSUME NEW e \in Entry, NEW s \in {"dismissed", "replaced"},
             entries' = [entries EXCEPT ![e].state = s], entries[e].state # "none"
      PROVE  \A x \in Entry : Turns(x)
  <2>1. /\ entries'[e] = [entries[e] EXCEPT !.state = s]
        /\ entries[e] \in [state : EntryStates, digest : Nat]
        /\ \A x \in Entry \ {e} : entries'[x] = entries[x]
    BY <1>1, <1>3
  <2>2. entries'[e].state = s
    BY <2>1
  <2>3. QED
    BY <1>3, <2>1, <2>2 DEF Turns
<1>4. ASSUME NEW e \in Entry, Dismiss(e)
      PROVE  (\A x \in Entry : Turns(x)) /\ UNCHANGED consumed
  BY <1>3, <1>4 DEF Dismiss
<1>5. ASSUME NEW m \in Memory, Correct(m)
      PROVE  (\A x \in Entry : Turns(x)) /\ UNCHANGED consumed
  BY <1>3, <1>5 DEF Correct, Entry
<1>6. ASSUME NEW m \in Memory, Keep(m)
      PROVE  (\A x \in Entry : Turns(x)) /\ UNCHANGED consumed
  BY <1>1, <1>6 DEF Keep, Turns, Entry
<1>7. CASE Purge
  <2>1. /\ entries' = [e \in Entry |->
                         IF e \in Round /\ entries[e].state # "none"
                         THEN [entries[e] EXCEPT !.state = "dismissed"] ELSE entries[e]]
        /\ UNCHANGED consumed
    BY <1>7, Zenon DEF Purge
  <2>2. ASSUME NEW e \in Entry
        PROVE  Turns(e)
    <3>1. entries[e] \in [state : EntryStates, digest : Nat]
      BY <1>1
    <3>2. [entries[e] EXCEPT !.state = "dismissed"].state = "dismissed"
      BY <3>1
    <3>3. QED
      BY <2>1, <3>2 DEF Turns
  <2>3. QED
    BY <2>1, <2>2
<1>8. ASSUME NEW j \in Job, Execute(j)
      PROVE  UNCHANGED <<entries, consumed>>
  BY <1>8, ExecuteIs
<1>9. CASE Pump \/ NothingQueued \/ Send \/ Judge \/ Freeze \/ Equivalent \/ Prepare
  BY <1>2, <1>9
     DEF Pump, NothingQueued, Send, Judge, Freeze, Equivalent, Prepare, durable
<1>10. CASE Remember \/ SlotFails \/ AnswerLost
  BY <1>2, <1>10 DEF Remember, SlotFails, AnswerLost
<1>11. CASE MoveEpoch \/ Midnight \/ Halt \/ Restart
  BY <1>2, <1>11 DEF MoveEpoch, Midnight, Halt, Restart, durable
<1>12. ASSUME NEW role, NEW e, NEW g, Configure(role, e, g)
       PROVE  UNCHANGED <<entries, consumed>>
  BY <1>12 DEF Configure, durable
<1>13. ASSUME NEW m, \/ Run(m) \/ Cancel(m) \/ Retry(m) \/ Answer(m)
                     \/ MoveSource(m) \/ MoveGrant(m)
       PROVE  UNCHANGED <<entries, consumed>>
  BY <1>13 DEF Run, Cancel, Retry, Answer, MoveSource, MoveGrant, durable
<1>14. CASE UNCHANGED vars
  BY <1>2, <1>14 DEF vars, durable
<1>15. QED
  BY <1>2, <1>4, <1>5, <1>6, <1>7, <1>8, <1>9, <1>10, <1>11, <1>12, <1>13, <1>14
     DEF Next, PumpStep, AnswerStep, UserStep, WorldStep

(* What an entry may become, whatever the step.                            *)
LEMMA EntriesStep ==
  ASSUME StewardAssumption, TypeOK, Held, [Next]_vars, NEW e \in Entry
  PROVE  \/ Turns(e)
         \/ /\ Discover /\ e = Subject(running) /\ entries[e].state = "none"
            /\ entries'[e].state = "pending"
         \/ /\ Finish /\ e = Subject(running) /\ entries[e].state = "pending"
            /\ entries'[e].state = "completed"
<1>1. entries \in [Entry -> [state : EntryStates, digest : Nat]]
  BY Tables
<1>2. CASE Discover
  <2>1. CASE UNCHANGED entries
    BY <2>1 DEF Turns
  <2>2. CASE /\ entries[Subject(running)].state = "none"
             /\ entries' = [entries EXCEPT ![Subject(running)] =
                              [state |-> "pending", digest |-> using.text]]
    <3>1. CASE e = Subject(running)
      BY <1>1, <1>2, <2>2, <3>1
    <3>2. CASE e # Subject(running)
      BY <1>1, <2>2, <3>2 DEF Turns
    <3>3. QED
      BY <3>1, <3>2
  <2>3. QED
    BY <1>2, <2>1, <2>2, DiscoverIs
<1>3. CASE Finish
  <2>1. /\ entries[Subject(running)].state = "pending" /\ Subject(running) \in Entry
        /\ entries' = [entries EXCEPT ![Subject(running)].state = "completed"]
    BY <1>3, FinishIs
  <2>2. CASE e = Subject(running)
    <3>1. entries'[e] = [entries[e] EXCEPT !.state = "completed"]
      BY <1>1, <2>1, <2>2
    <3>2. entries'[e].state = "completed"
      BY <1>1, <3>1
    <3>3. QED
      BY <1>3, <2>1, <2>2, <3>2
  <2>3. CASE e # Subject(running)
    BY <1>1, <2>1, <2>3 DEF Turns
  <2>4. QED
    BY <2>2, <2>3
<1>4. QED
  BY <1>2, <1>3, TurnsStep

LEMMA ConsumedStep ==
  ASSUME StewardAssumption, TypeOK, Held, [Next]_vars
  PROVE  \/ UNCHANGED consumed
         \/ (Discover \/ Finish) /\ running \in Job /\ consumed' = consumed \cup {running}
BY TurnsStep, DiscoverIs, FinishIs

LEMMA TakenStep ==
  ASSUME StewardAssumption, TypeOK, AllSound, Held, Taken, [Next]_vars
  PROVE  Taken'
<1>1. \A k \in Job : Keeps(k)
  BY KeepsStep
<1>2. ASSUME NEW k \in consumed', RoleOf(k) = "find"
      PROVE  jobs'[k].state \in {"COMPLETED", "CANCELLED"}
  <2>1. CASE k \in consumed
    BY <1>1, <1>2, <2>1, Tables DEF Taken, Keeps, Over
  <2>2. CASE k \notin consumed
    <3>1. k = running /\ running \in Job /\ (Discover \/ Finish)
      BY <1>2, <2>2, ConsumedStep
    <3>2. jobs' = [jobs EXCEPT ![running].state = "COMPLETED"] /\ jobs \in [Job -> JobRow]
      BY <3>1, DiscoverIs, FinishIs, Tables
    <3>3. jobs'[k] = [jobs[k] EXCEPT !.state = "COMPLETED"] /\ jobs[k] \in JobRow
      BY <3>1, <3>2
    <3>4. QED
      BY <3>3 DEF JobRow
  <2>3. QED
    BY <2>1, <2>2
<1>3. QED
  BY <1>2 DEF Taken

LEMMA WholeStep ==
  ASSUME StewardAssumption, TypeOK, AllSound, Held, ConsumedIsWhole, [Next]_vars
  PROVE  ConsumedIsWhole'
<1> DEFINE Out == {"completed", "dismissed", "replaced"}
<1>1. /\ \A k \in Job : Keeps(k)
      /\ consumed \subseteq consumed' /\ consumed \subseteq Job
      /\ entries \in [Entry -> [state : EntryStates, digest : Nat]]
      /\ \A k \in Job : jobs[k].done \in 0..Slots
      /\ Slots \in Nat \ {0}
  BY KeepsStep, ConsumedStep, Tables DEF JobRow
<1> SUFFICES ASSUME NEW j \in Job
             PROVE  /\ jobs'[j].state = "COMPLETED" => j \in consumed'
                    /\ (j \in consumed' /\ RoleOf(j) = "keep") =>
                         /\ jobs'[j].done = Slots
                         /\ entries'[Subject(j)].state \in Out
                    /\ (RoleOf(j) = "keep" /\ entries'[Subject(j)].state = "completed") =>
                         j \in consumed'
                    /\ (RoleOf(j) = "keep" /\ Subject(j) \in Round
                         /\ entries'[Subject(j)].state # "none") =>
                         <<"find", Subject(j)>> \in consumed'
  BY DEF ConsumedIsWhole
<1> DEFINE e == Subject(j)
<1>2. /\ e \in Entry /\ j = <<RoleOf(j), e>> /\ Round \cap Memory = {}
  BY JobFacts DEF StewardAssumption
<1>3. jobs'[j].state = "COMPLETED" => j \in consumed'
  BY <1>1 DEF Keeps, ConsumedIsWhole
<1>4. ASSUME j \in consumed', RoleOf(j) = "keep"
      PROVE  jobs'[j].done = Slots /\ entries'[e].state \in Out
  <2>1. CASE j \in consumed
    <3>1. jobs[j].done = Slots /\ entries[e].state \in Out
      BY <1>4, <2>1 DEF ConsumedIsWhole
    <3>2. jobs'[j].done = Slots
      BY <1>1, <3>1 DEF Keeps
    <3>3. entries'[e].state \in Out
      BY <1>2, <3>1, EntriesStep DEF Turns
    <3>4. QED
      BY <3>2, <3>3
  <2>2. CASE j \notin consumed
    <3>1. Finish /\ j = running
      BY <1>4, <2>2, ConsumedStep, DiscoverIs
    <3>2. /\ jobs[j].done = Slots /\ entries[e].state = "pending"
          /\ entries' = [entries EXCEPT ![e].state = "completed"]
          /\ jobs' = [jobs EXCEPT ![j].state = "COMPLETED"] /\ jobs \in [Job -> JobRow]
      BY <3>1, FinishIs, Tables
    <3>3. /\ jobs'[j] = [jobs[j] EXCEPT !.state = "COMPLETED"] /\ jobs[j] \in JobRow
          /\ entries'[e] = [entries[e] EXCEPT !.state = "completed"]
          /\ entries[e] \in [state : EntryStates, digest : Nat]
      BY <1>1, <1>2, <3>2
    <3>4. jobs'[j].done = Slots /\ entries'[e].state = "completed"
      BY <3>2, <3>3 DEF JobRow
    <3>5. QED
      BY <3>4
  <2>3. QED
    BY <2>1, <2>2
<1>5. ASSUME RoleOf(j) = "keep", entries'[e].state = "completed"
      PROVE  j \in consumed'
  <2>1. CASE entries[e].state = "completed"
    BY <1>1, <1>5, <2>1 DEF ConsumedIsWhole
  <2>2. CASE entries[e].state # "completed"
    <3>1. Finish /\ e = Subject(running)
      BY <1>2, <1>5, <2>2, EntriesStep DEF Turns
    <3>2. running \in Job /\ RoleOf(running) = "keep" /\ consumed' = consumed \cup {running}
      BY <3>1, FinishIs
    <3>3. running = <<"keep", Subject(running)>>
      BY <3>2, JobFacts
    <3>4. j = running
      BY <1>2, <1>5, <3>1, <3>3
    <3>5. QED
      BY <3>2, <3>4
  <2>3. QED
    BY <2>1, <2>2
<1>6. ASSUME RoleOf(j) = "keep", e \in Round, entries'[e].state # "none"
      PROVE  <<"find", e>> \in consumed'
  <2>1. CASE entries[e].state # "none"
    BY <1>1, <1>6, <2>1 DEF ConsumedIsWhole
  <2>2. CASE entries[e].state = "none"
    <3>1. e \notin Memory
      BY <1>2, <1>6
    <3>2. Discover /\ e = Subject(running)
      BY <1>2, <1>6, <2>2, <3>1, EntriesStep DEF Turns
    <3>3. running \in Job /\ RoleOf(running) = "find" /\ consumed' = consumed \cup {running}
      BY <3>2, DiscoverIs
    <3>4. running = <<"find", e>>
      BY <3>2, <3>3, JobFacts
    <3>5. QED
      BY <3>3, <3>4
  <2>3. QED
    BY <2>1, <2>2
<1>7. QED
  BY <1>3, <1>4, <1>5, <1>6

LEMMA BudgetStep ==
  ASSUME StewardAssumption, TypeOK, AllSound, Held, BudgetHolds, [Next]_vars
  PROVE  BudgetHolds'
<1>1. spent \in [Role -> [0..MaxDay -> Nat]] /\ day \in 0..MaxDay /\ Budget \in Nat
  BY DEF TypeOK, StewardAssumption
<1>2. CASE UNCHANGED spent
  BY <1>2 DEF BudgetHolds
<1>3. ASSUME NEW j \in Job, Execute(j)
      PROVE  BudgetHolds'
  <2> DEFINE r == RoleOf(j)
  <2>1. CASE /\ Affordable(r) /\ spent' = [spent EXCEPT ![r][day] = @ + 1]
    <3>1. r \in Role /\ spent[r] \in [0..MaxDay -> Nat] /\ spent[r][day] < Budget
      BY <1>1, <2>1, JobFacts DEF Affordable
    <3>2. ASSUME NEW role \in Role, NEW d \in 0..MaxDay
          PROVE  spent'[role][d] <= Budget
      <4>1. spent[role][d] <= Budget /\ spent[role][d] \in Nat
        BY <1>1 DEF BudgetHolds
      <4>2. CASE role = r
        <5>1. spent'[role] = [spent[r] EXCEPT ![day] = @ + 1]
          BY <1>1, <2>1, <3>1, <4>2
        <5>2. CASE d = day
          <6>1. spent'[role][d] = spent[role][d] + 1
            BY <1>1, <3>1, <4>2, <5>1, <5>2, Counted
          <6>2. spent[role][d] < Budget
            BY <3>1, <4>2, <5>2
          <6>3. QED
            BY <1>1, <4>1, <6>1, <6>2
        <5>3. CASE d # day
          BY <1>1, <3>1, <4>1, <4>2, <5>1, <5>3, Counted
        <5>4. QED
          BY <5>2, <5>3
      <4>3. CASE role # r
        <5>1. spent'[role] = spent[role]
          BY <1>1, <2>1, <3>1, <4>3
        <5>2. QED
          BY <4>1, <5>1
      <4>4. QED
        BY <4>2, <4>3
    <3>3. QED
      BY <3>2 DEF BudgetHolds
  <2>2. QED
    BY <1>2, <1>3, <2>1, ExecuteIs
<1>4. CASE Pump \/ NothingQueued \/ Send \/ Judge \/ Discover \/ Freeze \/ Equivalent
  BY <1>2, <1>4
     DEF Pump, NothingQueued, Send, Judge, Discover, Freeze, Equivalent, durable
<1>5. CASE Prepare \/ Remember \/ SlotFails \/ Finish \/ AnswerLost
  BY <1>2, <1>5 DEF Prepare, Remember, SlotFails, Finish, AnswerLost, durable
<1>6. ASSUME NEW m, \/ Run(m) \/ Cancel(m) \/ Retry(m) \/ Answer(m) \/ Dismiss(m)
                    \/ Keep(m) \/ Correct(m) \/ MoveSource(m) \/ MoveGrant(m)
      PROVE  UNCHANGED spent
  BY <1>6
     DEF Run, Cancel, Retry, Answer, Dismiss, Keep, Correct, MoveSource, MoveGrant, durable
<1>7. ASSUME NEW role, NEW e, NEW g, Configure(role, e, g)
      PROVE  UNCHANGED spent
  BY <1>7 DEF Configure, durable
<1>8. CASE MoveEpoch \/ Purge \/ Midnight \/ Halt \/ Restart
  BY <1>2, <1>8 DEF MoveEpoch, Purge, Midnight, Halt, Restart, durable
<1>9. CASE UNCHANGED vars
  BY <1>2, <1>9 DEF vars, durable
<1>10. QED
  BY <1>2, <1>3, <1>4, <1>5, <1>6, <1>7, <1>8, <1>9
     DEF Next, PumpStep, AnswerStep, UserStep, WorldStep

(***************************************************************************)
(* The invariant holds.                                                    *)
(***************************************************************************)
LEMMA StewardInit ==
  ASSUME StewardAssumption, Init
  PROVE  StewardInv
<1>1. /\ jobs = [j \in Job |-> NoJob] /\ NoJob \in JobRow
      /\ entries = [e \in Entry |-> [state |-> "none", digest |-> 0]]
      /\ calls = [j \in Job |-> 0] /\ made = [j \in Job |-> 0]
      /\ retries = [j \in Job |-> 0] /\ consumed = {}
      /\ running = None /\ place = "rest" /\ up
  BY NoJobFacts DEF Init
<1>2. TypeOK
  <2>1. jobs \in [Job -> [state : States, config : Nat, digest : Nat,
                         inputs : Inputs, plan : Inputs, finds : BOOLEAN,
                         attempts : Nat, done : 0..Slots]]
    BY <1>1 DEF JobRow
  <2>2. entries \in [Entry -> [state : EntryStates, digest : Nat]]
    BY <1>1
  <2>3. MaxDay \in Nat
    BY DEF StewardAssumption
  <2>4. spent \in [Role -> [0..MaxDay -> Nat]]
    <3>1. [d \in 0..MaxDay |-> 0] \in [0..MaxDay -> Nat]
      OBVIOUS
    <3>2. spent = [role \in Role |-> [d \in 0..MaxDay |-> 0]]
      BY DEF Init
    <3>3. QED
      BY <3>1, <3>2
  <2>5. day \in 0..MaxDay
    BY <2>3 DEF Init
  <2>6. config \in [Role -> [version : Nat, enabled : BOOLEAN]]
    <3>1. [version |-> 0, enabled |-> FALSE]
            \in [version : Nat, enabled : BOOLEAN]
      OBVIOUS
    <3>2. config = [role \in Role |-> [version |-> 0, enabled |-> FALSE]]
      BY DEF Init
    <3>3. QED
      BY <3>1, <3>2
  <2>7. allowed \in [Role -> BOOLEAN]
    BY DEF Init
  <2>8. text \in [Entry -> Nat]
    BY DEF Init
  <2>9. mark \in Nat \ {0} /\ gone \in BOOLEAN /\ up \in BOOLEAN
    <3>1. mark = 1 /\ gone = FALSE /\ up = TRUE
      BY DEF Init
    <3>2. 1 \in Nat \ {0}
      OBVIOUS
    <3>3. QED
      BY <3>1, <3>2, Zenon
  <2>10. /\ held \in Nat /\ using \in Inputs /\ aborted \in BOOLEAN
        /\ answer \in Results \cup {"none"}
        /\ open \in [Job -> {"none", "SENDING", "SETTLED", "UNKNOWN"}]
        /\ moves \in Nat /\ stops \in Nat /\ faults \in Nat
    BY NoInputsFacts DEF Init
  <2>11. calls \in [Job -> Nat] /\ made \in [Job -> Nat] /\ retries \in [Job -> Nat]
    BY <1>1
  <2>12. QED
    BY <1>1, <2>1, <2>2, <2>4, <2>5, <2>6, <2>7, <2>8, <2>9, <2>10, <2>11 DEF TypeOK
<1>3. AllSound
  <2>1. ASSUME NEW k \in Job
        PROVE  Sound(jobs[k], RoleOf(k), calls[k], made[k], retries[k])
    <3>1. jobs[k] = NoJob /\ calls[k] = 0 /\ made[k] = 0 /\ retries[k] = 0
      BY <1>1
    <3>2. QED
      BY <3>1, NoJobFacts DEF Sound
  <2>2. QED
    BY <2>1 DEF AllSound, Fits
<1>4. Held /\ Taken
  BY <1>1 DEF Held, Taken
<1>5. ConsumedIsWhole
  <2>1. ASSUME NEW k \in Job
        PROVE  /\ jobs[k].state = "NONE" /\ entries[Subject(k)].state = "none"
    BY <1>1, JobFacts, NoJobFacts
  <2>2. QED
    BY <1>1, <2>1 DEF ConsumedIsWhole
<1>6. BudgetHolds
  BY DEF Init, BudgetHolds, StewardAssumption
<1>7. QED
  BY <1>2, <1>3, <1>4, <1>5, <1>6 DEF StewardInv

LEMMA StewardStep ==
  ASSUME StewardAssumption, StewardInv, [Next]_vars
  PROVE  StewardInv'
<1>1. TypeOK /\ AllSound /\ Held /\ Taken /\ ConsumedIsWhole /\ BudgetHolds
  BY DEF StewardInv
<1>2. TypeOK' /\ AllSound' /\ Held'
  BY <1>1, TypesStep, RowsStep, HeldStep
<1>3. Taken' /\ ConsumedIsWhole' /\ BudgetHolds'
  BY <1>1, TakenStep, WholeStep, BudgetStep
<1>4. QED
  BY <1>2, <1>3 DEF StewardInv

(* The invariant is inductive, so it holds in every state the steward      *)
(* comes to.                                                               *)
THEOREM StewardInductive ==
  ASSUME StewardAssumption
  PROVE  Spec => []StewardInv
<1>1. Init => StewardInv
  BY StewardInit
<1>2. StewardInv /\ [Next]_vars => StewardInv'
  BY StewardStep
<1>3. QED
  BY <1>1, <1>2, PTL DEF Spec

(* Every variable keeps its type.                                          *)
THEOREM StewardTypeCorrect ==
  ASSUME StewardAssumption
  PROVE  Spec => []TypeOK
<1>1. StewardInv => TypeOK
  BY DEF StewardInv
<1>2. QED
  BY <1>1, StewardInductive, PTL

(* Neither role spends more calls in a day than its own budget, whatever   *)
(* the user, retries, crashes and midnight do.                             *)
THEOREM StewardBudgetHolds ==
  ASSUME StewardAssumption
  PROVE  Spec => []BudgetHolds
<1>1. StewardInv => BudgetHolds
  BY DEF StewardInv
<1>2. QED
  BY <1>1, StewardInductive, PTL

(* A lost answer, a crash or a new start never makes a job call again: the *)
(* user has asked for each call beyond the first.                          *)
THEOREM StewardNotPaidTwice ==
  ASSUME StewardAssumption
  PROVE  Spec => []NoSecondCallUnasked
<1>1. StewardInv => NoSecondCallUnasked
  <2> SUFFICES ASSUME StewardInv, NEW j \in Job
               PROVE  calls[j] <= 1 + retries[j]
    BY DEF NoSecondCallUnasked
  <2>1. calls[j] <= jobs[j].attempts /\ jobs[j].attempts <= 1 + retries[j]
    BY DEF StewardInv, AllSound, Fits, Sound
  <2>2. calls[j] \in Nat /\ jobs[j].attempts \in Nat /\ retries[j] \in Nat
    BY Tables DEF StewardInv, JobRow
  <2>3. QED
    BY <2>1, <2>2
<1>2. QED
  BY <1>1, StewardInductive, PTL

(* However often a job is stopped, dismissed, deleted, crashed and         *)
(* resumed, memory and branches have got each slot of its plan once: as    *)
(* many as its receipts say.                                               *)
THEOREM SlotsAreMadeOnce ==
  ASSUME StewardAssumption
  PROVE  Spec => []SlotOnce
<1>1. StewardInv => SlotOnce
  BY DEF StewardInv, AllSound, Fits, Sound, SlotOnce
<1>2. QED
  BY <1>1, StewardInductive, PTL

(* What counts as consumed was carried out whole, and an entry is          *)
(* completed by its own job only.                                          *)
THEOREM ConsumedJobsAreWhole ==
  ASSUME StewardAssumption
  PROVE  Spec => []ConsumedIsWhole
<1>1. StewardInv => ConsumedIsWhole
  BY DEF StewardInv
<1>2. QED
  BY <1>1, StewardInductive, PTL

(***************************************************************************)
(* What a step never does.                                                 *)
(***************************************************************************)
(* Only the call of the job that is held is made, and only after a check   *)
(* that still holds; only the slots of that job are committed.             *)
LEMMA OthersRest ==
  ASSUME StewardAssumption, StewardInv, [Next]_vars
  PROVE  /\ \/ UNCHANGED calls
            \/ /\ Send /\ running \in Job /\ place = "reserved"
               /\ calls' = [calls EXCEPT ![running] = @ + 1]
               /\ Current(running, held, using) = "ok"
         /\ \/ UNCHANGED made
            \/ /\ Equivalent \/ Remember
               /\ running \in Job /\ Current(running, held, using) = "ok"
               /\ \A k \in Job \ {running} : made'[k] = made[k]
<1>1. TypeOK /\ Held
  BY DEF StewardInv
<1>2. CASE Send
  <2>1. place = "reserved" /\ calls' = [calls EXCEPT ![running] = @ + 1] /\ UNCHANGED made
    BY <1>2 DEF Send
  <2>2. running \in Job /\ Current(running, held, using) = "ok"
    BY <1>1, <2>1, TheHeld DEF Held
  <2>3. QED
    BY <1>2, <2>1, <2>2
<1>3. CASE Equivalent \/ Remember
  BY <1>1, <1>3, SlotMoves
<1>4. CASE UNCHANGED <<calls, made>>
  BY <1>4
<1>5. ASSUME NEW j, \/ Execute(j) \/ Run(j) \/ Cancel(j) \/ Retry(j) \/ Answer(j)
                    \/ Dismiss(j) \/ Keep(j) \/ Correct(j) \/ MoveSource(j)
                    \/ MoveGrant(j)
      PROVE  UNCHANGED <<calls, made>>
  BY <1>5 DEF Execute, Run, Cancel, Retry, Answer, Dismiss, Keep, Correct,
              MoveSource, MoveGrant, history
<1>6. ASSUME NEW role, NEW e, NEW g, Configure(role, e, g)
      PROVE  UNCHANGED <<calls, made>>
  BY <1>6 DEF Configure, history
<1>7. CASE Pump \/ NothingQueued \/ Judge \/ Discover \/ Freeze \/ Prepare \/ Finish
  BY <1>4, <1>7
     DEF Pump, NothingQueued, Judge, Discover, Freeze, Prepare, Finish, history
<1>8. CASE SlotFails \/ AnswerLost \/ MoveEpoch \/ Purge \/ Midnight \/ Halt \/ Restart
  BY <1>4, <1>8
     DEF SlotFails, AnswerLost, MoveEpoch, Purge, Midnight, Halt, Restart, history
<1>9. CASE UNCHANGED vars
  BY <1>4, <1>9 DEF vars, history
<1>10. QED
  BY <1>2, <1>3, <1>4, <1>5, <1>6, <1>7, <1>8, <1>9
     DEF Next, PumpStep, AnswerStep, UserStep, WorldStep

(* What the user has dismissed stays so or is replaced: no call is made    *)
(* for it any more and no slot committed, from no answer under way.        *)
THEOREM DismissedStaysOut ==
  ASSUME StewardAssumption
  PROVE  Spec => DismissedIsOut
<1>1. StewardInv /\ [Next]_vars => DismissedIsOutStep
  <2> SUFFICES ASSUME StewardInv, [Next]_vars, NEW e \in Entry,
                      entries[e].state = "dismissed"
               PROVE  /\ entries'[e].state \in {"dismissed", "replaced"}
                      /\ made'[<<"keep", e>>] = made[<<"keep", e>>]
                      /\ calls'[<<"keep", e>>] = calls[<<"keep", e>>]
    BY DEF DismissedIsOutStep
  <2>1. TypeOK /\ Held
    BY DEF StewardInv
  <2>2. entries'[e].state \in {"dismissed", "replaced"}
    BY <2>1, EntriesStep DEF Turns
  <2>3. /\ <<"keep", e>> \in Job /\ RoleOf(<<"keep", e>>) = "keep"
        /\ Subject(<<"keep", e>>) = e
    BY JobOf
  <2>4. Current(running, held, using) = "ok" /\ running \in Job => running # <<"keep", e>>
    BY <2>1, <2>3, CurrentIs DEF EntryOpen
  <2>5. made'[<<"keep", e>>] = made[<<"keep", e>>]
    BY <2>3, <2>4, OthersRest
  <2>6. calls'[<<"keep", e>>] = calls[<<"keep", e>>]
    BY <2>1, <2>3, <2>4, OthersRest, Tables
  <2>7. QED
    BY <2>2, <2>5, <2>6
<1>2. QED
  BY <1>1, StewardInductive, PTL DEF Spec, DismissedIsOut

(* Where a check has passed, the inputs a job works with are those of the  *)
(* moment.                                                                 *)
LEMMA CheckedIsPresent ==
  ASSUME StewardAssumption, TypeOK, Held, place \notin {"rest", "scanned"},
         Current(running, held, using) = "ok"
  PROVE  /\ using = Present(running) /\ ~gone
         /\ config[RoleOf(running)].enabled /\ allowed[RoleOf(running)]
<1>1. running \in Job /\ running # None
  BY TheHeld, NoneIsNoJob
<1>2. using \in Inputs /\ using.mark # 0 /\ using.text = jobs[running].digest
  BY <1>1, Tables DEF Held
<1>3. /\ ~gone /\ config[RoleOf(running)].enabled /\ allowed[RoleOf(running)]
      /\ using # NoInputs => using.mark = mark
      /\ text[Subject(running)] = jobs[running].digest
  BY <1>1, CurrentIs
<1>4. using.mark = mark /\ using.text = text[Subject(running)]
  BY <1>2, <1>3, NoInputsFacts
<1>5. using = [mark |-> mark, text |-> text[Subject(running)]]
  BY <1>2, <1>4 DEF Inputs
<1>6. QED
  BY <1>3, <1>5 DEF Present

(* Slots and findings are committed only while everything the plan was     *)
(* made from still is as the model saw it.                                 *)
THEOREM StewardCommitsCurrent ==
  ASSUME StewardAssumption
  PROVE  Spec => CommitsCurrent
<1>1. StewardInv /\ [Next]_vars => CommitsCurrentStep
  <2> SUFFICES ASSUME StewardInv, [Next]_vars, NEW j \in Job,
                      made'[j] # made[j] \/ j \in consumed' \ consumed
               PROVE  /\ using = Present(j) /\ ~gone
                      /\ config[RoleOf(j)].enabled /\ allowed[RoleOf(j)]
                      /\ jobs[j].state = "RUNNING"
    BY DEF CommitsCurrentStep
  <2>1. TypeOK /\ Held
    BY DEF StewardInv
  <2>2. CASE made'[j] # made[j]
    <3>1. j = running /\ Current(running, held, using) = "ok"
          /\ place \in {"slots", "prepared"}
      BY <2>1, <2>2, OthersRest, SlotMoves
    <3>2. QED
      BY <2>1, <3>1, CheckedIsPresent DEF Held
  <2>3. CASE j \in consumed' \ consumed
    <3>1. j = running /\ (Discover \/ Finish)
      BY <2>1, <2>3, ConsumedStep
    <3>2. Current(running, held, using) = "ok" /\ place \in {"planned", "slots"}
      BY <2>1, <3>1, DiscoverIs, FinishIs
    <3>3. QED
      BY <2>1, <3>1, <3>2, CheckedIsPresent DEF Held
  <2>4. QED
    BY <2>2, <2>3
<1>2. QED
  BY <1>1, StewardInductive, PTL DEF Spec, CommitsCurrent

(***************************************************************************)
(* The steward keeps the promise of the background services.               *)
(***************************************************************************)
(* A job that may be charged or called, or commits, was not consumed.      *)
LEMMA CurrentIsNew ==
  ASSUME StewardAssumption, StewardInv, NEW j \in Job, NEW v, NEW x,
         Current(j, v, x) = "ok"
  PROVE  j \notin consumed
<1>1. TypeOK /\ ConsumedIsWhole /\ Taken
  BY DEF StewardInv
<1>2. jobs[j].state \in {"RUNNING", "QUEUED"} /\ EntryOpen(j)
  BY <1>1, CurrentIs
<1>3. CASE RoleOf(j) = "find"
  BY <1>1, <1>2, <1>3 DEF Taken
<1>4. CASE RoleOf(j) = "keep"
  BY <1>1, <1>2, <1>4 DEF EntryOpen, ConsumedIsWhole
<1>5. QED
  BY <1>3, <1>4, JobFacts

LEMMA AttemptsKept ==
  ASSUME StewardAssumption, StewardInv, [Next]_vars, \A j \in Job : ~Execute(j)
  PROVE  \A k \in Job : jobs'[k].attempts = jobs[k].attempts
<1>1. TypeOK /\ AllSound /\ Held
  BY DEF StewardInv
<1>2. CASE Discover \/ Finish
  <2>1. /\ running \in Job /\ jobs' = [jobs EXCEPT ![running].state = "COMPLETED"]
        /\ jobs \in [Job -> JobRow]
    BY <1>1, <1>2, DiscoverIs, FinishIs, Tables
  <2>2. /\ jobs'[running] = [jobs[running] EXCEPT !.state = "COMPLETED"]
        /\ jobs[running] \in JobRow
        /\ \A k \in Job \ {running} : jobs'[k] = jobs[k]
    BY <2>1
  <2>3. jobs'[running].attempts = jobs[running].attempts
    BY <2>2 DEF JobRow
  <2>4. QED
    BY <2>2, <2>3
<1>3. CASE Equivalent \/ Remember
  BY <1>1, <1>3, SlotMoves
<1>4. CASE ~Discover /\ ~Finish /\ ~Equivalent /\ ~Remember
  BY <1>1, <1>4, MovesStep DEF Moves
<1>5. QED
  BY <1>2, <1>3, <1>4

LEMMA Unseen ==
  ASSUME \A k \in Job : jobs'[k].attempts = jobs[k].attempts, UNCHANGED <<calls, consumed>>
  PROVE  UNCHANGED Promised!promise
<1>1. [k \in Job |-> jobs'[k].attempts] = [k \in Job |-> jobs[k].attempts]
  BY Zenon
<1>2. QED
  BY <1>1 DEF Promised!promise

LEMMA PromiseStep ==
  ASSUME StewardAssumption, StewardInv, [Next]_vars
  PROVE  [Promised!WorkStep]_(Promised!promise)
<1> DEFINE Paid == [k \in Job |-> jobs[k].attempts]
<1>1. /\ TypeOK /\ AllSound /\ Held /\ calls \in [Job -> Nat]
      /\ jobs \in [Job -> JobRow]
  BY Tables DEF StewardInv
<1>2. CASE Send
  <2>1. /\ running \in Job /\ place = "reserved"
        /\ calls' = [calls EXCEPT ![running] = @ + 1]
        /\ Current(running, held, using) = "ok" /\ UNCHANGED <<jobs, consumed>>
    BY <1>1, <1>2, TheHeld DEF Send, durable, Held
  <2>2. calls[running] < Paid[running] /\ running \notin consumed
    BY <1>1, <2>1, CurrentIsNew DEF Held
  <2>3. UNCHANGED Paid
    BY <2>1
  <2>4. Promised!Call(running)
    BY <2>1, <2>2, <2>3 DEF Promised!Call
  <2>5. QED
    BY <2>1, <2>4 DEF Promised!WorkStep
<1>3. CASE Discover \/ Finish
  <2>1. /\ running \in Job /\ consumed' = consumed \cup {running}
        /\ Current(running, held, using) = "ok" /\ place \in {"planned", "slots"}
        /\ UNCHANGED calls
    BY <1>1, <1>3, DiscoverIs, FinishIs DEF history
  <2>2. running \notin consumed
    BY <2>1, CurrentIsNew
  <2>3. jobs[running].plan # NoInputs
    BY <1>1, <2>1 DEF Held
  <2>4. calls[running] > 0
    BY <1>1, <2>1, <2>3 DEF AllSound, Fits, Sound
  <2>5. \A j \in Job : ~Execute(j)
    BY <2>1 DEF Execute
  <2>6. UNCHANGED Paid
    BY <2>5, AttemptsKept, Zenon
  <2>7. PICK j \in Job : j = running
    BY <2>1
  <2>8. Promised!Accept(j)
    BY <2>1, <2>2, <2>4, <2>6, <2>7 DEF Promised!Accept
  <2>9. QED
    BY <2>8, Zenon DEF Promised!WorkStep
<1>4. ASSUME NEW j \in Job, Execute(j)
      PROVE  [Promised!WorkStep]_(Promised!promise)
  <2>1. UNCHANGED <<calls, consumed>>
    BY <1>1, <1>4, ExecuteIs DEF history
  <2>2. /\ \A k \in Job \ {j} : jobs'[k].attempts = jobs[k].attempts
        /\ \/ jobs'[j].attempts = jobs[j].attempts
           \/ /\ Current(j, jobs[j].config, jobs[j].inputs) = "ok"
              /\ jobs'[j].attempts = jobs[j].attempts + 1
    BY <1>1, <1>4, ExecuteMoves DEF Moves
  <2>3. CASE jobs'[j].attempts = jobs[j].attempts
    BY <2>1, <2>2, <2>3, Unseen
  <2>4. CASE /\ Current(j, jobs[j].config, jobs[j].inputs) = "ok"
             /\ jobs'[j].attempts = jobs[j].attempts + 1
    <3>1. j \notin consumed
      BY <2>4, CurrentIsNew
    <3>2. \A k \in Job : jobs'[k].attempts =
            IF k = j THEN jobs[k].attempts + 1 ELSE jobs[k].attempts
      BY <2>2, <2>4
    <3>3. Paid' = [Paid EXCEPT ![j] = @ + 1]
      BY <3>2
    <3>4. Promised!Charge(j)
      BY <2>1, <3>1, <3>3 DEF Promised!Charge
    <3>5. QED
      BY <3>4 DEF Promised!WorkStep
  <2>5. QED
    BY <2>2, <2>3, <2>4
<1>5. CASE ~Send /\ ~Discover /\ ~Finish /\ \A j \in Job : ~Execute(j)
  <2>1. UNCHANGED <<calls, consumed>>
    BY <1>1, <1>5, OthersRest, TurnsStep
  <2>2. QED
    BY <1>5, <2>1, AttemptsKept, Unseen
<1>6. QED
  BY <1>2, <1>3, <1>4, <1>5

(* A job of the steward is charged before each call, called only for what  *)
(* was charged, and consumed once, after a call of its own.                *)
THEOREM StewardKeepsPromise ==
  ASSUME StewardAssumption
  PROVE  Spec => KeepsWorkPromise
<1>1. Init => Promised!Begin
  <2> SUFFICES ASSUME Init PROVE Promised!Begin
    OBVIOUS
  <2>1. \A k \in Job : jobs[k].attempts = 0
    BY NoJobFacts DEF Init
  <2>2. calls = [k \in Job |-> 0] /\ consumed = {}
    BY DEF Init
  <2>3. QED
    BY <2>1, <2>2 DEF Promised!Begin
<1>2. StewardInv /\ [Next]_vars => [Promised!WorkStep]_(Promised!promise)
  BY PromiseStep
<1>3. QED
  BY <1>1, <1>2, StewardInductive, PTL DEF Spec, KeepsWorkPromise, Promised!Promise

====
