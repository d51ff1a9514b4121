-------------------------- MODULE DailyReportsProofs --------------------------
(***************************************************************************)
(* Proofs about DailyReports, for every set of jobs, number of proposals,  *)
(* budget, limit on changes, and bound on what the user and the world do.  *)
(***************************************************************************)
EXTENDS DailyReports, TLAPS

USE DEF States, Ended, Results, Places

(***************************************************************************)
(* The inductive invariant.                                                *)
(***************************************************************************)
(* The shapes of a job and of its report.                                  *)
JobRow == [state : States, config : Nat, text : Nat, from : Nat, to : 0..MaxChange,
           plan : BOOLEAN, finds : BOOLEAN, begun : BOOLEAN, slots : 0..Slots,
           done : Nat, day : Nat, attempts : Nat]
ReportRow ==
  [state : {"none", "ACTIVE", "STALE", "SUPPRESSED"}, version : Nat,
   finding : {"none", "pending", "active", "suppressed", "disputed"},
   memory : Nat, accepted : Nat, called : BOOLEAN]

(* What a job was charged for pays for its calls, and the user has asked   *)
(* for what may be charged again; a plan comes from a call.                *)
Charges(a, called, asked) ==
  /\ called <= a.attempts /\ a.attempts <= 1 + asked
  /\ (a.state \in {"QUEUED", "BUDGET_PAUSED"} /\ ~a.plan /\ a.text # 0)
       => a.attempts <= asked
  /\ a.plan => called > 0

(* What was proposed is counted, and a new plan starts from nothing.       *)
Proposals(a, made) ==
  /\ a.done <= a.slots /\ made = a.done
  /\ (~a.plan /\ a.text # 0 /\ a.state # "COMPLETED") => a.done = 0

(* A completed job has a report and all its proposals.                     *)
Ends(a, r, over) ==
  /\ a.state = "COMPLETED" <=> (r.state # "none" /\ ~over)
  /\ r.state # "none" => a.done = a.slots
  /\ a.state = "none" => a.attempts = 0 /\ a.done = 0
  /\ r.state = "none" => r.memory = 0 /\ r.finding = "none" /\ ~r.called
  /\ over => a.state \in {"none", "CANCELLED"}

(* A report has at most one memory, and none before the first decision.    *)
Memories(r, kept) == kept <= 1 /\ (r.memory = 0 => kept = 0)

(* All of it, and that a job starts from what has been reported.           *)
Sound(a, r, called, asked, made, kept, over, said) ==
  /\ a \in JobRow /\ r \in ReportRow
  /\ Charges(a, called, asked) /\ Proposals(a, made) /\ Ends(a, r, over)
  /\ Memories(r, kept) /\ 1..a.from \subseteq said

(* A job and a report that fit what has happened to job k.                 *)
Fits(a, r, k) ==
  Sound(a, r, calls[k], retries[k], proposed[k], remembered[k], gone, reported)

AllSound == \A k \in Job : Fits(jobs[k], reports[k], k)

(* The shapes of the rest.                                                 *)
Shapes ==
  /\ jobs \in [Job -> JobRow] /\ reports \in [Job -> ReportRow]
  /\ open \in [Job -> {"none", "SENDING", "SETTLED", "UNKNOWN"}]
  /\ config \in [version : Nat, enabled : BOOLEAN]
  /\ text \in Nat /\ change \in 0..MaxChange /\ checkpoint \in 0..MaxChange
  /\ gone \in BOOLEAN /\ granted \in BOOLEAN /\ suppressed \in BOOLEAN
  /\ day \in 0..MaxDay /\ spent \in [0..MaxDay -> Nat]
  /\ calls \in [Job -> Nat] /\ proposed \in [Job -> Nat]
  /\ retries \in [Job -> Nat] /\ remembered \in [Job -> Nat]
  /\ up \in BOOLEAN /\ aborted \in BOOLEAN
  /\ running \in Job \cup {None} /\ place \in Places

(* The job whose call is out: no plan yet, and something to ask about.     *)
Calling(a) == a.state = "RUNNING" /\ ~a.plan /\ a.text # 0

(* What is known of the job the pump holds, by its place.                  *)
Held ==
  /\ running = None <=> place = "rest"
  /\ ~up => place = "rest"
  /\ place = "reserved" =>
       Calling(jobs[running]) /\ calls[running] < jobs[running].attempts
  /\ place \in {"sent", "answered"} =>
       \/ jobs[running].state = "CANCELLED"
       \/ Calling(jobs[running]) /\ calls[running] > 0
  /\ place = "planned" =>
       /\ jobs[running].state \in {"RUNNING", "QUEUED", "PARTIAL"}
       /\ jobs[running].plan \/ jobs[running].text = 0

DailyInv ==
  /\ Shapes /\ AllSound /\ Held /\ NoChangeLost /\ BudgetHolds

(***************************************************************************)
(* What the rows become.                                                   *)
(***************************************************************************)
(* Emptying a job leaves its state and its counts.                         *)
LEMMA ClearedFields ==
  ASSUME DailyAssumption, NEW a \in JobRow
  PROVE  /\ Cleared(a) \in JobRow /\ Cleared(a).state = a.state
         /\ Cleared(a).text = 0 /\ Cleared(a).from = 0 /\ Cleared(a).to = 0
         /\ ~Cleared(a).plan
         /\ Cleared(a).slots = a.slots /\ Cleared(a).done = a.done
         /\ Cleared(a).attempts = a.attempts
<1>1. MaxChange \in Nat
  BY DEF DailyAssumption
<1>2. 0 \in 0..MaxChange
  BY <1>1
<1>3. QED
  BY <1>2 DEF Cleared, JobRow

(* And it stays sound.                                                     *)
LEMMA ClearedSound ==
  ASSUME DailyAssumption, NEW a, NEW r, NEW called \in Nat,
         NEW asked \in Nat, NEW made, NEW kept, NEW over, NEW said,
         Sound(a, r, called, asked, made, kept, over, said)
  PROVE  Sound(Cleared(a), r, called, asked, made, kept, over, said)
<1>1. Cleared(a) \in JobRow /\ r \in ReportRow /\ a \in JobRow
  BY ClearedFields DEF Sound
<1>2. Charges(Cleared(a), called, asked)
  BY ClearedFields DEF Sound, Charges
<1>3. Proposals(Cleared(a), made)
  BY ClearedFields DEF Sound, Proposals
<1>4. Ends(Cleared(a), r, over)
  BY ClearedFields DEF Sound, Ends
<1>5. 1..Cleared(a).from \subseteq said
  BY <1>1, ClearedFields
<1>6. QED
  BY <1>1, <1>2, <1>3, <1>4, <1>5 DEF Sound

(* The end of an execution changes the state, and empties what is given up.*)
LEMMA EndingFields ==
  ASSUME DailyAssumption, NEW a \in JobRow, NEW s \in States
  PROVE  /\ Ending(a, s) \in JobRow /\ Ending(a, s).state = s
         /\ s \in {"STALE", "CANCELLED"} => Ending(a, s).text = 0
         /\ Ending(a, s).slots = a.slots /\ Ending(a, s).done = a.done
         /\ Ending(a, s).attempts = a.attempts
         /\ \/ /\ Ending(a, s).text = a.text /\ Ending(a, s).plan = a.plan
               /\ Ending(a, s).from = a.from /\ Ending(a, s).to = a.to
            \/ /\ Ending(a, s).text = 0 /\ ~Ending(a, s).plan
               /\ Ending(a, s).from = 0 /\ Ending(a, s).to = 0
<1>1. [a EXCEPT !.state = s] \in JobRow
  BY DEF JobRow
<1>2. CASE s \in {"STALE", "CANCELLED"}
  BY <1>1, <1>2, ClearedFields DEF Ending, JobRow
<1>3. CASE s \notin {"STALE", "CANCELLED"}
  BY <1>1, <1>3 DEF Ending, JobRow
<1>4. QED
  BY <1>2, <1>3

LEMMA EndingSound ==
  ASSUME DailyAssumption, NEW a, NEW r, NEW called \in Nat,
         NEW asked \in Nat, NEW made, NEW kept, NEW over, NEW said,
         Sound(a, r, called, asked, made, kept, over, said),
         NEW s \in States \ {"none", "QUEUED", "COMPLETED"},
         a.state \notin {"none", "COMPLETED"},
         s = "BUDGET_PAUSED" => a.state \in {"QUEUED", "BUDGET_PAUSED"},
         ~over \/ s = "CANCELLED"
  PROVE  Sound(Ending(a, s), r, called, asked, made, kept, over, said)
<1>1. a \in JobRow /\ r \in ReportRow /\ Ending(a, s) \in JobRow
  BY EndingFields DEF Sound
<1>2. Charges(Ending(a, s), called, asked)
  BY <1>1, EndingFields DEF Sound, Charges
<1>3. Proposals(Ending(a, s), made)
  BY <1>1, EndingFields DEF Sound, Proposals, Ends
<1>4. Ends(Ending(a, s), r, over)
  BY <1>1, EndingFields DEF Sound, Ends
<1>5. 1..Ending(a, s).from \subseteq said
  BY <1>1, EndingFields DEF Sound
<1>6. QED
  BY <1>1, <1>2, <1>3, <1>4, <1>5 DEF Sound

(* A report loses its text, or stays as it is.                             *)
LEMMA RefreshedRow ==
  ASSUME NEW k \in Job
  PROVE  \/ Refreshed[k] = reports[k]
         \/ /\ reports[k].state = "ACTIVE"
            /\ Refreshed[k] = [reports[k] EXCEPT !.state = "STALE",
                                                 !.version = @ + 1]
BY DEF Refreshed

LEMMA ReportFields ==
  ASSUME NEW r \in ReportRow,
         NEW s \in {"none", "ACTIVE", "STALE", "SUPPRESSED"}
  PROVE  LET q == [r EXCEPT !.state = s, !.version = @ + 1] IN
         /\ q \in ReportRow /\ q.state = s /\ q.memory = r.memory
         /\ q.finding = r.finding /\ q.called = r.called
<1> DEFINE v == r.version + 1
<1>1. v \in Nat
  BY DEF ReportRow
<1> HIDE DEF v
<1> DEFINE p == [r EXCEPT !.state = s, !.version = v]
<1>2. /\ p \in ReportRow /\ p.state = s /\ p.memory = r.memory
      /\ p.finding = r.finding /\ p.called = r.called
  BY <1>1 DEF ReportRow
<1> HIDE DEF p
<1>3. p = [r EXCEPT !.state = s, !.version = @ + 1]
  BY Zenon DEF p, v
<1>4. QED
  BY <1>2, <1>3, Zenon

LEMMA StaleSound ==
  ASSUME NEW a, NEW r, NEW called, NEW asked, NEW made, NEW kept, NEW over,
         NEW said, Sound(a, r, called, asked, made, kept, over, said),
         r.state = "ACTIVE",
         NEW q, q = [r EXCEPT !.state = "STALE", !.version = @ + 1]
  PROVE  Sound(a, q, called, asked, made, kept, over, said)
<1>1. r \in ReportRow
  BY DEF Sound
<1>2. /\ q \in ReportRow /\ q.state = "STALE" /\ q.memory = r.memory
      /\ q.finding = r.finding /\ q.called = r.called
  BY <1>1, ReportFields, Zenon
<1>3. Sound(a, q, called, asked, made, kept, over, said)
  BY <1>2 DEF Sound, Ends, Memories
<1>4. QED
  BY <1>3

(* Refreshing keeps what fits.                                             *)
LEMMA RefreshFits ==
  ASSUME DailyAssumption, Shapes, NEW after, NEW k \in Job,
         Fits(after[k], reports[k], k)
  PROVE  /\ Fits(Emptied(after)[k], Refreshed[k], k)
         /\ Emptied(after)[k] \in {after[k], Cleared(after[k])}
         /\ Refreshed[k].state = "none" <=> reports[k].state = "none"
         /\ reports[k].state # "ACTIVE" => Emptied(after)[k] = after[k]
<1>1. calls[k] \in Nat /\ retries[k] \in Nat
  BY DEF Shapes
<1>2. Fits(after[k], Refreshed[k], k)
  <2>1. CASE Refreshed[k] = reports[k]
    BY <2>1
  <2>2. CASE /\ reports[k].state = "ACTIVE"
             /\ Refreshed[k] = [reports[k] EXCEPT !.state = "STALE",
                                                  !.version = @ + 1]
    BY <2>2, StaleSound, Zenon DEF Fits
  <2>3. QED
    BY <2>1, <2>2, RefreshedRow
<1>3. Emptied(after)[k] \in {after[k], Cleared(after[k])}
  BY DEF Emptied
<1>4. Fits(Emptied(after)[k], Refreshed[k], k)
  BY <1>1, <1>2, <1>3, ClearedSound DEF Fits
<1>5. Refreshed[k].state = "none" <=> reports[k].state = "none"
  BY RefreshedRow DEF Shapes, ReportRow
<1>6. reports[k].state # "ACTIVE" => Emptied(after)[k] = after[k]
  BY RefreshedRow DEF Emptied
<1>7. QED
  BY <1>3, <1>4, <1>5, <1>6

(* So does the pump's look at what is due.                                 *)
LEMMA TickedFits ==
  ASSUME DailyAssumption, Shapes, AllSound, NEW k \in Job
  PROVE  /\ Fits(Ticked[k], Refreshed[k], k)
         /\ Ticked[k].state = "QUEUED"
              => jobs[k].state \in {"QUEUED", "BUDGET_PAUSED"}
         /\ jobs[k].state \notin {"BUDGET_PAUSED", "COMPLETED", "CANCELLED", "none"}
              => Ticked[k] = jobs[k]
         /\ jobs[k].state = "CANCELLED" => Ticked[k].state = "CANCELLED"
<1>1. /\ jobs[k] \in JobRow
      /\ Sound(jobs[k], reports[k], calls[k], retries[k], proposed[k],
               remembered[k], gone, reported)
  BY DEF Shapes, AllSound, Fits
<1> DEFINE q == [jobs[k] EXCEPT !.state = "QUEUED"]
<1>2. /\ q \in JobRow /\ q.state = "QUEUED" /\ q.text = jobs[k].text
      /\ q.plan = jobs[k].plan /\ q.from = jobs[k].from
      /\ q.slots = jobs[k].slots /\ q.done = jobs[k].done
      /\ q.attempts = jobs[k].attempts
  BY <1>1 DEF JobRow
<1> HIDE DEF q
<1>3. jobs[k].state = "BUDGET_PAUSED" => Fits(q, reports[k], k)
  BY <1>1, <1>2 DEF Fits, Sound, Charges, Proposals, Ends
<1>4. Requeued[k] = jobs[k] \/ (jobs[k].state = "BUDGET_PAUSED" /\ Requeued[k] = q)
  BY DEF Requeued, q
<1>5. Fits(Requeued[k], reports[k], k) /\ Requeued[k] \in JobRow
  BY <1>1, <1>2, <1>3, <1>4 DEF Fits
<1>6. /\ Fits(Ticked[k], Refreshed[k], k)
      /\ Ticked[k] \in {Requeued[k], Cleared(Requeued[k])}
      /\ reports[k].state # "ACTIVE" => Ticked[k] = Requeued[k]
  BY <1>5, RefreshFits DEF Ticked
<1>7. Ticked[k].state = Requeued[k].state
  BY <1>5, <1>6, ClearedFields
<1>8. jobs[k].state \notin {"COMPLETED", "CANCELLED", "none"}
        => reports[k].state = "none"
  BY <1>1 DEF Sound, Ends
<1>9. QED
  BY <1>2, <1>4, <1>6, <1>7, <1>8

(***************************************************************************)
(* What a step finds and does.                                             *)
(***************************************************************************)
(* What a check says of a job.                                             *)
LEMMA CheckValues ==
  ASSUME Shapes, NEW j \in Job
  PROVE  /\ Check(j) \in {"STALE_WRITE", "CONFIGURATION", "ok"}
         /\ Check(j) = "ok" =>
              /\ ~aborted /\ jobs[j].state # "CANCELLED"
              /\ config.enabled /\ Grounded(j)
<1>1. aborted \in BOOLEAN /\ config.enabled \in BOOLEAN
  BY DEF Shapes
<1>2. QED
  BY <1>1 DEF Check

(* The catch block changes one job, if it was not cancelled.               *)
LEMMA CaughtRow ==
  ASSUME NEW after, NEW j, NEW code
  PROVE  \/ /\ after[j].state = "CANCELLED" /\ Caught(after, j, code) = after
         \/ /\ after[j].state # "CANCELLED"
            /\ \E s \in {"BUDGET_PAUSED", "REMOTE_UNKNOWN", "STALE", "PARTIAL",
                         "FAILED"} :
                 /\ s = "BUDGET_PAUSED" => code = "BUDGET_EXHAUSTED"
                 /\ Caught(after, j, code) = [after EXCEPT ![j] = Ending(@, s)]
<1> DEFINE s ==
      CASE code = "BUDGET_EXHAUSTED" -> "BUDGET_PAUSED"
        [] code = "RESULT_UNKNOWN" -> "REMOTE_UNKNOWN"
        [] code \notin {"BUDGET_EXHAUSTED", "RESULT_UNKNOWN"}
             /\ (aborted \/ code = "STALE_WRITE") -> "STALE"
        [] code \in {"CONFIGURATION", "FAULT"} /\ ~aborted
             /\ after[j].done > 0 -> "PARTIAL"
        [] OTHER -> "FAILED"
<1>1. /\ s \in {"BUDGET_PAUSED", "REMOTE_UNKNOWN", "STALE", "PARTIAL",
                "FAILED"}
      /\ s = "BUDGET_PAUSED" => code = "BUDGET_EXHAUSTED"
  BY SMT
<1>2. after[j].state # "CANCELLED"
        => Caught(after, j, code) = [after EXCEPT ![j] = Ending(@, s)]
  BY Zenon DEF Caught
<1> HIDE DEF s
<1>3. after[j].state = "CANCELLED" => Caught(after, j, code) = after
  BY Zenon DEF Caught
<1>4. QED
  BY <1>1, <1>2, <1>3, Zenon

LEMMA CaughtFits ==
  ASSUME DailyAssumption, Shapes, NEW after \in [Job -> JobRow], NEW j \in Job,
         NEW code, NEW k \in Job, NEW r, Fits(after[k], r, k),
         j = k => after[k].state \in {"QUEUED", "RUNNING", "PARTIAL", "CANCELLED"},
         code = "BUDGET_EXHAUSTED" => after[j].state = "QUEUED"
  PROVE  /\ Fits(Caught(after, j, code)[k], r, k)
         /\ k # j => Caught(after, j, code)[k] = after[k]
         /\ after[k].state # "COMPLETED"
              => Caught(after, j, code)[k].state # "COMPLETED"
<1>1. calls[k] \in Nat /\ retries[k] \in Nat
  BY DEF Shapes
<1>2. CASE Caught(after, j, code) = after
  BY <1>2
<1>3. ASSUME after[j].state # "CANCELLED",
             NEW s \in {"BUDGET_PAUSED", "REMOTE_UNKNOWN", "STALE", "PARTIAL",
                        "FAILED"},
             s = "BUDGET_PAUSED" => code = "BUDGET_EXHAUSTED",
             Caught(after, j, code) = [after EXCEPT ![j] = Ending(@, s)]
      PROVE  /\ Fits(Caught(after, j, code)[k], r, k)
             /\ k # j => Caught(after, j, code)[k] = after[k]
             /\ after[k].state # "COMPLETED"
                  => Caught(after, j, code)[k].state # "COMPLETED"
  <2>1. CASE k # j
    BY <1>3, <2>1
  <2>2. CASE k = j
    <3>1. Caught(after, j, code)[k] = Ending(after[k], s)
      BY <1>3, <2>2
    <3>2. Sound(after[k], r, calls[k], retries[k], proposed[k], remembered[k],
                gone, reported)
      BY DEF Fits
    <3>3. ~gone
      BY <1>3, <2>2, <3>2 DEF Sound, Ends
    <3>4. Fits(Ending(after[k], s), r, k)
      BY <1>1, <1>3, <2>2, <3>2, <3>3, EndingSound DEF Fits
    <3>5. Ending(after[k], s).state = s
      BY EndingFields
    <3>6. QED
      BY <2>2, <3>1, <3>4, <3>5, <1>3
  <2>3. QED
    BY <2>1, <2>2
<1>4. QED
  BY <1>2, <1>3, CaughtRow

(* The table of jobs after a look at what is due.                          *)
LEMMA Tables ==
  ASSUME DailyAssumption, Shapes, AllSound
  PROVE  /\ Ticked \in [Job -> JobRow] /\ Emptied(jobs) \in [Job -> JobRow]
         /\ Refreshed \in [Job -> ReportRow]
<1>1. \A k \in Job : Ticked[k] \in JobRow
  BY TickedFits DEF Fits, Sound
<1>2. \A k \in Job : Emptied(jobs)[k] \in JobRow /\ Refreshed[k] \in ReportRow
  BY RefreshFits DEF AllSound, Fits, Sound
<1>3. QED
  BY <1>1, <1>2 DEF Ticked, Emptied, Refreshed

LEMMA CaughtTable ==
  ASSUME DailyAssumption, NEW after \in [Job -> JobRow], NEW j \in Job, NEW code
  PROVE  Caught(after, j, code) \in [Job -> JobRow]
<1>1. \A s \in States : Ending(after[j], s) \in JobRow
  BY EndingFields
<1>2. QED
  BY <1>1, CaughtRow

(***************************************************************************)
(* Every step keeps every job and its report sound.                        *)
(***************************************************************************)
(* What is known of a job and of the one the pump holds.                   *)
LEMMA Known ==
  ASSUME Shapes, AllSound, NEW k \in Job
  PROVE  /\ jobs[k] \in JobRow /\ reports[k] \in ReportRow
         /\ calls[k] \in Nat /\ retries[k] \in Nat
         /\ proposed[k] \in Nat /\ remembered[k] \in Nat
         /\ Fits(jobs[k], reports[k], k)
         /\ Sound(jobs[k], reports[k], calls[k], retries[k], proposed[k],
                  remembered[k], gone, reported)
BY DEF Shapes, AllSound, Fits

LEMMA TheHeld ==
  ASSUME Shapes, Held, place # "rest"
  PROVE  running \in Job
BY DEF Shapes, Held

LEMMA TickSound ==
  ASSUME DailyAssumption, Shapes, AllSound, Tick, NEW k \in Job
  PROVE  Fits(jobs[k], reports[k], k)'
BY TickedFits DEF Tick, Fits, history, world

(* A queued job that is marked running, and charged if it has no plan.     *)
LEMMA TakenRow ==
  ASSUME NEW a \in JobRow, NEW d \in Nat, NEW s \in States
  PROVE  /\ LET b == [a EXCEPT !.begun = TRUE, !.state = s] IN
              /\ b \in JobRow /\ b.state = s /\ b.text = a.text
              /\ b.plan = a.plan /\ b.from = a.from /\ b.slots = a.slots
              /\ b.done = a.done /\ b.attempts = a.attempts
         /\ LET b == [a EXCEPT !.day = d] IN
              /\ b \in JobRow /\ b.state = a.state /\ b.text = a.text
              /\ b.plan = a.plan /\ b.from = a.from /\ b.slots = a.slots
              /\ b.done = a.done /\ b.attempts = a.attempts
         /\ LET b == [a EXCEPT !.state = "RUNNING", !.day = d,
                               !.attempts = a.attempts + 1] IN
              /\ b \in JobRow /\ b.state = "RUNNING" /\ b.text = a.text
              /\ b.plan = a.plan /\ b.from = a.from /\ b.slots = a.slots
              /\ b.done = a.done /\ b.attempts = a.attempts + 1
<1> DEFINE b1 == [a EXCEPT !.begun = TRUE, !.state = s]
           b2 == [a EXCEPT !.day = d]
           n == a.attempts + 1
           b3 == [a EXCEPT !.state = "RUNNING", !.day = d, !.attempts = n]
<1>1. /\ b1 \in JobRow /\ b1.state = s /\ b1.text = a.text
      /\ b1.plan = a.plan /\ b1.from = a.from /\ b1.slots = a.slots
      /\ b1.done = a.done /\ b1.attempts = a.attempts
  BY DEF JobRow
<1>2. /\ b2 \in JobRow /\ b2.state = a.state /\ b2.text = a.text
      /\ b2.plan = a.plan /\ b2.from = a.from /\ b2.slots = a.slots
      /\ b2.done = a.done /\ b2.attempts = a.attempts
  BY DEF JobRow
<1>3. n \in Nat
  BY DEF JobRow
<1> HIDE DEF n
<1>4. /\ b3 \in JobRow /\ b3.state = "RUNNING" /\ b3.text = a.text
      /\ b3.plan = a.plan /\ b3.from = a.from /\ b3.slots = a.slots
      /\ b3.done = a.done /\ b3.attempts = n
  BY <1>3 DEF JobRow
<1>5. QED
  BY <1>1, <1>2, <1>4, Zenon DEF n

LEMMA ExecuteSound ==
  ASSUME DailyAssumption, Shapes, AllSound, NEW j \in Job, Execute(j), NEW k \in Job
  PROVE  Fits(jobs[k], reports[k], k)'
<1> DEFINE job == Ticked[j]
<1>1. /\ Fits(Ticked[k], Refreshed[k], k) /\ Ticked[k] \in JobRow
      /\ Ticked \in [Job -> JobRow] /\ job \in JobRow /\ job.state = "QUEUED"
      /\ calls[k] \in Nat /\ retries[k] \in Nat
      /\ Sound(Ticked[k], Refreshed[k], calls[k], retries[k], proposed[k],
               remembered[k], gone, reported)
  BY TickedFits, Tables, Known DEF Execute, Queued, Fits
<1>2. /\ reports' = Refreshed
      /\ UNCHANGED <<gone, calls, retries, proposed, remembered, reported>>
  BY DEF Execute, world, history
<1>3. day \in Nat
  BY DEF Shapes, DailyAssumption
<1>4. ASSUME Check(j) # "ok", jobs' = Caught(Ticked, j, Check(j))
      PROVE  Fits(jobs'[k], Refreshed[k], k)
  <2>1. Check(j) # "BUDGET_EXHAUSTED"
    BY CheckValues
  <2>2. QED
    BY <1>1, <1>4, <2>1, CaughtFits
<1>5. ASSUME job.plan \/ job.text = 0,
             NEW s \in {"QUEUED", "RUNNING"},
             jobs' = [Ticked EXCEPT ![j].begun = TRUE, ![j].state = s]
      PROVE  Fits(jobs'[k], Refreshed[k], k)
  <2>1. CASE k # j
    BY <1>1, <1>5, <2>1
  <2>2. CASE k = j
    <3> DEFINE b == [job EXCEPT !.begun = TRUE, !.state = s]
    <3>1. jobs'[k] = b
      BY <1>1, <1>5, <2>2
    <3>2. /\ b \in JobRow /\ b.state = s /\ b.text = job.text
          /\ b.plan = job.plan /\ b.from = job.from /\ b.slots = job.slots
          /\ b.done = job.done /\ b.attempts = job.attempts
      <4>1. s \in States
        OBVIOUS
      <4>2. QED
        BY <1>1, <4>1 DEF JobRow
    <3> HIDE DEF b
    <3>3. Sound(b, Refreshed[k], calls[k], retries[k], proposed[k],
                remembered[k], gone, reported)
      BY <1>1, <1>5, <2>2, <3>2 DEF Sound, Charges, Proposals, Ends
    <3>4. QED
      BY <3>1, <3>3 DEF Fits
  <2>3. QED
    BY <2>1, <2>2
<1>6. ASSUME jobs' = Caught([Ticked EXCEPT ![j].day = day], j, "BUDGET_EXHAUSTED")
      PROVE  Fits(jobs'[k], Refreshed[k], k)
  <2> DEFINE b == [job EXCEPT !.day = day]
             after == [Ticked EXCEPT ![j].day = day]
  <2>1. /\ b \in JobRow /\ b.state = job.state /\ b.text = job.text
        /\ b.plan = job.plan /\ b.from = job.from /\ b.slots = job.slots
        /\ b.done = job.done /\ b.attempts = job.attempts
    BY <1>1, <1>3, TakenRow
  <2>2. after = [Ticked EXCEPT ![j] = b]
    BY <1>1
  <2> HIDE DEF b
  <2>3. j = k => Fits(b, Refreshed[k], k)
    BY <1>1, <2>1 DEF Fits, Sound, Charges, Proposals, Ends
  <2>4. after \in [Job -> JobRow] /\ Fits(after[k], Refreshed[k], k)
        /\ after[j].state = "QUEUED"
    BY <1>1, <2>1, <2>2, <2>3
  <2> HIDE DEF after
  <2>5. QED
    BY <2>4, <1>6, CaughtFits DEF after
<1>7. ASSUME ~job.plan, job.text # 0,
             jobs' = [Ticked EXCEPT ![j].state = "RUNNING", ![j].day = day,
                                    ![j].attempts = @ + 1]
      PROVE  Fits(jobs'[k], Refreshed[k], k)
  <2>1. CASE k # j
    BY <1>1, <1>7, <2>1
  <2>2. CASE k = j
    <3> DEFINE b == [job EXCEPT !.state = "RUNNING", !.day = day,
                                !.attempts = job.attempts + 1]
    <3>1. jobs'[k] = b
      BY <1>1, <1>7, <2>2
    <3>2. /\ b \in JobRow /\ b.state = "RUNNING" /\ b.text = job.text
          /\ b.plan = job.plan /\ b.from = job.from /\ b.slots = job.slots
          /\ b.done = job.done /\ b.attempts = job.attempts + 1
      BY <1>1, <1>3, TakenRow
    <3> HIDE DEF b
    <3>3. job.attempts \in Nat
      BY <1>1 DEF JobRow
    <3>4. Sound(b, Refreshed[k], calls[k], retries[k], proposed[k],
                remembered[k], gone, reported)
      BY <1>1, <1>7, <2>2, <3>2, <3>3 DEF Sound, Charges, Proposals, Ends
    <3>5. QED
      BY <3>1, <3>4 DEF Fits
  <2>3. QED
    BY <2>1, <2>2
<1>8. Fits(jobs'[k], Refreshed[k], k)
  BY <1>4, <1>5, <1>6, <1>7 DEF Execute
<1>9. QED
  BY <1>2, <1>8 DEF Fits

(* The call is made for what has been charged.                             *)
LEMMA SendSound ==
  ASSUME Shapes, AllSound, Held, Send, NEW k \in Job
  PROVE  Fits(jobs[k], reports[k], k)'
<1>1. /\ running \in Job /\ place = "reserved"
      /\ UNCHANGED <<jobs, reports, gone, retries, proposed, remembered, reported>>
      /\ calls' = [calls EXCEPT ![running] = @ + 1]
  BY TheHeld DEF Send, durable, world
<1>2. calls[running] < jobs[running].attempts
  BY <1>1 DEF Held
<1>3. jobs[k].attempts \in Nat /\ calls[k] \in Nat /\ calls \in [Job -> Nat]
  BY Known DEF JobRow, Shapes
<1>4. calls'[k] \in Nat /\ calls'[k] >= calls[k] /\ calls'[k] <= jobs[k].attempts
  BY <1>1, <1>2, <1>3, Known DEF Sound, Charges
<1>5. Sound(jobs[k], reports[k], calls'[k], retries[k], proposed[k],
            remembered[k], gone, reported)
  BY <1>3, <1>4, Known DEF Sound, Charges
<1>6. QED
  BY <1>1, <1>5 DEF Fits

(* A step of the pump that ends in the catch block.                        *)
LEMMA FailSound ==
  ASSUME DailyAssumption, Shapes, AllSound, Held, place # "rest", place # "reserved",
         NEW code, code # "BUDGET_EXHAUSTED",
         jobs' = Caught(jobs, running, code),
         UNCHANGED <<reports, gone, calls, retries, proposed, remembered,
                     reported>>,
         NEW k \in Job
  PROVE  Fits(jobs[k], reports[k], k)'
<1>1. running \in Job /\ jobs \in [Job -> JobRow]
  BY TheHeld DEF Shapes
<1>2. jobs[running].state \in {"QUEUED", "RUNNING", "PARTIAL", "CANCELLED"}
  BY DEF Held, Calling, Shapes
<1>3. Fits(Caught(jobs, running, code)[k], reports[k], k)
  BY <1>1, <1>2, Known, CaughtFits
<1>4. QED
  BY <1>3 DEF Fits

(* An answer that is well becomes the plan of its job.                     *)
Planned ==
  \E n \in 0..Slots, finds \in BOOLEAN :
    jobs' = [jobs EXCEPT ![running].plan = TRUE, ![running].slots = n,
                         ![running].finds = finds, ![running].begun = TRUE]

LEMMA JudgeTakes ==
  ASSUME Shapes, Held, Judge
  PROVE  /\ running \in Job
         /\ \/ /\ Rest
               /\ \E code \in {"STALE_WRITE", "CONFIGURATION", "RESULT_UNKNOWN",
                               "FAULT"} : jobs' = Caught(jobs, running, code)
            \/ /\ Check(running) = "ok" /\ Planned /\ Goto("planned")
<1>1. running \in Job
  BY TheHeld DEF Judge
<1>2. Check(running) \in {"STALE_WRITE", "CONFIGURATION", "ok"}
  BY <1>1, CheckValues
<1>3. QED
  BY <1>1, <1>2, Zenon DEF Judge, Planned

LEMMA JudgeSound ==
  ASSUME DailyAssumption, Shapes, AllSound, Held, Judge, NEW k \in Job
  PROVE  Fits(jobs[k], reports[k], k)'
<1>1. /\ place = "answered" /\ running \in Job
      /\ UNCHANGED <<reports, gone, calls, retries, proposed, remembered, reported>>
  BY JudgeTakes DEF Judge, world, history
<1>2. ASSUME NEW code \in {"STALE_WRITE", "CONFIGURATION", "RESULT_UNKNOWN",
                           "FAULT"},
             jobs' = Caught(jobs, running, code)
      PROVE  Fits(jobs[k], reports[k], k)'
  BY <1>1, <1>2, FailSound
<1>3. ASSUME Check(running) = "ok", NEW n \in 0..Slots, NEW finds \in BOOLEAN,
             jobs' = [jobs EXCEPT ![running].plan = TRUE, ![running].slots = n,
                                  ![running].finds = finds,
                                  ![running].begun = TRUE]
      PROVE  Fits(jobs[k], reports[k], k)'
  <2>1. CASE k # running
    <3>1. jobs'[k] = jobs[k]
      BY <1>3, <2>1, <1>1 DEF Shapes
    <3>2. QED
      BY <1>1, <3>1, Known DEF Fits
  <2>2. CASE k = running
    <3> DEFINE a == jobs[k]
               b == [a EXCEPT !.plan = TRUE, !.slots = n, !.finds = finds,
                              !.begun = TRUE]
    <3>1. jobs'[k] = b
      BY <1>3, <2>2, <1>1 DEF Shapes
    <3>2. a \in JobRow
      BY Known
    <3>3. /\ b \in JobRow /\ b.state = a.state /\ b.text = a.text
          /\ b.plan /\ b.from = a.from /\ b.slots = n
          /\ b.done = a.done /\ b.attempts = a.attempts
      BY <3>2, <1>3 DEF JobRow
    <3>4. Calling(a) /\ calls[k] > 0
      BY <1>1, <1>3, <2>2, CheckValues DEF Held
    <3>5. n \in Nat
      BY DEF DailyAssumption
    <3> HIDE DEF b
    <3>6. Sound(b, reports[k], calls[k], retries[k], proposed[k],
                remembered[k], gone, reported)
      BY <3>3, <3>4, <3>5, Known DEF Sound, Charges, Proposals, Ends, Calling
    <3>7. QED
      BY <1>1, <3>1, <3>6 DEF Fits
  <2>3. QED
    BY <2>1, <2>2
<1>4. QED
  BY <1>2, <1>3, JudgeTakes DEF Planned

LEMMA ProposeSound ==
  ASSUME DailyAssumption, Shapes, AllSound, Held, Propose, NEW k \in Job
  PROVE  Fits(jobs[k], reports[k], k)'
<1>1. /\ running \in Job /\ place = "planned" /\ More(running)
      /\ UNCHANGED <<reports, gone, calls, retries, remembered, reported>>
      /\ jobs' = [jobs EXCEPT ![running].done = @ + 1,
                              ![running].state = "PARTIAL"]
      /\ proposed' = [proposed EXCEPT ![running] = @ + 1]
  BY TheHeld DEF Propose, world
<1>2. CASE k # running
  <2>1. jobs'[k] = jobs[k] /\ proposed'[k] = proposed[k]
    BY <1>1, <1>2 DEF Shapes
  <2>2. QED
    BY <1>1, <2>1, Known DEF Fits
<1>3. CASE k = running
  <2> DEFINE a == jobs[k]
             n == a.done + 1
             b == [a EXCEPT !.done = n, !.state = "PARTIAL"]
  <2>1. a \in JobRow
    BY Known
  <2>2. jobs'[k] = b /\ proposed'[k] = proposed[k] + 1
    BY <1>1, <1>3 DEF Shapes
  <2>3. n \in Nat /\ n <= a.slots
    BY <1>1, <1>3, <2>1 DEF JobRow, More
  <2> HIDE DEF n
  <2>4. /\ b \in JobRow /\ b.state = "PARTIAL" /\ b.text = a.text
        /\ b.plan = a.plan /\ b.from = a.from /\ b.slots = a.slots
        /\ b.done = n /\ b.attempts = a.attempts
    BY <2>1, <2>3 DEF JobRow
  <2>5. a.state \in {"RUNNING", "QUEUED", "PARTIAL"} /\ (a.plan \/ a.text = 0)
    BY <1>1, <1>3 DEF Held
  <2> HIDE DEF b
  <2>6. proposed'[k] = n
    BY <2>2, Known DEF Sound, Proposals, n
  <2>7. Sound(b, reports[k], calls[k], retries[k], proposed'[k],
              remembered[k], gone, reported)
    BY <2>3, <2>4, <2>5, <2>6, Known DEF Sound, Charges, Proposals, Ends
  <2>8. QED
    BY <1>1, <2>2, <2>7 DEF Fits
<1>4. QED
  BY <1>2, <1>3

(* A first report: from nothing, with all the proposals of its job.        *)
LEMMA ReportSound ==
  ASSUME DailyAssumption, Shapes, AllSound, Held, Report, NEW k \in Job
  PROVE  Fits(jobs[k], reports[k], k)'
<1> DEFINE q == [NoReport EXCEPT !.state = "ACTIVE", !.version = 1,
                                 !.finding = Found(running),
                                 !.called = jobs[running].plan]
<1>1. /\ running \in Job /\ place = "planned" /\ ~More(running)
      /\ UNCHANGED <<gone, calls, retries, proposed, remembered>>
      /\ reports' = [reports EXCEPT ![running] = q]
      /\ reported' = reported \cup (jobs[running].from + 1)..jobs[running].to
      /\ jobs' = [jobs EXCEPT ![running].state = "COMPLETED",
                              ![running].plan = FALSE]
  BY TheHeld DEF Report, world
<1>2. jobs[running].plan \in BOOLEAN /\ Found(running) \in {"pending", "none"}
  BY <1>1, Known DEF JobRow, Found
<1>3. /\ q \in ReportRow /\ q.state = "ACTIVE" /\ q.memory = 0
  BY <1>2 DEF ReportRow, NoReport
<1> HIDE DEF q
<1>4. CASE k # running
  <2>1. jobs'[k] = jobs[k] /\ reports'[k] = reports[k]
    BY <1>1, <1>4 DEF Shapes
  <2>2. Sound(jobs[k], reports[k], calls[k], retries[k], proposed[k],
              remembered[k], gone, reported')
    BY <1>1, Known DEF Sound
  <2>3. QED
    BY <1>1, <2>1, <2>2 DEF Fits
<1>5. CASE k = running
  <2> DEFINE a == jobs[k]
             b == [a EXCEPT !.state = "COMPLETED", !.plan = FALSE]
  <2>1. jobs'[k] = b /\ reports'[k] = q /\ a \in JobRow
    BY <1>1, <1>5, Known DEF Shapes
  <2>2. /\ b \in JobRow /\ b.state = "COMPLETED" /\ b.text = a.text
        /\ ~b.plan /\ b.from = a.from /\ b.slots = a.slots
        /\ b.done = a.done /\ b.attempts = a.attempts
    BY <2>1 DEF JobRow
  <2>3. /\ a.state \in {"RUNNING", "QUEUED", "PARTIAL"}
        /\ ~(a.done < a.slots) /\ a.done \in Nat /\ a.slots \in Nat
    <3>1. Slots \in Nat
      BY DEF DailyAssumption
    <3>2. QED
      BY <1>1, <1>5, <2>1, <3>1 DEF Held, More, JobRow
  <2>4. ~gone /\ reports[k].state = "none" /\ remembered[k] = 0
    <3>1. Ends(a, reports[k], gone) /\ Memories(reports[k], remembered[k])
      BY Known DEF Sound
    <3>2. ~gone
      BY <2>3, <3>1 DEF Ends
    <3>3. reports[k].state = "none"
      BY <2>3, <3>1, <3>2 DEF Ends
    <3>4. QED
      BY <3>1, <3>2, <3>3 DEF Ends, Memories
  <2> HIDE DEF b
  <2>5. Sound(b, q, calls[k], retries[k], proposed[k], remembered[k], gone,
              reported')
    BY <1>1, <1>3, <2>2, <2>3, <2>4, Known
       DEF Sound, Charges, Proposals, Ends, Memories
  <2>6. QED
    BY <1>1, <2>1, <2>5 DEF Fits
<1>6. QED
  BY <1>4, <1>5

(* A new job starts where the last report ended.                           *)
LEMMA EnqueueSound ==
  ASSUME DailyAssumption, Shapes, AllSound, NoChangeLost,
         NEW j \in Job, Enqueue(j), NEW k \in Job
  PROVE  Fits(jobs[k], reports[k], k)'
<1> DEFINE to == Least(change, checkpoint + Limit)
           b == [NoJob EXCEPT !.state = "QUEUED", !.config = config.version,
                   !.text = text, !.from = checkpoint, !.to = to, !.day = day]
<1>1. /\ ~gone /\ jobs[j].state = "none" /\ jobs' = [jobs EXCEPT ![j] = b]
      /\ UNCHANGED <<reports, gone, calls, retries, proposed, remembered, reported>>
  BY DEF Enqueue, world, history
<1>2. /\ Limit \in Nat /\ Slots \in Nat /\ MaxChange \in Nat /\ MaxDay \in Nat
      /\ change \in 0..MaxChange /\ checkpoint \in 0..MaxChange
      /\ config.version \in Nat /\ text \in Nat /\ day \in 0..MaxDay
  BY DEF DailyAssumption, Shapes
<1>3. to \in 0..MaxChange
  BY <1>2 DEF Least
<1>4. day \in Nat /\ checkpoint \in Nat /\ 0 \in 0..Slots
  BY <1>2
<1> HIDE DEF to
<1>5. /\ b \in JobRow /\ b.state = "QUEUED" /\ ~b.plan /\ b.from = checkpoint
      /\ b.slots = 0 /\ b.done = 0 /\ b.attempts = 0
  BY <1>2, <1>3, <1>4 DEF NoJob, JobRow
<1> HIDE DEF b
<1>6. CASE k # j
  <2>1. jobs'[k] = jobs[k]
    BY <1>1, <1>6 DEF Shapes
  <2>2. QED
    BY <1>1, <2>1, Known DEF Fits
<1>7. CASE k = j
  <2>1. jobs'[k] = b
    BY <1>1, <1>7 DEF Shapes
  <2>2. jobs[k].attempts = 0 /\ jobs[k].done = 0 /\ reports[k].state = "none"
    BY <1>1, <1>7, Known DEF Sound, Ends
  <2>3. calls[k] <= 0 /\ proposed[k] = 0
    BY <2>2, Known DEF Sound, Charges, Proposals
  <2>4. Sound(b, reports[k], calls[k], retries[k], proposed[k],
              remembered[k], gone, reported)
    BY <1>1, <1>5, <2>2, <2>3, Known
       DEF Sound, Charges, Proposals, Ends, NoChangeLost
  <2>5. QED
    BY <1>1, <2>1, <2>4 DEF Fits
<1>8. QED
  BY <1>6, <1>7

LEMMA ConfigureSound ==
  ASSUME DailyAssumption, Shapes, AllSound, NEW enabled, Configure(enabled),
         NEW k \in Job
  PROVE  Fits(jobs[k], reports[k], k)'
<1>1. /\ ~gone
      /\ jobs'[k] = IF jobs[k].state \notin Ended \cup {"none", "RUNNING"}
                    THEN Ending(jobs[k], "STALE") ELSE jobs[k]
      /\ UNCHANGED <<reports, gone, calls, retries, proposed, remembered, reported>>
  BY Zenon DEF Configure, history
<1>2. jobs[k].state \notin Ended \cup {"none", "RUNNING"}
        => Fits(Ending(jobs[k], "STALE"), reports[k], k)
  BY <1>1, Known, EndingSound DEF Fits
<1>3. QED
  BY <1>1, <1>2, Known DEF Fits

LEMMA RetrySound ==
  ASSUME DailyAssumption, Shapes, AllSound, NEW j \in Job, Retry(j), NEW k \in Job
  PROVE  Fits(jobs[k], reports[k], k)'
<1>1. /\ ~gone /\ jobs[j].state \notin Ended \cup {"none", "RUNNING"}
      /\ jobs' = [jobs EXCEPT ![j].state = "QUEUED"]
      /\ retries' = [retries EXCEPT ![j] = @ + 1]
      /\ UNCHANGED <<reports, gone, calls, proposed, remembered, reported>>
  BY DEF Retry, world
<1>2. CASE k # j
  <2>1. jobs'[k] = jobs[k] /\ retries'[k] = retries[k]
    BY <1>1, <1>2 DEF Shapes
  <2>2. QED
    BY <1>1, <2>1, Known DEF Fits
<1>3. CASE k = j
  <2> DEFINE a == jobs[k]
             b == [a EXCEPT !.state = "QUEUED"]
  <2>1. jobs'[k] = b /\ retries'[k] = retries[k] + 1 /\ a \in JobRow
    BY <1>1, <1>3, Known DEF Shapes
  <2>2. /\ b \in JobRow /\ b.state = "QUEUED" /\ b.text = a.text
        /\ b.plan = a.plan /\ b.from = a.from /\ b.slots = a.slots
        /\ b.done = a.done /\ b.attempts = a.attempts
    BY <2>1 DEF JobRow
  <2>3. a.attempts \in Nat
    BY <2>1 DEF JobRow
  <2> HIDE DEF b
  <2>4. Sound(b, reports[k], calls[k], retries'[k], proposed[k],
              remembered[k], gone, reported)
    BY <1>1, <1>3, <2>1, <2>2, <2>3, Known DEF Sound, Charges, Proposals, Ends
  <2>5. QED
    BY <1>1, <2>1, <2>4 DEF Fits
<1>4. QED
  BY <1>2, <1>3

LEMMA CancelSound ==
  ASSUME DailyAssumption, Shapes, AllSound, NEW j \in Job, Cancel(j), NEW k \in Job
  PROVE  Fits(jobs[k], reports[k], k)'
<1>1. /\ ~gone /\ jobs[j].state \notin Ended \cup {"none"}
      /\ jobs' = [jobs EXCEPT ![j] = Ending(@, "CANCELLED")]
      /\ UNCHANGED <<reports, gone, calls, retries, proposed, remembered, reported>>
  BY DEF Cancel, world, history
<1>2. CASE k # j
  <2>1. jobs'[k] = jobs[k]
    BY <1>1, <1>2 DEF Shapes
  <2>2. QED
    BY <1>1, <2>1, Known DEF Fits
<1>3. CASE k = j
  <2>1. jobs'[k] = Ending(jobs[k], "CANCELLED")
    BY <1>1, <1>3 DEF Shapes
  <2>2. Fits(Ending(jobs[k], "CANCELLED"), reports[k], k)
    BY <1>1, <1>3, Known, EndingSound DEF Fits
  <2>3. QED
    BY <1>1, <2>1, <2>2 DEF Fits
<1>4. QED
  BY <1>2, <1>3

(* What becomes of the report of job j when the user decides: its sources  *)
(* have been looked at, its text is still there.                           *)
DecidedRow(j, q) ==
  /\ reports' = [Refreshed EXCEPT ![j] = q] /\ q \in ReportRow
  /\ q.state = "ACTIVE" /\ q.called = reports[j].called
  /\ reports[j].state = "ACTIVE" /\ Refreshed[j] = reports[j]
  /\ jobs' = Emptied(jobs)
  /\ \/ q.memory = reports[j].memory /\ remembered' = remembered
     \/ /\ q.memory # 0
        /\ remembered' = [remembered EXCEPT ![j] =
             IF reports[j].memory = 0 THEN @ + 1 ELSE @]

DecideStep(j) == Reject(j) \/ Dispute(j) \/ Save(j) \/ Inspect(j)

LEMMA DecideTakes ==
  ASSUME DailyAssumption, Shapes, AllSound, NEW j \in Job, DecideStep(j)
  PROVE  /\ \E q : /\ DecidedRow(j, q)
                   /\ q.finding # reports[j].finding
                        => reports[j].finding # "none"
         /\ UNCHANGED <<gone, calls, retries, proposed, reported, running, place,
                        up, checkpoint, spent, change, open>>
<1> DEFINE r == reports[j]
           v == r.version + 1
           m == r.memory + 1
           c == r.accepted + 1
<1>1. /\ r \in ReportRow /\ v \in Nat /\ m \in Nat /\ c \in Nat
      /\ m # 0
  BY Known DEF ReportRow
<1> HIDE DEF v, m, c
<1>2. Refreshed[j].state = "ACTIVE" /\ Refreshed \in [Job -> ReportRow]
  BY Tables DEF DecideStep, Reject, Dispute, Save, Inspect, Usable
<1>3. r.state = "ACTIVE" /\ Refreshed[j] = r
  <2>1. CASE Refreshed[j] = r
    BY <1>2, <2>1
  <2>2. CASE Refreshed[j] = [r EXCEPT !.state = "STALE", !.version = @ + 1]
    BY <1>1, <1>2, <2>2, ReportFields
  <2>3. QED
    BY <2>1, <2>2, RefreshedRow
<1>4. UNCHANGED <<gone, calls, retries, proposed, reported, running, place, up,
                  checkpoint, spent, change, open>>
  BY DEF DecideStep, Reject, Dispute, Save, Saved, Inspect, world, history,
         volatile
<1>5. CASE Reject(j)
  <2> DEFINE q == [r EXCEPT !.finding = "suppressed", !.version = v]
  <2>1. q \in ReportRow /\ q.state = r.state /\ q.memory = r.memory
        /\ q.finding = "suppressed" /\ q.called = r.called
    BY <1>1 DEF ReportRow
  <2>2. reports' = [Refreshed EXCEPT ![j] = q]
    BY <1>2, <1>3, <1>5 DEF Reject, v
  <2>3. jobs' = Emptied(jobs) /\ remembered' = remembered /\ r.finding # "none"
    BY <1>5 DEF Reject, history
  <2> HIDE DEF q
  <2>4. DecidedRow(j, q)
    BY <1>3, <2>1, <2>2, <2>3 DEF DecidedRow
  <2>5. QED
    BY <1>4, <2>3, <2>4
<1>6. CASE Dispute(j)
  <2> DEFINE q == [r EXCEPT !.finding = "disputed", !.version = v]
  <2>1. q \in ReportRow /\ q.state = r.state /\ q.memory = r.memory
        /\ q.finding = "disputed" /\ q.called = r.called
    BY <1>1 DEF ReportRow
  <2>2. reports' = [Refreshed EXCEPT ![j] = q]
    BY <1>2, <1>3, <1>6 DEF Dispute, v
  <2>3. jobs' = Emptied(jobs) /\ remembered' = remembered /\ r.finding # "none"
    BY <1>6 DEF Dispute, history
  <2> HIDE DEF q
  <2>4. DecidedRow(j, q)
    BY <1>3, <2>1, <2>2, <2>3 DEF DecidedRow
  <2>5. QED
    BY <1>4, <2>3, <2>4
<1>7. CASE Save(j)
  <2> DEFINE q == [r EXCEPT !.finding = "active", !.version = v, !.memory = m,
                            !.accepted = c]
  <2>1. q \in ReportRow /\ q.state = r.state /\ q.memory = m
        /\ q.finding = "active" /\ q.called = r.called
    BY <1>1 DEF ReportRow
  <2>2. reports' = [Refreshed EXCEPT ![j] = q]
    BY <1>2, <1>3, <1>7 DEF Save, Saved, v, m, c
  <2>3. /\ jobs' = Emptied(jobs) /\ r.finding # "none"
        /\ remembered' = [remembered EXCEPT ![j] =
             IF r.memory = 0 THEN @ + 1 ELSE @]
    BY <1>7 DEF Save, Saved
  <2> HIDE DEF q
  <2>4. DecidedRow(j, q)
    BY <1>1, <1>3, <2>1, <2>2, <2>3 DEF DecidedRow
  <2>5. QED
    BY <1>4, <2>3, <2>4
<1>8. CASE Inspect(j)
  <2>1. reports' = Refreshed /\ jobs' = Emptied(jobs) /\ remembered' = remembered
    BY <1>8 DEF Inspect
  <2>2. reports' = [Refreshed EXCEPT ![j] = r]
    BY <1>2, <1>3, <2>1
  <2>3. DecidedRow(j, r)
    BY <1>1, <1>3, <2>1, <2>2 DEF DecidedRow
  <2>4. QED
    BY <1>4, <2>3
<1>9. QED
  BY <1>5, <1>6, <1>7, <1>8 DEF DecideStep

LEMMA DecideSound ==
  ASSUME DailyAssumption, Shapes, AllSound, NEW j \in Job, DecideStep(j), NEW k \in Job
  PROVE  Fits(jobs[k], reports[k], k)'
<1>1. PICK q : DecidedRow(j, q)
  BY DecideTakes
<1>2. UNCHANGED <<gone, calls, retries, proposed, reported>>
  BY DecideTakes
<1>3. /\ Fits(Emptied(jobs)[k], Refreshed[k], k)
      /\ Refreshed \in [Job -> ReportRow] /\ remembered \in [Job -> Nat]
  BY Known, RefreshFits, Tables DEF Shapes
<1>4. CASE k # j
  <2>1. reports'[k] = Refreshed[k] /\ remembered'[k] = remembered[k]
    BY <1>1, <1>3, <1>4 DEF DecidedRow
  <2>2. QED
    BY <1>1, <1>2, <1>3, <2>1 DEF Fits, DecidedRow
<1>5. CASE k = j
  <2>1. /\ reports'[k] = q /\ q \in ReportRow /\ q.state = "ACTIVE"
        /\ reports[k].state = "ACTIVE" /\ Refreshed[k] = reports[k]
    BY <1>1, <1>3, <1>5 DEF DecidedRow
  <2>2. Memories(reports[k], remembered[k])
    BY Known DEF Sound
  <2>3. Memories(q, remembered'[k])
    BY <1>1, <1>3, <1>5, <2>2, Known DEF DecidedRow, Memories
  <2>4. Sound(Emptied(jobs)[k], q, calls[k], retries[k], proposed[k],
              remembered'[k], gone, reported)
    BY <1>3, <2>1, <2>3 DEF Fits, Sound, Ends
  <2>5. QED
    BY <1>1, <1>2, <2>1, <2>4 DEF Fits, DecidedRow
<1>6. QED
  BY <1>4, <1>5

LEMMA ReadSound ==
  ASSUME Shapes, AllSound, NEW j \in Job, Read(j) \/ MoveMemory(j), NEW k \in Job
  PROVE  Fits(jobs[k], reports[k], k)'
<1> DEFINE r == reports[j]
           v == r.version + 1
           m == r.memory + 1
<1>1. /\ r \in ReportRow /\ v \in Nat /\ m \in Nat /\ m # 0
      /\ reports \in [Job -> ReportRow]
  <2>1. r \in ReportRow
    BY Known
  <2>2. v \in Nat /\ m \in Nat /\ m # 0
    BY <2>1 DEF ReportRow
  <2>3. QED
    BY <2>1, <2>2 DEF Shapes
<1> HIDE DEF v, m
<1>2. UNCHANGED <<jobs, gone, calls, retries, proposed, remembered, reported>>
  BY DEF Read, MoveMemory, world, history
<1>3. PICK q \in ReportRow : /\ reports' = [reports EXCEPT ![j] = q]
                             /\ r.state # "none" /\ q.state = r.state
                             /\ q.memory = r.memory \/ q.memory = m
  <2>1. CASE Read(j)
    <3> DEFINE q == [r EXCEPT !.version = v]
    <3>1. q \in ReportRow /\ q.state = r.state /\ q.memory = r.memory
      BY <1>1 DEF ReportRow
    <3>2. reports' = [reports EXCEPT ![j] = q] /\ r.state # "none"
      BY <1>1, <2>1 DEF Read, v
    <3>3. QED
      BY <3>1, <3>2
  <2>2. CASE MoveMemory(j)
    <3> DEFINE q == [r EXCEPT !.memory = m]
    <3>1. q \in ReportRow /\ q.state = r.state /\ q.memory = m
      BY <1>1 DEF ReportRow
    <3>2. reports' = [reports EXCEPT ![j] = q] /\ r.memory > 0
      BY <1>1, <2>2 DEF MoveMemory, m
    <3>3. r.state # "none"
      BY <3>2, Known, <1>1 DEF Sound, Ends
    <3>4. QED
      BY <3>1, <3>2, <3>3
  <2>3. QED
    BY <2>1, <2>2
<1>4. CASE k # j
  BY <1>1, <1>2, <1>3, <1>4, Known DEF Fits
<1>5. CASE k = j
  <2>1. Sound(jobs[k], q, calls[k], retries[k], proposed[k], remembered[k], gone,
              reported)
    BY <1>1, <1>3, <1>5, Known DEF Sound, Ends, Memories
  <2>2. QED
    BY <1>1, <1>2, <1>3, <1>5, <2>1 DEF Fits
<1>6. QED
  BY <1>4, <1>5

(* What is deleted has ended, and takes its texts with it.                 *)
LEMMA PurgeSound ==
  ASSUME DailyAssumption, Shapes, AllSound, Purge, NEW k \in Job
  PROVE  Fits(jobs[k], reports[k], k)'
<1> DEFINE a == jobs[k]
           r == reports[k]
           b == Ending(a, "CANCELLED")
           q == [r EXCEPT !.state = "SUPPRESSED", !.version = @ + 1]
<1>1. /\ a \in JobRow /\ r \in ReportRow
      /\ Charges(a, calls[k], retries[k]) /\ Proposals(a, proposed[k])
      /\ Ends(a, r, gone) /\ Memories(r, remembered[k])
      /\ 1..a.from \subseteq reported /\ calls[k] \in Nat /\ retries[k] \in Nat
  BY Known DEF Sound
<1>2. /\ ~gone /\ gone' = TRUE
      /\ UNCHANGED <<calls, retries, proposed, remembered, reported>>
      /\ reports' = [i \in Job |->
           IF reports[i].state = "none" THEN NoReport
           ELSE [reports[i] EXCEPT !.state = "SUPPRESSED", !.version = @ + 1]]
      /\ jobs' = [i \in Job |-> IF jobs[i].state = "none" THEN NoJob
                                ELSE Ending(jobs[i], "CANCELLED")]
  BY DEF Purge, history
<1>3. /\ reports'[k] = IF r.state = "none" THEN NoReport ELSE q
      /\ jobs'[k] = IF a.state = "none" THEN NoJob ELSE b
  BY <1>2, Zenon
<1>4. /\ q \in ReportRow /\ q.state = "SUPPRESSED" /\ q.memory = r.memory
      /\ NoReport \in ReportRow /\ NoReport.state = "none"
      /\ NoReport.memory = 0 /\ NoReport.finding = "none" /\ ~NoReport.called
  BY <1>1, ReportFields DEF NoReport, ReportRow
<1>5. /\ b \in JobRow /\ b.state = "CANCELLED" /\ b.text = 0
      /\ b.slots = a.slots /\ b.done = a.done /\ b.attempts = a.attempts
      /\ ~b.plan \/ b.plan = a.plan
      /\ b.from = a.from \/ b.from = 0
  BY <1>1, EndingFields
<1>6. 0 \in 0..MaxChange /\ 0 \in 0..Slots
  BY DEF DailyAssumption
<1>7. /\ NoJob \in JobRow /\ NoJob.state = "none" /\ ~NoJob.plan
      /\ NoJob.text = 0 /\ NoJob.from = 0 /\ NoJob.slots = 0 /\ NoJob.done = 0
      /\ NoJob.attempts = 0
  BY <1>6 DEF NoJob, JobRow
<1> HIDE DEF b, q
<1>8. CASE a.state = "none"
  <2>1. a.attempts = 0 /\ a.done = 0 /\ r.state = "none" /\ r.memory = 0
    BY <1>1, <1>2, <1>8 DEF Ends
  <2>2. calls[k] <= 0 /\ proposed[k] = 0
    BY <1>1, <2>1 DEF Charges, Proposals
  <2>3. Sound(NoJob, NoReport, calls[k], retries[k], proposed[k], remembered[k],
              TRUE, reported)
    BY <1>1, <1>4, <1>7, <2>1, <2>2
       DEF Sound, Charges, Proposals, Ends, Memories
  <2>4. QED
    BY <1>2, <1>3, <1>8, <2>1, <2>3 DEF Fits
<1>9. CASE a.state # "none"
  <2> DEFINE s == IF r.state = "none" THEN NoReport ELSE q
  <2>1. /\ s \in ReportRow
        /\ s.state = "none" <=> r.state = "none"
        /\ s.memory = r.memory
        /\ s.state = "none" => s.finding = "none" /\ ~s.called
    BY <1>1, <1>4 DEF Ends
  <2> HIDE DEF s
  <2>2. Charges(b, calls[k], retries[k])
    BY <1>1, <1>5 DEF Charges
  <2>3. Proposals(b, proposed[k])
    BY <1>1, <1>5 DEF Proposals
  <2>4. Ends(b, s, TRUE)
    <3>1. s.state # "none" => b.done = b.slots
      BY <1>1, <1>5, <2>1 DEF Ends
    <3>2. s.state = "none" => s.memory = 0 /\ s.finding = "none" /\ ~s.called
      BY <1>1, <2>1 DEF Ends
    <3>3. QED
      BY <1>5, <3>1, <3>2 DEF Ends
  <2>5. Memories(s, remembered[k])
    BY <1>1, <2>1 DEF Memories
  <2>6. 1..b.from \subseteq reported
    BY <1>1, <1>5
  <2>7. Sound(b, s, calls[k], retries[k], proposed[k], remembered[k], TRUE,
              reported)
    BY <1>5, <2>1, <2>2, <2>3, <2>4, <2>5, <2>6 DEF Sound
  <2>8. QED
    BY <1>2, <1>3, <1>9, <2>7 DEF Fits, s
<1>10. QED
  BY <1>8, <1>9

(* A job that was cut short is queued with its plan, or left to the user.  *)
LEMMA RestartSound ==
  ASSUME Shapes, AllSound, Restart, NEW k \in Job
  PROVE  Fits(jobs[k], reports[k], k)'
<1> DEFINE a == jobs[k]
<1>1. /\ UNCHANGED <<reports, gone, calls, retries, proposed, remembered, reported>>
      /\ jobs'[k] = Recovered(k)
  BY DEF Restart, world, history
<1>2. CASE a.state # "RUNNING"
  <2>1. jobs'[k] = jobs[k]
    BY <1>1, <1>2 DEF Recovered
  <2>2. QED
    BY <1>1, <2>1, Known DEF Fits
<1>3. CASE a.state = "RUNNING"
  <2> DEFINE s == IF a.plan THEN "QUEUED" ELSE "REMOTE_UNKNOWN"
             b == [a EXCEPT !.state = s]
  <2>1. jobs'[k] = b
    BY <1>1, <1>3 DEF Recovered
  <2>2. a \in JobRow /\ s \in States
    BY Known
  <2>3. s \in {"QUEUED", "REMOTE_UNKNOWN"} /\ (s = "QUEUED" => a.plan)
    OBVIOUS
  <2> HIDE DEF s
  <2>4. /\ b \in JobRow /\ b.state = s /\ b.text = a.text /\ b.plan = a.plan
        /\ b.from = a.from /\ b.slots = a.slots /\ b.done = a.done
        /\ b.attempts = a.attempts
    BY <2>2 DEF JobRow
  <2> HIDE DEF b
  <2>5. Sound(b, reports[k], calls[k], retries[k], proposed[k], remembered[k],
              gone, reported)
    BY <1>3, <2>3, <2>4, Known DEF Sound, Charges, Proposals, Ends
  <2>6. QED
    BY <1>1, <2>1, <2>5 DEF Fits
<1>4. QED
  BY <1>2, <1>3

(* Every other step leaves jobs, reports and what they are judged by.      *)
LEMMA SoundFrame ==
  ASSUME [Next]_vars
  PROVE  \/ UNCHANGED <<jobs, reports, gone, calls, retries, proposed,
                        remembered, reported>>
         \/ Tick \/ Send \/ Judge \/ Propose \/ ApplyFails \/ Report \/ AnswerLost
         \/ (\E enabled \in BOOLEAN : Configure(enabled)) \/ Purge \/ Restart
         \/ \E j \in Job : \/ Execute(j) \/ Enqueue(j) \/ Retry(j) \/ Cancel(j)
                           \/ DecideStep(j) \/ Read(j) \/ MoveMemory(j)
BY DEF Next, PumpStep, AnswerStep, UserStep, WorldStep, vars, durable, world,
     volatile, history, bounds, Answer, MoveText, MoveConnection, EditItem,
     Midnight, Halt, DecideStep

LEMMA SoundStep ==
  ASSUME DailyAssumption, DailyInv, [Next]_vars
  PROVE  AllSound'
<1>1. Shapes /\ AllSound /\ Held /\ NoChangeLost
  BY DEF DailyInv
<1>2. SUFFICES ASSUME NEW k \in Job PROVE Fits(jobs[k], reports[k], k)'
  BY DEF AllSound
<1>3. CASE UNCHANGED <<jobs, reports, gone, calls, retries, proposed,
                       remembered, reported>>
  BY <1>1, <1>3, Known DEF Fits
<1>4. CASE ApplyFails
  BY <1>1, <1>4, FailSound DEF ApplyFails, world, history
<1>5. CASE AnswerLost
  BY <1>1, <1>5, FailSound DEF AnswerLost, world, history
<1>6. CASE Tick \/ Send \/ Judge \/ Propose \/ Report
  BY <1>1, <1>6, TickSound, SendSound, JudgeSound, ProposeSound, ReportSound
<1>7. CASE (\E enabled \in BOOLEAN : Configure(enabled)) \/ Purge \/ Restart
  BY <1>1, <1>7, ConfigureSound, PurgeSound, RestartSound
<1>8. ASSUME NEW j \in Job, \/ Execute(j) \/ Enqueue(j) \/ Retry(j) \/ Cancel(j)
                            \/ DecideStep(j) \/ Read(j) \/ MoveMemory(j)
      PROVE  Fits(jobs[k], reports[k], k)'
  BY <1>1, <1>8, ExecuteSound, EnqueueSound, RetrySound, CancelSound, DecideSound,
     ReadSound
<1>9. QED
  BY <1>3, <1>4, <1>5, <1>6, <1>7, <1>8, SoundFrame

(***************************************************************************)
(* Every step keeps the shapes.                                            *)
(***************************************************************************)
(* f is a function of the jobs.                                            *)
OfJobs(f) == f = [k \in Job |-> f[k]]

LEMMA OfJobsTyped ==
  ASSUME NEW S, NEW f, OfJobs(f), \A k \in Job : f[k] \in S
  PROVE  f \in [Job -> S]
BY DEF OfJobs

LEMMA OfJobsExcept ==
  ASSUME NEW f, OfJobs(f), NEW j, NEW x
  PROVE  OfJobs([f EXCEPT ![j] = x])
BY DEF OfJobs

LEMMA RowsStep ==
  ASSUME DailyAssumption, DailyInv, [Next]_vars, AllSound'
  PROVE  jobs' \in [Job -> JobRow] /\ reports' \in [Job -> ReportRow]
<1>1. /\ jobs \in [Job -> JobRow] /\ reports \in [Job -> ReportRow]
      /\ OfJobs(jobs) /\ OfJobs(reports)
  BY DEF DailyInv, Shapes, OfJobs
<1>2. /\ Ticked \in [Job -> JobRow] /\ Emptied(jobs) \in [Job -> JobRow]
      /\ Refreshed \in [Job -> ReportRow]
  BY Tables DEF DailyInv
<1>3. Shapes /\ AllSound /\ Held
  BY DEF DailyInv
<1>4. (\A k \in Job : jobs'[k] \in JobRow /\ reports'[k] \in ReportRow)
  BY DEF AllSound, Fits, Sound
<1>5. SUFFICES OfJobs(jobs') /\ OfJobs(reports')
  BY <1>4, OfJobsTyped
<1>6. OfJobs(Ticked) /\ OfJobs(Emptied(jobs)) /\ OfJobs(Refreshed)
  BY <1>2 DEF OfJobs
<1>7. CASE UNCHANGED <<jobs, reports, gone, calls, retries, proposed,
                       remembered, reported>>
  BY <1>1, <1>7 DEF OfJobs
<1>8. ASSUME place # "rest", NEW code, jobs' = Caught(jobs, running, code),
             reports' = reports
      PROVE  OfJobs(jobs') /\ OfJobs(reports')
  BY <1>1, <1>3, <1>8, TheHeld, CaughtTable DEF OfJobs
<1>9. CASE Tick
  BY <1>6, <1>9 DEF Tick
<1>10. CASE Send
  BY <1>1, <1>10 DEF Send, durable, OfJobs
<1>11. CASE Judge
  <2>1. place # "rest" /\ reports' = reports
    BY <1>11 DEF Judge
  <2>2. ASSUME NEW n, NEW finds,
               jobs' = [jobs EXCEPT ![running].plan = TRUE, ![running].slots = n,
                                    ![running].finds = finds,
                                    ![running].begun = TRUE]
        PROVE  OfJobs(jobs')
    BY <1>1, <2>2 DEF OfJobs
  <2>3. QED
    BY <1>1, <1>3, <1>8, <1>11, <2>1, <2>2, JudgeTakes DEF Planned
<1>12. CASE Propose
  <2>1. /\ reports' = reports
        /\ jobs' = [jobs EXCEPT ![running].done = @ + 1,
                                ![running].state = "PARTIAL"]
    BY <1>12 DEF Propose
  <2>2. QED
    BY <1>1, <2>1 DEF OfJobs
<1>13. CASE ApplyFails
  BY <1>8, <1>13 DEF ApplyFails
<1>14. CASE Report
  <2>1. \E q : reports' = [reports EXCEPT ![running] = q]
    BY <1>14 DEF Report
  <2>2. jobs' = [jobs EXCEPT ![running].state = "COMPLETED",
                             ![running].plan = FALSE]
    BY <1>14 DEF Report
  <2>3. QED
    BY <1>1, <2>1, <2>2 DEF OfJobs
<1>15. CASE AnswerLost
  BY <1>8, <1>15 DEF AnswerLost
<1>16. CASE \E enabled \in BOOLEAN : Configure(enabled)
  BY <1>1, <1>16 DEF Configure, OfJobs
<1>17. CASE Purge
  BY <1>17 DEF Purge, OfJobs
<1>18. CASE Restart
  BY <1>1, <1>18 DEF Restart, OfJobs
<1>19. ASSUME NEW j \in Job, Execute(j)
       PROVE  OfJobs(jobs') /\ OfJobs(reports')
  <2>1. reports' = Refreshed
    BY <1>19 DEF Execute
  <2>2. CASE jobs' = Caught(Ticked, j, Check(j))
    BY <1>2, <2>2, <2>1, <1>6, CaughtTable DEF OfJobs
  <2>3. CASE \E s : jobs' = [Ticked EXCEPT ![j].begun = TRUE, ![j].state = s]
    BY <1>6, <2>1, <2>3 DEF OfJobs
  <2>4. CASE jobs' = Caught([Ticked EXCEPT ![j].day = day], j, "BUDGET_EXHAUSTED")
    <3>1. day \in Nat /\ Ticked[j] \in JobRow
      BY <1>2, <1>3 DEF Shapes, DailyAssumption
    <3>2. [Ticked[j] EXCEPT !.day = day] \in JobRow
      BY <3>1 DEF JobRow
    <3>3. [Ticked EXCEPT ![j].day = day] \in [Job -> JobRow]
      BY <1>2, <3>2
    <3>4. jobs' \in [Job -> JobRow]
      BY <2>4, <3>3, CaughtTable
    <3>5. QED
      BY <3>4, <2>1, <1>6 DEF OfJobs
  <2>5. CASE jobs' = [Ticked EXCEPT ![j].state = "RUNNING", ![j].day = day,
                                    ![j].attempts = @ + 1]
    BY <1>6, <2>1, <2>5 DEF OfJobs
  <2>6. QED
    BY <1>19, <2>2, <2>3, <2>4, <2>5 DEF Execute
<1>20. ASSUME NEW j \in Job, Enqueue(j) \/ Cancel(j)
       PROVE  OfJobs(jobs') /\ OfJobs(reports')
  <2>1. PICK x : jobs' = [jobs EXCEPT ![j] = x]
    BY <1>20 DEF Enqueue, Cancel
  <2>2. reports' = reports
    BY <1>20 DEF Enqueue, Cancel
  <2>3. OfJobs(jobs')
    BY <1>1, <2>1, OfJobsExcept
  <2>4. QED
    BY <1>1, <2>2, <2>3
<1>21. ASSUME NEW j \in Job, Retry(j)
       PROVE  OfJobs(jobs') /\ OfJobs(reports')
  <2>1. jobs' = [jobs EXCEPT ![j].state = "QUEUED"] /\ reports' = reports
    BY <1>21 DEF Retry
  <2>2. QED
    BY <1>1, <2>1 DEF OfJobs
<1>22. ASSUME NEW j \in Job, DecideStep(j)
       PROVE  OfJobs(jobs') /\ OfJobs(reports')
  <2>1. PICK q : DecidedRow(j, q)
    BY <1>3, <1>22, DecideTakes
  <2>2. QED
    BY <1>6, <2>1, OfJobsExcept DEF DecidedRow
<1>23. ASSUME NEW j \in Job, Read(j) \/ MoveMemory(j)
       PROVE  OfJobs(jobs') /\ OfJobs(reports')
  <2>1. \/ reports' = [reports EXCEPT ![j].version = @ + 1]
        \/ reports' = [reports EXCEPT ![j].memory = @ + 1]
    BY <1>23 DEF Read, MoveMemory
  <2>2. jobs' = jobs
    BY <1>23 DEF Read, MoveMemory
  <2>3. QED
    BY <1>1, <2>1, <2>2 DEF OfJobs
<1>24. QED
  BY <1>7, <1>9, <1>10, <1>11, <1>12, <1>13, <1>14, <1>15, <1>16, <1>17, <1>18,
     <1>19, <1>20, <1>21, <1>22, <1>23, SoundFrame

(* Which steps touch the rest.                                             *)
LEMMA WorldFrame ==
  ASSUME [Next]_vars
  PROVE  /\ \/ UNCHANGED <<config, granted>>
            \/ (\E enabled \in BOOLEAN : Configure(enabled)) \/ MoveConnection
         /\ UNCHANGED text \/ MoveText
         /\ UNCHANGED change \/ EditItem
         /\ UNCHANGED gone \/ Purge
         /\ UNCHANGED day \/ Midnight
         /\ UNCHANGED checkpoint \/ Report
         /\ UNCHANGED suppressed \/ (\E j \in Job : Reject(j))
         /\ UNCHANGED spent \/ (\E j \in Job : Execute(j))
         /\ \/ UNCHANGED open \/ AnswerStep \/ Restart
            \/ \E j \in Job : Execute(j)
BY DEF Next, PumpStep, AnswerStep, UserStep, WorldStep, vars, durable, world,
     volatile, history, bounds, Answer, MoveText, MoveConnection, EditItem,
     Midnight, Halt, Tick, Execute, Send, Judge, Propose, ApplyFails, Report,
     AnswerLost, Configure, Enqueue, Retry, Cancel, Reject, Dispute, Save, Saved,
     Inspect, Read, MoveMemory, Purge, Restart

LEMMA HistoryFrame ==
  ASSUME [Next]_vars
  PROVE  /\ UNCHANGED calls \/ Send
         /\ UNCHANGED proposed \/ Propose
         /\ UNCHANGED retries \/ (\E j \in Job : Retry(j))
         /\ UNCHANGED reported \/ Report
         /\ UNCHANGED remembered \/ (\E j \in Job : Save(j))
         /\ UNCHANGED shown \/ (\E j \in Job : Inspect(j))
BY DEF Next, PumpStep, AnswerStep, UserStep, WorldStep, vars, durable, world,
     volatile, history, bounds, Answer, MoveText, MoveConnection, EditItem,
     Midnight, Halt, Tick, Execute, Send, Judge, Propose, ApplyFails, Report,
     AnswerLost, Configure, Enqueue, Retry, Cancel, Reject, Dispute, Save, Saved,
     Inspect, Read, MoveMemory, Purge, Restart

(* What the pump holds changes only with its own steps and with exits; what *)
(* aborts it is done while it rests or its call is out.                     *)
LEMMA PumpFrame ==
  ASSUME [Next]_vars
  PROVE  \/ UNCHANGED <<up, running, place>>
         \/ Send \/ Judge \/ ApplyFails \/ Report \/ AnswerLost \/ Halt \/ Restart
         \/ (\E r \in Results : Answer(r)) \/ \E j \in Job : Execute(j)
BY DEF Next, PumpStep, AnswerStep, UserStep, WorldStep, vars, durable, world,
     volatile, history, bounds, MoveText, MoveConnection, EditItem, Midnight,
     Tick, Propose, Configure, Enqueue, Retry, Cancel, Reject, Dispute, Save,
     Inspect, Read, MoveMemory, Purge

LEMMA AbortFrame ==
  ASSUME [Next]_vars
  PROVE  \/ UNCHANGED aborted
         \/ Judge \/ ApplyFails \/ Report \/ AnswerLost \/ Halt \/ MoveConnection
         \/ (\E enabled \in BOOLEAN : Configure(enabled)) \/ Purge
         \/ \E j \in Job : Execute(j) \/ Cancel(j)
BY DEF Next, PumpStep, AnswerStep, UserStep, WorldStep, vars, durable, world,
     volatile, history, bounds, MoveText, EditItem, Midnight, Tick, Send, Answer,
     Propose, Goto, Enqueue, Retry, Reject, Dispute, Save, Inspect, Read,
     MoveMemory, Restart

LEMMA WorldShapes ==
  ASSUME DailyAssumption, DailyInv, [Next]_vars
  PROVE  /\ config' \in [version : Nat, enabled : BOOLEAN]
         /\ text' \in Nat /\ change' \in 0..MaxChange
         /\ checkpoint' \in 0..MaxChange
         /\ gone' \in BOOLEAN /\ granted' \in BOOLEAN /\ suppressed' \in BOOLEAN
         /\ day' \in 0..MaxDay /\ spent' \in [0..MaxDay -> Nat]
<1>1. /\ Shapes /\ AllSound /\ Held /\ MaxChange \in Nat /\ MaxDay \in Nat
  BY DEF DailyInv, DailyAssumption
<1>2. config' \in [version : Nat, enabled : BOOLEAN] /\ granted' \in BOOLEAN
  <2>1. CASE UNCHANGED <<config, granted>>
    BY <1>1, <2>1 DEF Shapes
  <2>2. ASSUME NEW enabled \in BOOLEAN, Configure(enabled)
        PROVE  /\ config' \in [version : Nat, enabled : BOOLEAN]
               /\ granted' \in BOOLEAN
    BY <1>1, <2>2 DEF Configure, Shapes
  <2>3. CASE MoveConnection
    BY <1>1, <2>3 DEF MoveConnection, Shapes
  <2>4. QED
    BY <2>1, <2>2, <2>3, WorldFrame
<1>3. text' \in Nat /\ change' \in 0..MaxChange /\ gone' \in BOOLEAN
  <2>1. UNCHANGED text \/ text' = text + 1
    BY WorldFrame DEF MoveText
  <2>2. UNCHANGED change \/ (change < MaxChange /\ change' = change + 1)
    BY WorldFrame DEF EditItem
  <2>3. UNCHANGED gone \/ gone' = TRUE
    BY WorldFrame DEF Purge
  <2>4. QED
    <3>1. text \in Nat /\ change \in 0..MaxChange /\ gone \in BOOLEAN
      BY <1>1 DEF Shapes
    <3>2. text' \in Nat /\ change' \in 0..MaxChange
      BY <1>1, <2>1, <2>2, <3>1
    <3>3. gone' \in BOOLEAN
      BY <2>3, <3>1, Zenon
    <3>4. QED
      BY <3>2, <3>3
<1>4. day' \in 0..MaxDay
  BY <1>1, WorldFrame DEF Midnight, Shapes
<1>5. checkpoint' \in 0..MaxChange
  <2>1. CASE Report
    <3>1. jobs[running].to \in 0..MaxChange
      BY <1>1, <2>1, TheHeld, Known DEF Report, JobRow
    <3>2. QED
      BY <1>1, <2>1, <3>1 DEF Report, Consumed, Shapes
  <2>2. QED
    BY <1>1, <2>1, WorldFrame DEF Shapes
<1>6. suppressed' \in BOOLEAN
  BY <1>1, WorldFrame DEF Reject, Shapes
<1>7. spent' \in [0..MaxDay -> Nat]
  <2>1. ASSUME NEW j \in Job, Execute(j)
        PROVE  spent' \in [0..MaxDay -> Nat]
    <3>1. UNCHANGED spent \/ spent' = [spent EXCEPT ![day] = @ + 1]
      BY <2>1, Zenon DEF Execute
    <3>2. QED
      BY <1>1, <3>1 DEF Shapes
  <2>2. QED
    BY <1>1, <2>1, WorldFrame DEF Shapes
<1>8. QED
  BY <1>2, <1>3, <1>4, <1>5, <1>6, <1>7

LEMMA HistoryShapes ==
  ASSUME DailyAssumption, DailyInv, [Next]_vars
  PROVE  /\ calls' \in [Job -> Nat] /\ proposed' \in [Job -> Nat]
         /\ retries' \in [Job -> Nat] /\ remembered' \in [Job -> Nat]
         /\ open' \in [Job -> {"none", "SENDING", "SETTLED", "UNKNOWN"}]
<1>1. /\ calls \in [Job -> Nat] /\ proposed \in [Job -> Nat]
      /\ retries \in [Job -> Nat] /\ remembered \in [Job -> Nat]
      /\ open \in [Job -> {"none", "SENDING", "SETTLED", "UNKNOWN"}]
  BY DEF DailyInv, Shapes
<1>2. calls' \in [Job -> Nat]
  <2>1. \/ UNCHANGED calls
        \/ (calls' = [calls EXCEPT ![running] = @ + 1])
    BY HistoryFrame DEF Send
  <2>2. QED
    BY <1>1, <2>1
<1>3. proposed' \in [Job -> Nat]
  <2>1. \/ UNCHANGED proposed
        \/ (proposed' = [proposed EXCEPT ![running] = @ + 1])
    BY HistoryFrame DEF Propose
  <2>2. QED
    BY <1>1, <2>1
<1>4. retries' \in [Job -> Nat]
  <2>1. \/ UNCHANGED retries
        \/ (\E j \in Job : retries' = [retries EXCEPT ![j] = @ + 1])
    BY HistoryFrame DEF Retry
  <2>2. QED
    BY <1>1, <2>1
<1>5. remembered' \in [Job -> Nat]
  <2>1. \/ UNCHANGED remembered
        \/ (\E j \in Job : remembered' = [remembered EXCEPT ![j] =
                                              IF reports[j].memory = 0 THEN @ + 1 ELSE @])
    BY HistoryFrame DEF Save, Saved
  <2>2. QED
    BY <1>1, <2>1
<1>6. open' \in [Job -> {"none", "SENDING", "SETTLED", "UNKNOWN"}]
  <2>1. ASSUME NEW j \in Job, Execute(j)
        PROVE  open' \in [Job -> {"none", "SENDING", "SETTLED", "UNKNOWN"}]
    <3>1. UNCHANGED open \/ open' = [open EXCEPT ![j] = "SENDING"]
      BY <2>1, Zenon DEF Execute
    <3>2. QED
      BY <1>1, <3>1
  <2>2. CASE AnswerStep
    <3>1. \/ UNCHANGED open
          \/ \E s \in {"SETTLED", "UNKNOWN"} : open' = [open EXCEPT ![running] = s]
      BY <2>2 DEF AnswerStep, Answer, AnswerLost
    <3>2. QED
      BY <1>1, <3>1
  <2>3. CASE Restart
    BY <1>1, <2>3 DEF Restart
  <2>4. QED
    BY <1>1, <2>1, <2>2, <2>3, WorldFrame
<1>7. QED
  BY <1>2, <1>3, <1>4, <1>5, <1>6

LEMMA PumpShapes ==
  ASSUME DailyAssumption, DailyInv, [Next]_vars
  PROVE  /\ up' \in BOOLEAN /\ running' \in Job \cup {None} /\ place' \in Places
         /\ aborted' \in BOOLEAN
<1>1. Shapes /\ Held
  BY DEF DailyInv
<1>2. aborted' \in BOOLEAN
  BY <1>1, AbortFrame DEF Shapes, Judge, ApplyFails, Report, AnswerLost, Halt,
     MoveConnection, Configure, Purge, Execute, Cancel, Rest, Goto, volatile
<1>3. up' \in BOOLEAN /\ running' \in Job \cup {None} /\ place' \in Places
  BY <1>1, PumpFrame DEF Shapes, Send, Judge, ApplyFails, Report, AnswerLost,
     Halt, Restart, Answer, Execute, Rest, Goto, volatile
<1>4. QED
  BY <1>2, <1>3

LEMMA ShapesStep ==
  ASSUME DailyAssumption, DailyInv, [Next]_vars
  PROVE  Shapes'
BY SoundStep, RowsStep, WorldShapes, HistoryShapes, PumpShapes DEF Shapes

(***************************************************************************)
(* Every step keeps what is known of the job the pump holds.               *)
(***************************************************************************)
LEMMA RestHeld ==
  ASSUME place' = "rest", running' = None
  PROVE  Held'
BY DEF Held

(* The user and the rest of the program come in between while the pump     *)
(* rests or the call is out: the job stays as it is, or is cancelled.      *)
LEMMA HeldKept ==
  ASSUME Held, UNCHANGED <<up, running, place, calls>>, place # "rest",
         \/ jobs'[running] = jobs[running]
         \/ jobs'[running].state = "CANCELLED" /\ place = "sent"
  PROVE  Held'
BY DEF Held

LEMMA BetweenHeld ==
  ASSUME DailyAssumption, DailyInv, [Next]_vars, UNCHANGED <<up, running, place>>,
         place # "rest"
  PROVE  Held'
<1>1. /\ Shapes /\ AllSound /\ Held /\ running \in Job
      /\ jobs[running] \in JobRow /\ jobs \in [Job -> JobRow]
  BY TheHeld, Known DEF DailyInv, Shapes
<1> DEFINE a == jobs[running]
<1>2. UNCHANGED calls
  BY HistoryFrame DEF Send, Goto
<1>3. place = "sent" =>
        \/ a.state = "CANCELLED"
        \/ Calling(a) /\ reports[running].state = "none"
  <2>1. Ends(a, reports[running], gone)
    BY <1>1, Known DEF Sound
  <2>2. Calling(a) => reports[running].state = "none"
    BY <2>1 DEF Calling, Ends
  <2>3. QED
    BY <1>1, <2>2 DEF Held
<1>4. CASE UNCHANGED jobs
  BY <1>1, <1>2, <1>4, HeldKept
<1>5. CASE Propose
  <2> DEFINE n == a.done + 1
             b == [a EXCEPT !.done = n, !.state = "PARTIAL"]
  <2>1. place = "planned" /\ jobs'[running] = b
    BY <1>1, <1>5 DEF Propose
  <2>2. b.state = "PARTIAL" /\ b.plan = a.plan /\ b.text = a.text
    BY <1>1 DEF JobRow
  <2>3. a.plan \/ a.text = 0
    BY <1>1, <2>1 DEF Held
  <2> HIDE DEF b
  <2>4. QED
    BY <1>1, <1>2, <2>1, <2>2, <2>3 DEF Held
<1>6. CASE Tick
  <2>1. place = "sent" /\ jobs' = Ticked
    BY <1>6 DEF Tick, Free
  <2>2. jobs'[running] = a \/ jobs'[running].state = "CANCELLED"
    BY <1>1, <1>3, <2>1, TickedFits DEF Calling
  <2>3. QED
    BY <1>1, <1>2, <2>1, <2>2, HeldKept
<1>7. ASSUME NEW enabled \in BOOLEAN, Configure(enabled)
      PROVE  Held'
  <2>1. place = "sent" /\ jobs' =
          [j \in Job |-> IF jobs[j].state \notin Ended \cup {"none", "RUNNING"}
                         THEN Ending(jobs[j], "STALE") ELSE jobs[j]]
    BY <1>7 DEF Configure, Free
  <2>2. jobs'[running] = a
    BY <1>1, <1>3, <2>1 DEF Calling
  <2>3. QED
    BY <1>1, <1>2, <2>2, HeldKept
<1>8. CASE Purge
  <2>1. /\ place = "sent" /\ a.state \in Ended \cup {"none"}
        /\ jobs'[running] = IF a.state = "none" THEN NoJob
                            ELSE Ending(a, "CANCELLED")
    BY <1>1, <1>8 DEF Purge, Free
  <2>2. jobs'[running].state = "CANCELLED"
    BY <1>1, <1>3, <2>1, EndingFields DEF Calling
  <2>3. QED
    BY <1>1, <1>2, <2>1, <2>2, HeldKept
<1>9. ASSUME NEW j \in Job, Enqueue(j) \/ Retry(j)
      PROVE  Held'
  <2>1. /\ place = "sent" /\ jobs[j].state \notin {"RUNNING", "CANCELLED"}
        /\ \/ \E x : jobs' = [jobs EXCEPT ![j] = x]
           \/ jobs' = [jobs EXCEPT ![j].state = "QUEUED"]
    BY <1>9 DEF Enqueue, Retry, Free
  <2>2. j # running
    BY <1>3, <2>1 DEF Calling
  <2>3. jobs'[running] = a
    BY <1>1, <2>1, <2>2
  <2>4. QED
    BY <1>1, <1>2, <2>3, HeldKept
<1>10. ASSUME NEW j \in Job, Cancel(j)
       PROVE  Held'
  <2>1. place = "sent" /\ jobs' = [jobs EXCEPT ![j] = Ending(@, "CANCELLED")]
    BY <1>10 DEF Cancel, Free
  <2>2. jobs'[running] = a \/ jobs'[running].state = "CANCELLED"
    BY <1>1, <2>1, EndingFields
  <2>3. QED
    BY <1>1, <1>2, <2>1, <2>2, HeldKept
<1>11. ASSUME NEW j \in Job, DecideStep(j)
       PROVE  Held'
  <2>1. place = "sent" /\ jobs' = Emptied(jobs)
    BY <1>11 DEF DecideStep, Reject, Dispute, Save, Inspect, Usable, Free
  <2>2. /\ jobs'[running] \in {a, Cleared(a)}
        /\ reports[running].state # "ACTIVE" => jobs'[running] = a
    BY <1>1, <2>1, Known, RefreshFits
  <2>3. jobs'[running] = a \/ jobs'[running].state = "CANCELLED"
    BY <1>1, <1>3, <2>1, <2>2, ClearedFields
  <2>4. QED
    BY <1>1, <1>2, <2>1, <2>3, HeldKept
<1>12. ASSUME NEW j \in Job, Read(j) \/ MoveMemory(j)
       PROVE  Held'
  BY <1>4, <1>12 DEF Read, MoveMemory
<1>13. CASE Send \/ Judge \/ ApplyFails \/ Report \/ AnswerLost \/ Restart
            \/ \E j \in Job : Execute(j)
  <2>1. Restart => place = "rest"
    BY <1>1 DEF Restart, Held
  <2>2. QED
    BY <1>13, <2>1 DEF Send, Judge, ApplyFails, Report, AnswerLost, Execute, Rest,
       Goto
<1>14. QED
  BY <1>4, <1>5, <1>6, <1>7, <1>8, <1>9, <1>10, <1>11, <1>12, <1>13, SoundFrame

LEMMA ExecuteHeld ==
  ASSUME DailyAssumption, DailyInv, NEW j \in Job, Execute(j)
  PROVE  Held'
<1> DEFINE job == Ticked[j]
<1>1. /\ Shapes /\ AllSound /\ Held /\ job \in JobRow /\ place = "rest" /\ up
      /\ running = None /\ Ticked \in [Job -> JobRow] /\ None \notin Job
      /\ calls[j] \in Nat /\ calls' = calls /\ up' = up
      /\ Sound(job, Refreshed[j], calls[j], retries[j], proposed[j],
               remembered[j], gone, reported)
  BY Tables, TickedFits, Known
     DEF DailyInv, DailyAssumption, Execute, Held, history, Fits
<1>2. CASE UNCHANGED volatile
  BY <1>1, <1>2, RestHeld DEF volatile
<1>3. ASSUME job.plan \/ job.text = 0, NEW s \in {"QUEUED", "RUNNING"},
             jobs' = [Ticked EXCEPT ![j].begun = TRUE, ![j].state = s],
             running' = j, place' = "planned"
      PROVE  Held'
  <2> DEFINE b == [job EXCEPT !.begun = TRUE, !.state = s]
  <2>1. jobs'[j] = b
    BY <1>1, <1>3
  <2>2. b.state = s /\ b.plan = job.plan /\ b.text = job.text
    BY <1>1 DEF JobRow
  <2> HIDE DEF b
  <2>3. QED
    BY <1>1, <1>3, <2>1, <2>2 DEF Held
<1>4. ASSUME ~job.plan, job.text # 0,
             jobs' = [Ticked EXCEPT ![j].state = "RUNNING", ![j].day = day,
                                    ![j].attempts = @ + 1],
             running' = j, place' = "reserved"
      PROVE  Held'
  <2> DEFINE n == job.attempts + 1
             b == [job EXCEPT !.state = "RUNNING", !.day = day, !.attempts = n]
  <2>1. jobs'[j] = b
    BY <1>1, <1>4
  <2>2. job.attempts \in Nat /\ calls[j] <= job.attempts
    BY <1>1 DEF JobRow, Sound, Charges
  <2>3. n \in Nat /\ calls[j] < n
    BY <1>1, <2>2
  <2> HIDE DEF n
  <2>4. /\ b.state = "RUNNING" /\ b.plan = job.plan /\ b.text = job.text
        /\ b.attempts = n
    BY <1>1 DEF JobRow
  <2> HIDE DEF b
  <2>5. QED
    BY <1>1, <1>4, <2>1, <2>3, <2>4 DEF Held, Calling
<1>5. QED
  BY <1>2, <1>3, <1>4 DEF Execute

LEMMA HeldStep ==
  ASSUME DailyAssumption, DailyInv, [Next]_vars
  PROVE  Held'
<1>1. Shapes /\ AllSound /\ Held /\ jobs \in [Job -> JobRow]
  BY DEF DailyInv, Shapes
<1>2. CASE UNCHANGED <<up, running, place>>
  <2>1. CASE place = "rest"
    BY <1>1, <1>2, <2>1, RestHeld DEF Held
  <2>2. QED
    BY <1>2, <2>1, BetweenHeld
<1>3. CASE Send
  <2>1. /\ running \in Job /\ place = "reserved" /\ place' = "sent"
        /\ calls' = [calls EXCEPT ![running] = @ + 1]
        /\ UNCHANGED <<up, running, jobs>> /\ up
    BY <1>1, <1>3, TheHeld DEF Send, Goto, durable
  <2>2. calls'[running] > 0
    BY <1>1, <2>1, Known DEF Shapes
  <2>3. QED
    BY <1>1, <2>1, <2>2 DEF Held
<1>4. CASE Judge
  <2>1. CASE Rest
    BY <2>1, RestHeld DEF Rest
  <2>2. CASE Planned /\ Goto("planned") /\ Check(running) = "ok"
    <3>1. /\ running \in Job /\ place = "answered" /\ jobs[running] \in JobRow
          /\ up /\ up' = up /\ running' = running /\ place' = "planned"
      BY <1>1, <1>4, <2>2, JudgeTakes, Known DEF Judge, Goto
    <3>2. PICK n \in 0..Slots, finds \in BOOLEAN :
            jobs' = [jobs EXCEPT ![running].plan = TRUE, ![running].slots = n,
                                 ![running].finds = finds,
                                 ![running].begun = TRUE]
      BY <2>2 DEF Planned
    <3> DEFINE a == jobs[running]
               b == [a EXCEPT !.plan = TRUE, !.slots = n, !.finds = finds,
                              !.begun = TRUE]
    <3>3. jobs'[running] = b
      BY <1>1, <3>1, <3>2
    <3>4. b.state = a.state /\ b.plan
      BY <3>1, <3>2 DEF JobRow
    <3>5. a.state = "RUNNING"
      BY <1>1, <2>2, <3>1, CheckValues DEF Held, Calling
    <3> HIDE DEF b
    <3>6. QED
      BY <1>1, <3>1, <3>3, <3>4, <3>5 DEF Held
  <2>3. QED
    BY <1>1, <1>4, <2>1, <2>2, JudgeTakes
<1>5. CASE ApplyFails \/ Report \/ AnswerLost \/ Halt
  BY <1>5, RestHeld DEF ApplyFails, Report, AnswerLost, Halt, Rest
<1>6. CASE Restart
  BY <1>1, <1>6, RestHeld DEF Restart, Held, volatile
<1>7. ASSUME NEW r \in Results, Answer(r)
      PROVE  Held'
  BY <1>1, <1>7 DEF Answer, Held, history
<1>8. QED
  BY <1>2, <1>3, <1>4, <1>5, <1>6, <1>7, ExecuteHeld, PumpFrame

(***************************************************************************)
(* What was consumed was reported, and the budget holds.                   *)
(***************************************************************************)
LEMMA ChangesStep ==
  ASSUME DailyAssumption, DailyInv, [Next]_vars
  PROVE  NoChangeLost'
<1>1. Shapes /\ AllSound /\ Held /\ 1..checkpoint \subseteq reported
  BY DEF DailyInv, NoChangeLost
<1>2. CASE UNCHANGED <<checkpoint, reported>>
  BY <1>1, <1>2 DEF NoChangeLost
<1>3. CASE Report
  <2> DEFINE a == jobs[running]
  <2>1. running \in Job
    BY <1>1, <1>3, TheHeld DEF Report
  <2>2. /\ checkpoint' = Consumed(running)
        /\ reported' = reported \cup (a.from + 1)..a.to
    BY <1>3 DEF Report
  <2>3. /\ 1..a.from \subseteq reported /\ a.from \in Nat /\ a.to \in 0..MaxChange
    BY <1>1, <2>1, Known DEF Sound, JobRow
  <2>4. MaxChange \in Nat
    BY DEF DailyAssumption
  <2>5. CASE a.to > a.from
    <3>1. checkpoint' = a.to
      BY <2>2, <2>5 DEF Consumed
    <3>2. 1..a.to \subseteq reported'
      BY <2>2, <2>3, <2>4
    <3>3. QED
      BY <3>1, <3>2 DEF NoChangeLost
  <2>6. CASE ~(a.to > a.from)
    BY <1>1, <2>2, <2>6 DEF Consumed, NoChangeLost
  <2>7. QED
    BY <2>5, <2>6
<1>4. QED
  BY <1>2, <1>3, WorldFrame, HistoryFrame

LEMMA BudgetStep ==
  ASSUME DailyAssumption, DailyInv, [Next]_vars
  PROVE  BudgetHolds'
<1>1. /\ BudgetHolds /\ day \in 0..MaxDay /\ spent \in [0..MaxDay -> Nat]
      /\ Budget \in Nat
  BY DEF DailyInv, Shapes, DailyAssumption
<1>2. ASSUME NEW j \in Job, Execute(j)
      PROVE  \/ UNCHANGED spent
             \/ Affordable /\ spent' = [spent EXCEPT ![day] = @ + 1]
  BY <1>2, Zenon DEF Execute
<1>3. ASSUME Affordable, spent' = [spent EXCEPT ![day] = @ + 1],
             NEW d \in 0..MaxDay
      PROVE  spent'[d] <= Budget
  <2>1. spent[d] <= Budget /\ spent[day] < Budget /\ spent[day] \in Nat
    BY <1>1, <1>3 DEF BudgetHolds, Affordable
  <2>2. QED
    BY <1>1, <1>3, <2>1
<1>4. QED
  BY <1>1, <1>2, <1>3, WorldFrame DEF BudgetHolds

(***************************************************************************)
(* The results.                                                            *)
(***************************************************************************)
LEMMA DailyInit ==
  ASSUME DailyAssumption, Init
  PROVE  DailyInv
<1>1. /\ 0 \in 0..MaxChange /\ 0 \in 0..Slots /\ 0 \in 0..MaxDay /\ Budget \in Nat
  BY DEF DailyAssumption
<1>2. /\ NoJob \in JobRow /\ NoJob.state = "none" /\ ~NoJob.plan
      /\ NoJob.text = 0 /\ NoJob.from = 0 /\ NoJob.slots = 0 /\ NoJob.done = 0
      /\ NoJob.attempts = 0
  BY <1>1 DEF NoJob, JobRow
<1>3. /\ NoReport \in ReportRow /\ NoReport.state = "none"
      /\ NoReport.memory = 0 /\ NoReport.finding = "none" /\ ~NoReport.called
  BY DEF NoReport, ReportRow
<1>4. Shapes
  <2>1. jobs \in [Job -> JobRow] /\ reports \in [Job -> ReportRow]
    BY <1>2, <1>3 DEF Init
  <2>2. /\ open \in [Job -> {"none", "SENDING", "SETTLED", "UNKNOWN"}]
        /\ config \in [version : Nat, enabled : BOOLEAN]
        /\ granted \in BOOLEAN /\ gone \in BOOLEAN /\ suppressed \in BOOLEAN
    BY DEF Init
  <2>3. /\ text \in Nat /\ change \in 0..MaxChange
        /\ checkpoint \in 0..MaxChange
        /\ day \in 0..MaxDay /\ spent \in [0..MaxDay -> Nat]
    BY <1>1 DEF Init
  <2>4. /\ calls \in [Job -> Nat] /\ proposed \in [Job -> Nat]
        /\ retries \in [Job -> Nat] /\ remembered \in [Job -> Nat]
    BY DEF Init
  <2>5. /\ up \in BOOLEAN /\ aborted \in BOOLEAN
        /\ running \in Job \cup {None} /\ place \in Places
    BY DEF Init
  <2>6. QED
    BY <2>1, <2>2, <2>3, <2>4, <2>5 DEF Shapes
<1>5. AllSound
  <2> SUFFICES ASSUME NEW k \in Job PROVE Fits(jobs[k], reports[k], k)
    BY DEF AllSound
  <2>1. /\ jobs[k] = NoJob /\ reports[k] = NoReport /\ ~gone
        /\ calls[k] = 0 /\ retries[k] = 0 /\ proposed[k] = 0
        /\ remembered[k] = 0
    BY DEF Init
  <2>2. QED
    BY <1>2, <1>3, <2>1 DEF Fits, Sound, Charges, Proposals, Ends, Memories
<1>6. Held
  BY DEF Init, Held
<1>7. NoChangeLost
  BY DEF Init, NoChangeLost
<1>8. BudgetHolds
  BY <1>1 DEF Init, BudgetHolds
<1>9. QED
  BY <1>4, <1>5, <1>6, <1>7, <1>8 DEF DailyInv

(* The invariant of the daily jobs is inductive.                           *)
THEOREM DailyInductive ==
  ASSUME DailyAssumption
  PROVE  Spec => []DailyInv
<1>1. Init => DailyInv
  BY DailyInit
<1>2. DailyInv /\ [Next]_vars => DailyInv'
  BY ShapesStep, SoundStep, HeldStep, ChangesStep, BudgetStep DEF DailyInv
<1>3. QED
  BY <1>1, <1>2, PTL DEF Spec

(* The variables have their shapes.                                        *)
THEOREM DailyTypeCorrect ==
  ASSUME DailyAssumption
  PROVE  Spec => []TypeOK
<1>1. DailyInv => TypeOK
  <2> SUFFICES ASSUME DailyInv PROVE TypeOK
    OBVIOUS
  <2>1. Shapes /\ AllSound
    BY DEF DailyInv
  <2>2. ASSUME NEW j \in Job
        PROVE  /\ jobs[j].state \in States /\ jobs[j].done \in 0..jobs[j].slots
               /\ jobs[j].slots \in 0..Slots /\ jobs[j].to \in 0..MaxChange
               /\ reports[j].state \in {"none", "ACTIVE", "STALE", "SUPPRESSED"}
               /\ reports[j].finding \in {"none", "pending", "active",
                                          "suppressed", "disputed"}
               /\ open[j] \in {"none", "SENDING", "SETTLED", "UNKNOWN"}
    <3>1. jobs[j] \in JobRow /\ reports[j] \in ReportRow
          /\ jobs[j].done <= jobs[j].slots
      BY <2>1, Known DEF Sound, Proposals
    <3>2. Slots \in Nat
      BY DEF DailyAssumption
    <3>3. QED
      BY <2>1, <3>1, <3>2 DEF JobRow, ReportRow, Shapes
  <2>3. QED
    BY <2>1, <2>2 DEF TypeOK, Shapes
<1>2. QED
  BY <1>1, DailyInductive, PTL

(* A day has no more calls than the budget allows: the call is charged     *)
(* before it is made, and a charge is never taken back.                    *)
THEOREM DailyBudgetHolds ==
  ASSUME DailyAssumption
  PROVE  Spec => []BudgetHolds
<1>1. DailyInv => BudgetHolds
  BY DEF DailyInv
<1>2. QED
  BY <1>1, DailyInductive, PTL

(* Through exits, crashes and lost answers, a job is called again only     *)
(* when the user asks for it.                                              *)
THEOREM DailyNotPaidTwice ==
  ASSUME DailyAssumption
  PROVE  Spec => []NoSecondCallUnasked
<1>1. DailyInv => NoSecondCallUnasked
  <2> SUFFICES ASSUME DailyInv, NEW j \in Job
               PROVE  calls[j] <= 1 + retries[j]
    BY DEF NoSecondCallUnasked
  <2>1. Shapes /\ AllSound
    BY DEF DailyInv
  <2>2. /\ calls[j] <= jobs[j].attempts /\ jobs[j].attempts <= 1 + retries[j]
        /\ jobs[j].attempts \in Nat /\ calls[j] \in Nat /\ retries[j] \in Nat
    BY <2>1, Known DEF Sound, Charges, JobRow
  <2>3. QED
    BY <2>2
<1>2. QED
  BY <1>1, DailyInductive, PTL

(* Proposals are made once, and a report comes only with all of them.      *)
THEOREM ReportsAreWhole ==
  ASSUME DailyAssumption
  PROVE  Spec => []ReportIsWhole
<1>1. DailyInv => ReportIsWhole
  <2> SUFFICES ASSUME DailyInv, NEW j \in Job
               PROVE  /\ proposed[j] = jobs[j].done
                      /\ jobs[j].state = "COMPLETED"
                           <=> reports[j].state # "none" /\ ~gone
                      /\ reports[j].state # "none"
                           => proposed[j] = jobs[j].slots
    BY DEF ReportIsWhole
  <2>1. Proposals(jobs[j], proposed[j]) /\ Ends(jobs[j], reports[j], gone)
    BY Known DEF DailyInv, Sound
  <2>2. QED
    BY <2>1 DEF Proposals, Ends
<1>2. QED
  BY <1>1, DailyInductive, PTL

(* A change that counts as consumed was in a report.                       *)
THEOREM NoChangeIsLost ==
  ASSUME DailyAssumption
  PROVE  Spec => []NoChangeLost
<1>1. DailyInv => NoChangeLost
  BY DEF DailyInv
<1>2. QED
  BY <1>1, DailyInductive, PTL

(* However often the user decides, an observation becomes one memory.      *)
THEOREM ObservationsAreSavedOnce ==
  ASSUME DailyAssumption
  PROVE  Spec => []SavedOnce
<1>1. DailyInv => SavedOnce
  BY Known DEF DailyInv, SavedOnce, Sound, Memories
<1>2. QED
  BY <1>1, DailyInductive, PTL

(***************************************************************************)
(* What is shown, proposed and reported is current.                        *)
(***************************************************************************)
(* A report begins with the one step that makes it, and so does what it    *)
(* observes and that it comes from a call.                                 *)
LEMMA ReportKept ==
  ASSUME DailyAssumption, DailyInv, [Next]_vars, NEW k \in Job,
         ~(Report /\ k = running)
  PROVE  /\ reports'[k].called <=> reports[k].called
         /\ reports[k].state = "none" => reports'[k].state = "none"
         /\ reports[k].finding = "none" => reports'[k].finding = "none"
<1> DEFINE r == reports[k]
           Goal(q) == /\ q.called <=> r.called
                      /\ r.state = "none" => q.state = "none"
                      /\ r.finding = "none" => q.finding = "none"
<1>1. /\ Shapes /\ AllSound /\ Held /\ r \in ReportRow
      /\ reports \in [Job -> ReportRow] /\ Refreshed \in [Job -> ReportRow]
      /\ Ends(jobs[k], r, gone)
  BY Tables, Known DEF DailyInv, Shapes, Sound
<1>2. Goal(r)
  OBVIOUS
<1>3. Goal(Refreshed[k])
  <2>1. CASE Refreshed[k] = r
    BY <2>1
  <2>2. CASE /\ r.state = "ACTIVE"
             /\ Refreshed[k] = [r EXCEPT !.state = "STALE", !.version = @ + 1]
    <3> DEFINE q == [r EXCEPT !.state = "STALE", !.version = @ + 1]
    <3>1. q.state = "STALE" /\ q.finding = r.finding /\ q.called = r.called
      BY <1>1, ReportFields
    <3>2. Refreshed[k] = q
      BY <2>2
    <3> HIDE DEF q
    <3>3. QED
      BY <2>2, <3>1, <3>2
  <2>3. QED
    BY <2>1, <2>2, RefreshedRow
<1>4. CASE UNCHANGED reports
  BY <1>2, <1>4
<1>5. CASE reports' = Refreshed
  BY <1>3, <1>5
<1>6. CASE Report
  <2>1. \E q : reports' = [reports EXCEPT ![running] = q]
    BY <1>6 DEF Report
  <2>2. reports'[k] = r
    BY <1>1, <1>6, <2>1
  <2>3. QED
    BY <2>2
<1>7. CASE Purge
  <2> DEFINE q == [r EXCEPT !.state = "SUPPRESSED", !.version = @ + 1]
  <2>1. reports'[k] = IF r.state = "none" THEN NoReport ELSE q
    BY <1>7, Zenon DEF Purge
  <2>2. q.finding = r.finding /\ q.called = r.called
    BY <1>1, ReportFields
  <2> HIDE DEF q
  <2>3. NoReport.state = "none" /\ NoReport.finding = "none" /\ ~NoReport.called
    BY DEF NoReport
  <2>4. CASE r.state = "none"
    BY <1>1, <2>1, <2>3, <2>4 DEF Ends
  <2>5. CASE r.state # "none"
    BY <2>1, <2>2, <2>5
  <2>6. QED
    BY <2>4, <2>5
<1>8. ASSUME NEW j \in Job, DecideStep(j)
      PROVE  Goal(reports'[k])
  <2>1. PICK q : /\ DecidedRow(j, q)
                 /\ q.finding # reports[j].finding
                      => reports[j].finding # "none"
    BY <1>1, <1>8, DecideTakes
  <2>2. CASE k = j
    <3>1. /\ reports'[k] = q /\ q.called = r.called /\ r.state = "ACTIVE"
          /\ r.finding = "none" => q.finding = "none"
      BY <1>1, <2>1, <2>2 DEF DecidedRow
    <3>2. QED
      BY <3>1
  <2>3. CASE k # j
    <3>1. reports'[k] = Refreshed[k]
      BY <1>1, <2>1, <2>3 DEF DecidedRow
    <3>2. QED
      BY <1>3, <3>1
  <2>4. QED
    BY <2>2, <2>3
<1>9. ASSUME NEW j \in Job, Read(j) \/ MoveMemory(j)
      PROVE  Goal(reports'[k])
  <2>1. \/ reports' = [reports EXCEPT ![j].version = @ + 1]
        \/ reports' = [reports EXCEPT ![j].memory = @ + 1]
    BY <1>9 DEF Read, MoveMemory
  <2>2. /\ reports'[k].called = r.called /\ reports'[k].state = r.state
        /\ reports'[k].finding = r.finding
    BY <1>1, <2>1 DEF ReportRow
  <2>3. QED
    BY <2>2
<1>10. CASE \/ Send \/ Judge \/ Propose \/ ApplyFails \/ AnswerLost \/ Restart
            \/ (\E enabled \in BOOLEAN : Configure(enabled))
            \/ \E j \in Job : Enqueue(j) \/ Retry(j) \/ Cancel(j)
  <2>1. UNCHANGED reports
    BY <1>10 DEF Send, Judge, Propose, ApplyFails, AnswerLost, Restart, Configure,
       Enqueue, Retry, Cancel, durable
  <2>2. QED
    BY <1>4, <2>1
<1>11. CASE Tick \/ \E j \in Job : Execute(j)
  BY <1>5, <1>11 DEF Tick, Execute
<1>12. QED
  BY <1>4, <1>6, <1>7, <1>8, <1>9, <1>10, <1>11, SoundFrame

(* What is known when proposals and reports are made.                      *)
LEMMA PlannedIs ==
  ASSUME DailyInv, place = "planned", Check(running) = "ok"
  PROVE  /\ running \in Job /\ Grounded(running) /\ config.enabled /\ ~gone
         /\ jobs[running].state \notin {"none", "CANCELLED", "COMPLETED"}
         /\ reports[running].state = "none"
<1>1. Shapes /\ AllSound /\ Held /\ running \in Job
  BY TheHeld DEF DailyInv
<1>2. Grounded(running) /\ config.enabled
  BY <1>1, CheckValues
<1>3. jobs[running].state \in {"RUNNING", "QUEUED", "PARTIAL"}
  BY <1>1 DEF Held
<1>4. Ends(jobs[running], reports[running], gone)
  BY <1>1, Known DEF Sound
<1>5. ~gone /\ reports[running].state = "none"
  BY <1>3, <1>4 DEF Ends
<1>6. QED
  BY <1>1, <1>2, <1>3, <1>5

(* Proposals and reports are made only while the configuration is enabled  *)
(* in the same version and the sources are what they were.                 *)
THEOREM DailyAppliesCurrent ==
  ASSUME DailyAssumption
  PROVE  Spec => AppliesCurrent
<1>1. DailyInv /\ [Next]_vars => AppliesCurrentStep
  <2> SUFFICES ASSUME DailyInv, [Next]_vars, NEW j \in Job,
                      \/ proposed'[j] # proposed[j]
                      \/ reports'[j].state = "ACTIVE" /\ reports[j].state = "none"
               PROVE  /\ Grounded(j) /\ config.enabled /\ ~gone
                      /\ jobs[j].state # "CANCELLED"
    BY Zenon DEF AppliesCurrentStep
  <2>1. CASE proposed'[j] # proposed[j]
    <3>1. Propose /\ proposed \in [Job -> Nat]
      BY <2>1, HistoryFrame DEF DailyInv, Shapes
    <3>2. /\ place = "planned" /\ Check(running) = "ok"
          /\ proposed' = [proposed EXCEPT ![running] = @ + 1]
      BY <3>1 DEF Propose
    <3>3. j = running
      BY <2>1, <3>1, <3>2
    <3>4. QED
      BY <3>2, <3>3, PlannedIs
  <2>2. CASE reports'[j].state = "ACTIVE" /\ reports[j].state = "none"
    <3>1. Report /\ j = running
      BY <2>2, ReportKept
    <3>2. QED
      BY <3>1, PlannedIs DEF Report
  <2>3. QED
    BY <2>1, <2>2
<1>2. QED
  BY <1>1, DailyInductive, PTL DEF Spec, AppliesCurrent

(* An observation that was rejected is in no later report.                 *)
THEOREM RejectedIsNotRebuilt ==
  ASSUME DailyAssumption
  PROVE  Spec => RejectedNotRebuilt
<1>1. DailyInv /\ [Next]_vars => RejectedNotRebuiltStep
  <2> SUFFICES ASSUME DailyInv, [Next]_vars, suppressed, NEW j \in Job,
                      reports[j].finding = "none"
               PROVE  reports'[j].finding = "none"
    BY Zenon DEF RejectedNotRebuiltStep
  <2>1. CASE Report /\ j = running
    <3>1. reports' = [reports EXCEPT ![j] =
            [NoReport EXCEPT !.state = "ACTIVE", !.version = 1,
                             !.finding = Found(running),
                             !.called = jobs[running].plan]]
      BY <2>1 DEF Report
    <3>2. Found(running) = "none"
      BY DEF Found
    <3>3. reports \in [Job -> ReportRow]
      BY DEF DailyInv, Shapes
    <3>4. QED
      BY <3>1, <3>2, <3>3 DEF NoReport
  <2>2. QED
    BY <2>1, ReportKept
<1>2. QED
  BY <1>1, DailyInductive, PTL DEF Spec, RejectedNotRebuilt

(* What is shown of a report still rests on its sources.                   *)
THEOREM DailyShowsCurrent ==
  ASSUME DailyAssumption
  PROVE  Spec => ShowsCurrent
<1>1. DailyInv /\ [Next]_vars => ShowsCurrentStep
  <2> SUFFICES ASSUME DailyInv, [Next]_vars, shown' # shown
               PROVE  Grounded(shown') /\ ~gone
    BY Zenon DEF ShowsCurrentStep
  <2>1. PICK j \in Job : Inspect(j)
    BY HistoryFrame
  <2>2. shown' = j /\ ~gone /\ Refreshed[j].state = "ACTIVE"
    BY <2>1 DEF Inspect, Usable
  <2>3. Grounded(j)
    <3>1. reports[j] \in ReportRow
      BY DEF DailyInv, Shapes
    <3>2. CASE ~Grounded(j)
      <4>1. CASE reports[j].state = "ACTIVE"
        <5>1. Refreshed[j] = [reports[j] EXCEPT !.state = "STALE",
                                                !.version = @ + 1]
          BY <3>2, <4>1, Zenon DEF Refreshed
        <5> DEFINE q == [reports[j] EXCEPT !.state = "STALE",
                                           !.version = @ + 1]
        <5>2. q.state = "STALE"
          BY <3>1, ReportFields
        <5> HIDE DEF q
        <5>3. QED
          BY <2>2, <5>1, <5>2, Zenon DEF q
      <4>2. CASE reports[j].state # "ACTIVE"
        BY <2>2, <4>2, RefreshedRow
      <4>3. QED
        BY <4>1, <4>2
    <3>3. QED
      BY <3>2
  <2>4. QED
    BY <2>2, <2>3
<1>2. QED
  BY <1>1, DailyInductive, PTL DEF Spec, ShowsCurrent

(***************************************************************************)
(* The promise to the user who pays.                                       *)
(***************************************************************************)
(* To look at what is due charges nothing.                                 *)
LEMMA TickedAttempts ==
  ASSUME DailyAssumption, Shapes, NEW k \in Job
  PROVE  Ticked[k].attempts = jobs[k].attempts
<1> DEFINE a == jobs[k]
           b == [a EXCEPT !.state = "QUEUED"]
<1>1. a \in JobRow
  BY DEF Shapes
<1>2. b \in JobRow /\ b.attempts = a.attempts
  BY <1>1 DEF JobRow
<1>3. Requeued[k] = a \/ Requeued[k] = b
  BY DEF Requeued
<1> HIDE DEF b
<1>4. Ticked[k] = Requeued[k] \/ Ticked[k] = Cleared(Requeued[k])
  BY DEF Ticked, Emptied
<1>5. QED
  BY <1>1, <1>2, <1>3, <1>4, ClearedFields

(* A job is charged when it is taken, and nowhere else.                    *)
LEMMA AttemptsKept ==
  ASSUME DailyAssumption, DailyInv, [Next]_vars, \A j \in Job : ~Execute(j),
         NEW k \in Job
  PROVE  jobs'[k].attempts = jobs[k].attempts
<1> DEFINE a == jobs[k]
<1>1. /\ Shapes /\ AllSound /\ Held /\ a \in JobRow /\ jobs \in [Job -> JobRow]
      /\ Ends(a, reports[k], gone)
  BY Known DEF DailyInv, Shapes, Sound
<1>2. CASE UNCHANGED jobs
  BY <1>2
<1>3. ASSUME NEW code, jobs' = Caught(jobs, running, code)
      PROVE  jobs'[k].attempts = a.attempts
  <2>1. CASE jobs' = jobs
    BY <2>1
  <2>2. ASSUME NEW s \in States, jobs' = [jobs EXCEPT ![running] = Ending(@, s)]
        PROVE  jobs'[k].attempts = a.attempts
    BY <1>1, <2>2, EndingFields
  <2>3. QED
    BY <1>3, <2>1, <2>2, CaughtRow
<1>4. CASE Tick
  BY <1>1, <1>4, TickedAttempts DEF Tick
<1>5. CASE Judge
  <2>1. ASSUME NEW n, NEW finds,
               jobs' = [jobs EXCEPT ![running].plan = TRUE, ![running].slots = n,
                                    ![running].finds = finds,
                                    ![running].begun = TRUE]
        PROVE  jobs'[k].attempts = a.attempts
    BY <1>1, <2>1 DEF JobRow
  <2>2. QED
    BY <1>1, <1>3, <1>5, <2>1, JudgeTakes DEF Planned
<1>6. CASE ApplyFails \/ AnswerLost
  BY <1>3, <1>6 DEF ApplyFails, AnswerLost
<1>7. CASE Propose
  <2>1. jobs' = [jobs EXCEPT ![running].done = @ + 1,
                             ![running].state = "PARTIAL"]
    BY <1>7 DEF Propose
  <2>2. QED
    BY <1>1, <2>1 DEF JobRow
<1>8. CASE Report
  <2>1. jobs' = [jobs EXCEPT ![running].state = "COMPLETED",
                             ![running].plan = FALSE]
    BY <1>8 DEF Report
  <2>2. QED
    BY <1>1, <2>1 DEF JobRow
<1>9. CASE \E enabled \in BOOLEAN : Configure(enabled)
  <2>1. jobs'[k] \in {a, Ending(a, "STALE")}
    BY <1>9 DEF Configure
  <2>2. QED
    BY <1>1, <2>1, EndingFields
<1>10. CASE Purge
  <2>1. jobs'[k] = IF a.state = "none" THEN NoJob ELSE Ending(a, "CANCELLED")
    BY <1>10 DEF Purge
  <2>2. NoJob.attempts = 0
    BY DEF NoJob
  <2>3. QED
    BY <1>1, <2>1, <2>2, EndingFields DEF Ends
<1>11. CASE Restart
  <2>1. jobs'[k] = Recovered(k)
    BY <1>11 DEF Restart
  <2>2. QED
    BY <1>1, <2>1 DEF Recovered, JobRow
<1>12. ASSUME NEW j \in Job, Enqueue(j)
       PROVE  jobs'[k].attempts = a.attempts
  <2> DEFINE x == [NoJob EXCEPT
               !.state = "QUEUED", !.config = config.version, !.text = text,
               !.from = checkpoint, !.to = Least(change, checkpoint + Limit),
               !.day = day]
  <2>1. jobs[j].state = "none" /\ jobs' = [jobs EXCEPT ![j] = x]
    BY <1>12 DEF Enqueue
  <2>2. x.attempts = 0
    BY DEF NoJob
  <2> HIDE DEF x
  <2>3. QED
    BY <1>1, <2>1, <2>2 DEF Ends
<1>13. ASSUME NEW j \in Job, Retry(j)
       PROVE  jobs'[k].attempts = a.attempts
  <2>1. jobs' = [jobs EXCEPT ![j].state = "QUEUED"]
    BY <1>13 DEF Retry
  <2>2. QED
    BY <1>1, <2>1 DEF JobRow
<1>14. ASSUME NEW j \in Job, Cancel(j)
       PROVE  jobs'[k].attempts = a.attempts
  <2>1. jobs' = [jobs EXCEPT ![j] = Ending(@, "CANCELLED")]
    BY <1>14 DEF Cancel
  <2>2. QED
    BY <1>1, <2>1, EndingFields
<1>15. ASSUME NEW j \in Job, DecideStep(j)
       PROVE  jobs'[k].attempts = a.attempts
  <2>1. jobs'[k] \in {a, Cleared(a)}
    BY <1>15 DEF DecideStep, Reject, Dispute, Save, Inspect, Emptied
  <2>2. QED
    BY <1>1, <2>1, ClearedFields
<1>16. CASE Send \/ \E j \in Job : Read(j) \/ MoveMemory(j)
  BY <1>2, <1>16 DEF Send, Read, MoveMemory, durable
<1>17. QED
  BY <1>2, <1>4, <1>5, <1>6, <1>7, <1>8, <1>9, <1>10, <1>11, <1>12, <1>13, <1>14,
     <1>15, <1>16, SoundFrame

LEMMA AttemptsOfTaken ==
  ASSUME DailyAssumption, DailyInv, NEW j \in Job, Execute(j)
  PROVE  \/ \A k \in Job : jobs'[k].attempts = jobs[k].attempts
         \/ /\ \A k \in Job : jobs'[k].attempts =
                 IF k = j THEN jobs[k].attempts + 1 ELSE jobs[k].attempts
            /\ reports[j].state = "none"
<1>1. /\ Shapes /\ AllSound /\ jobs \in [Job -> JobRow]
      /\ Ticked \in [Job -> JobRow] /\ day \in Nat
  <2>1. day \in 0..MaxDay /\ MaxDay \in Nat
    BY DEF DailyInv, Shapes, DailyAssumption
  <2>2. day \in Nat
    BY <2>1
  <2>3. Shapes /\ AllSound /\ jobs \in [Job -> JobRow]
    BY DEF DailyInv, Shapes
  <2>4. QED
    BY <2>2, <2>3, Tables
<1>2. \A k \in Job : Ticked[k].attempts = jobs[k].attempts
  BY <1>1, TickedAttempts
<1>3. ASSUME NEW after \in [Job -> JobRow],
             \A k \in Job : after[k].attempts = jobs[k].attempts,
             NEW code, jobs' = Caught(after, j, code)
      PROVE  \A k \in Job : jobs'[k].attempts = jobs[k].attempts
  <2>1. CASE jobs' = after
    BY <1>3, <2>1
  <2>2. ASSUME NEW s \in States, jobs' = [after EXCEPT ![j] = Ending(@, s)]
        PROVE  \A k \in Job : jobs'[k].attempts = jobs[k].attempts
    BY <1>3, <2>2, EndingFields
  <2>3. QED
    BY <1>3, <2>1, <2>2, CaughtRow
<1>4. CASE jobs' = Caught(Ticked, j, Check(j))
  BY <1>1, <1>2, <1>3, <1>4
<1>5. CASE \E s \in States : jobs' = [Ticked EXCEPT ![j].begun = TRUE, ![j].state = s]
  <2>1. \A k \in Job : jobs'[k].attempts = jobs[k].attempts
    BY <1>1, <1>2, <1>5 DEF JobRow
  <2>2. QED
    BY <2>1
<1>6. CASE jobs' = Caught([Ticked EXCEPT ![j].day = day], j, "BUDGET_EXHAUSTED")
  <2> DEFINE after == [Ticked EXCEPT ![j].day = day]
             b == [Ticked[j] EXCEPT !.day = day]
  <2>1. b \in JobRow /\ b.attempts = Ticked[j].attempts
    BY <1>1 DEF JobRow
  <2>2. after = [Ticked EXCEPT ![j] = b]
    BY <1>1
  <2> HIDE DEF b
  <2>3. /\ after \in [Job -> JobRow]
        /\ \A k \in Job : after[k].attempts = jobs[k].attempts
    BY <1>1, <1>2, <2>1, <2>2
  <2> HIDE DEF after
  <2>4. QED
    BY <1>3, <1>6, <2>3 DEF after
<1>7. CASE jobs' = [Ticked EXCEPT ![j].state = "RUNNING", ![j].day = day,
                                  ![j].attempts = @ + 1]
  <2>1. \A k \in Job : jobs'[k].attempts =
          IF k = j THEN jobs[k].attempts + 1 ELSE jobs[k].attempts
    BY <1>1, <1>2, <1>7 DEF JobRow
  <2>2. jobs[j].state \in {"QUEUED", "BUDGET_PAUSED"}
    BY <1>1, TickedFits DEF Execute, Queued
  <2>3. reports[j].state = "none"
    BY <1>1, <2>2, Known DEF Sound, Ends
  <2>4. QED
    BY <2>1, <2>3
<1>8. QED
  BY <1>4, <1>5, <1>6, <1>7 DEF Execute

(* A state of the daily jobs, as the promise sees it.                      *)
LEMMA Unseen ==
  ASSUME \A k \in Job : jobs'[k].attempts = jobs[k].attempts,
         UNCHANGED calls,
         \A k \in Job : reports'[k].called <=> reports[k].called
  PROVE  UNCHANGED Promised!promise
<1>1. [k \in Job |-> jobs'[k].attempts] = [k \in Job |-> jobs[k].attempts]
  BY Zenon
<1>2. {k \in Job : reports'[k].called} = {k \in Job : reports[k].called}
  OBVIOUS
<1>3. QED
  BY <1>1, <1>2 DEF Promised!promise

LEMMA PromiseStep ==
  ASSUME DailyAssumption, DailyInv, [Next]_vars
  PROVE  [Promised!WorkStep]_(Promised!promise)
<1> DEFINE Paid == [k \in Job |-> jobs[k].attempts]
           Done == {k \in Job : reports[k].called}
<1>1. /\ Shapes /\ AllSound /\ Held /\ calls \in [Job -> Nat]
      /\ jobs \in [Job -> JobRow] /\ reports \in [Job -> ReportRow]
  BY DEF DailyInv, Shapes
<1>2. \A k \in Job : reports[k].state = "none" => ~reports[k].called
  BY <1>1, Known DEF Sound, Ends
<1>3. CASE Send
  <2>1. /\ running \in Job /\ place = "reserved"
        /\ calls' = [calls EXCEPT ![running] = @ + 1]
        /\ UNCHANGED <<jobs, reports>>
    BY <1>1, <1>3, TheHeld DEF Send, durable
  <2>2. Calling(jobs[running]) /\ calls[running] < jobs[running].attempts
    BY <1>1, <2>1 DEF Held
  <2>3. reports[running].state = "none"
    BY <1>1, <2>1, <2>2, Known DEF Sound, Ends, Calling
  <2>4. running \notin Done /\ calls[running] < Paid[running]
    BY <1>2, <2>1, <2>2, <2>3
  <2>5. UNCHANGED <<Paid, Done>>
    BY <2>1
  <2>6. Promised!Call(running)
    BY <2>1, <2>4, <2>5 DEF Promised!Call
  <2>7. QED
    BY <2>1, <2>6 DEF Promised!WorkStep
<1>4. CASE Report
  <2>1. /\ running \in Job /\ place = "planned" /\ Check(running) = "ok"
        /\ reports' = [reports EXCEPT ![running] =
             [NoReport EXCEPT !.state = "ACTIVE", !.version = 1,
                              !.finding = Found(running),
                              !.called = jobs[running].plan]]
        /\ UNCHANGED calls
    BY <1>1, <1>4, TheHeld DEF Report
  <2>2. reports[running].state = "none"
    BY <2>1, PlannedIs
  <2>3. \A k \in Job : jobs'[k].attempts = jobs[k].attempts
    <3>1. \A j \in Job : ~Execute(j)
      BY <2>1 DEF Execute
    <3>2. QED
      BY <3>1, AttemptsKept
  <2>4. jobs[running].plan \in BOOLEAN
    BY <1>1, <2>1, Known DEF JobRow
  <2>5. /\ reports'[running].called <=> jobs[running].plan
        /\ \A k \in Job \ {running} : reports'[k] = reports[k]
    BY <1>1, <2>1, <2>4 DEF NoReport
  <2>6. ~reports[running].called
    BY <1>2, <2>1, <2>2
  <2>7. CASE jobs[running].plan
    <3>1. calls[running] > 0
      BY <1>1, <2>1, <2>7, Known DEF Sound, Charges
    <3>2. UNCHANGED Paid
      BY <2>3, Zenon
    <3>3. Done' = Done \cup {running} /\ running \notin Done
      BY <2>1, <2>5, <2>6, <2>7
    <3>4. PICK j \in Job : j = running
      BY <2>1
    <3>5. Promised!Accept(j)
      BY <2>1, <3>1, <3>2, <3>3, <3>4 DEF Promised!Accept
    <3>6. QED
      BY <3>5, Zenon DEF Promised!WorkStep
  <2>8. CASE ~jobs[running].plan
    <3>1. \A k \in Job : reports'[k].called <=> reports[k].called
      BY <2>5, <2>6, <2>8
    <3>2. QED
      BY <2>1, <2>3, <3>1, Unseen
  <2>9. QED
    BY <2>7, <2>8
<1>5. CASE ~Send /\ ~Report
  <2>1. /\ UNCHANGED calls
        /\ \A k \in Job : reports'[k].called <=> reports[k].called
    BY <1>5, HistoryFrame, ReportKept
  <2>2. CASE \A j \in Job : ~Execute(j)
    <3>1. \A k \in Job : jobs'[k].attempts = jobs[k].attempts
      BY <2>2, AttemptsKept
    <3>2. QED
      BY <2>1, <3>1, Unseen
  <2>3. ASSUME NEW j \in Job, Execute(j)
        PROVE  [Promised!WorkStep]_(Promised!promise)
    <3>1. CASE \A k \in Job : jobs'[k].attempts = jobs[k].attempts
      BY <2>1, <3>1, Unseen
    <3>2. CASE /\ \A k \in Job : jobs'[k].attempts =
                    IF k = j THEN jobs[k].attempts + 1 ELSE jobs[k].attempts
               /\ reports[j].state = "none"
      <4>1. Paid' = [Paid EXCEPT ![j] = @ + 1]
        BY <3>2
      <4>2. Done' = Done
        BY <2>1
      <4>3. j \notin Done
        BY <1>2, <3>2
      <4>4. Promised!Charge(j)
        BY <2>1, <4>1, <4>2, <4>3 DEF Promised!Charge
      <4>5. QED
        BY <4>4 DEF Promised!WorkStep
    <3>3. QED
      BY <2>3, <3>1, <3>2, AttemptsOfTaken
  <2>4. QED
    BY <2>2, <2>3
<1>6. QED
  BY <1>3, <1>4, <1>5

(* A daily job is charged before each call, called only for what was       *)
(* charged, and has one report made with a model, after a call of its own. *)
THEOREM DailyKeepsPromise ==
  ASSUME DailyAssumption
  PROVE  Spec => KeepsWorkPromise
<1>1. Init => Promised!Begin
  <2> SUFFICES ASSUME Init PROVE Promised!Begin
    OBVIOUS
  <2>1. \A k \in Job : jobs[k].attempts = 0 /\ ~reports[k].called
    BY DEF Init, NoJob, NoReport
  <2>2. calls = [k \in Job |-> 0]
    BY DEF Init
  <2>3. QED
    BY <2>1, <2>2 DEF Promised!Begin
<1>2. DailyInv /\ [Next]_vars => [Promised!WorkStep]_(Promised!promise)
  BY PromiseStep
<1>3. QED
  BY <1>1, <1>2, DailyInductive, PTL DEF Spec, KeepsWorkPromise, Promised!Promise

==============================================================================
