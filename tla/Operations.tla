------------------------------- MODULE Operations -------------------------------
(***************************************************************************)
(* The record of what the program does: operations-service.ts with         *)
(* operations-sources.ts.  Every call of a model is an attempt that is     *)
(* opened before and settled after; the page of current matters shows one  *)
(* row for each owner, written by the calls and captured from the jobs and *)
(* reminders whenever somebody looks.                                      *)
(*                                                                         *)
(* An attempt and its row are two commits: "owed" is the row still to be   *)
(* written, and the process can die before it is.  All else of a handler   *)
(* up to its next await is one step.                                       *)
(***************************************************************************)
EXTENDS Integers, FiniteSets

CONSTANTS
  Job, Chat, Reminder,    \* what is recorded
  Item,                   \* owners of reminders
  ItemOf,                 \* function from reminders to items
  Call,                   \* names for attempts
  MaxVersion, MaxStops,   \* bounds
  None

OperationsAssumption ==
  /\ ItemOf \in [Reminder -> Item]
  /\ MaxVersion \in Nat /\ MaxStops \in Nat
  /\ None \notin Call

Owner == Job \cup Chat \cup Item
Active == {"waiting", "running"}

VARIABLES
  attempts,    \* durable, and in memory for temporary chats
  events,      \* durable: operation_events
  jobs,        \* durable: background_jobs, steward_jobs
  reminders,   \* durable
  owed,        \* the row that is due for the attempt just saved
  flying,      \* volatile: calls whose answer is awaited
  phase,       \* "up", "down", or "start" while the constructor runs
  told,        \* history: calls whose usage the endpoint told
  looked,      \* history: nothing changed since somebody looked
  stops

vars == <<attempts, events, jobs, reminders, owed, flying, phase, told, looked,
          stops>>

NoAttempt == [state |-> "none", owner |-> None, kept |-> FALSE]

(* A row: who owns it, what it says, the version it speaks of, the call or *)
(* reminder it is about.                                                   *)
Row(owner, what, version, of, current) ==
  [owner |-> owner, what |-> what, version |-> version, of |-> of,
   current |-> current]

Sending(o) == {a \in Call : attempts[a].owner = o /\ attempts[a].state = "SENDING"}

(* A job runs only while a call of its own is out: what comes before and   *)
(* after the call has no await.                                            *)
Settling == {j \in Job : jobs[j].state = "running" /\ Sending(j) = {}}
Free == phase = "up" /\ owed = None /\ Settling = {}
-----------------------------------------------------------------------------
(* Wrong variant: the rows of the owner stay current.                      *)
ToldAlso(rows, row) == rows \cup {row}

(* A new row takes the place of every current row of its owner.            *)
Told(rows, row) ==
  {IF e.owner = row.owner THEN [e EXCEPT !.current = FALSE] ELSE e : e \in rows}
    \cup {row}

(* event() for the attempt that has been saved.                            *)
Tell ==
  /\ phase \in {"up", "start"} /\ owed # None
  /\ LET o == attempts[owed].owner IN
       events' = Told(events,
         CASE attempts[owed].state = "SENDING" -> Row(o, "sending", 0, owed, TRUE)
           [] attempts[owed].state = "SETTLED" -> Row(o, "settled", 0, owed, FALSE)
           [] attempts[owed].state = "UNKNOWN" -> Row(o, "unknown", 0, owed, TRUE))
  /\ owed' = None /\ looked' = FALSE
  /\ UNCHANGED <<attempts, jobs, reminders, flying, phase, told, stops>>

(* Wrong variant: a temporary attempt has its row like any other.          *)
BeginOwing(o, a, kept) ==
  /\ attempts[a].state = "none"
  /\ attempts' = [attempts EXCEPT ![a] =
       [state |-> "SENDING", owner |-> o, kept |-> kept]]
  /\ owed' = a
  /\ flying' = flying \cup {a}

Begin(o, a, kept) ==
  /\ attempts[a].state = "none"
  /\ attempts' = [attempts EXCEPT ![a] =
       [state |-> "SENDING", owner |-> o, kept |-> kept]]
  /\ owed' = IF kept THEN a ELSE None
  /\ flying' = flying \cup {a}

(* Wrong variant: an attempt that is settled is settled again.             *)
SettledAgain(a, known) ==
  [attempts EXCEPT ![a].state = IF known THEN "SETTLED" ELSE "UNKNOWN"]

Settled(a, known) ==
  IF attempts[a].state # "SENDING" THEN attempts
  ELSE [attempts EXCEPT ![a].state = IF known THEN "SETTLED" ELSE "UNKNOWN"]

(* The answer comes, with usage or without.                                *)
Settle(a, known) ==
  /\ phase = "up" /\ owed = None /\ a \in flying
  /\ attempts' = Settled(a, known)
  /\ owed' = IF attempts[a].kept THEN a ELSE None
  /\ flying' = flying \ {a}
  /\ told' = IF known THEN told \cup {a} ELSE told
  /\ looked' = FALSE
  /\ UNCHANGED <<events, jobs, reminders, phase, stops>>

(* What a caller does once more after provider.send has settled: with the  *)
(* usage it was given, or with none when its own work failed.              *)
SettleTwice(a, known) ==
  /\ phase = "up" /\ owed = None
  /\ attempts[a].state \notin {"none", "SENDING"} /\ attempts[a].owner \in Settling
  /\ known => a \in told
  /\ attempts' = Settled(a, known)
  /\ UNCHANGED <<events, jobs, reminders, owed, flying, phase, told, looked, stops>>
-----------------------------------------------------------------------------
(* What the record is about.                                               *)
Update(j, state) ==
  /\ jobs[j].version < MaxVersion
  /\ jobs' = [jobs EXCEPT ![j] = [state |-> state, version |-> @.version + 1]]
  /\ looked' = FALSE

Queue(j) ==           \* enqueue, retry
  /\ Free /\ jobs[j].state \in {"none", "waiting"} /\ Update(j, "waiting")
  /\ UNCHANGED <<attempts, events, reminders, owed, flying, phase, told, stops>>

Dispatch(j, a) ==     \* a call of a job
  /\ Free /\ jobs[j].state = "waiting" /\ Sending(j) = {}
  /\ Update(j, "running") /\ Begin(j, a, TRUE)
  /\ UNCHANGED <<events, reminders, phase, told, stops>>

Cancel(j) ==          \* the call is aborted and answers later
  /\ Free /\ jobs[j].state \in Active /\ Update(j, "over")
  /\ UNCHANGED <<attempts, events, reminders, owed, flying, phase, told, stops>>

Finish(j, state) ==
  /\ phase = "up" /\ owed = None /\ j \in Settling /\ Update(j, state)
  /\ UNCHANGED <<attempts, events, reminders, owed, flying, phase, told, stops>>

Ask(c, a, kept) ==    \* a call of a chat, saved or temporary
  /\ Free /\ Begin(c, a, kept) /\ looked' = FALSE
  /\ UNCHANGED <<events, jobs, reminders, phase, told, stops>>

Remind(r) ==          \* set or set again
  /\ Free /\ reminders[r].version < MaxVersion
  /\ reminders' = [reminders EXCEPT ![r] =
       [state |-> "SCHEDULED", version |-> @.version + 1]]
  /\ looked' = FALSE
  /\ UNCHANGED <<attempts, events, jobs, owed, flying, phase, told, stops>>

RemindFails(r) ==     \* missed, not shown, or unknown
  /\ Free /\ reminders[r].state = "SCHEDULED"
  /\ reminders' = [reminders EXCEPT ![r].state = "FAILED"]
  /\ looked' = FALSE
  /\ UNCHANGED <<attempts, events, jobs, owed, flying, phase, told, stops>>

RemindOver(r) ==
  /\ Free /\ reminders[r].state \in {"SCHEDULED", "FAILED"}
  /\ reminders' = [reminders EXCEPT ![r].state = "HANDLED"]
  /\ looked' = FALSE
  /\ UNCHANGED <<attempts, events, jobs, owed, flying, phase, told, stops>>
-----------------------------------------------------------------------------
(* Wrong variant: a job has one row, whatever becomes of it.               *)
SourceOnce(o) ==
  IF o \in Job THEN {Row(o, "job", 1, None, jobs[o].state \in Active)} ELSE {}

(* operationSources(): what a row of every job and reminder would say.     *)
Source(o) ==
  IF o \in Job
  THEN IF jobs[o].state = "none" THEN {}
       ELSE {Row(o, "job", jobs[o].version, None, jobs[o].state \in Active)}
  ELSE {Row(o, reminders[r].state, reminders[r].version, r,
            reminders[r].state # "HANDLED") :
          r \in {r \in Reminder : ItemOf[r] = o /\ reminders[r].state # "none"}}

Known(row) == \E e \in events :
  e.owner = row.owner /\ e.what = row.what /\ e.version = row.version
  /\ e.of = row.of

Missing == {row \in UNION {Source(o) : o \in Owner} : ~Known(row)}

(* capture(): one transaction for each row that is missing; the order is   *)
(* that of the tables.  It ends with a look at the rows.                   *)
Capture(row) ==
  /\ Free /\ row \in Missing
  /\ events' = Told(events, row)
  /\ looked' = (Missing = {row})
  /\ UNCHANGED <<attempts, jobs, reminders, owed, flying, phase, told, stops>>

Look ==               \* query(), with nothing left to capture
  /\ Free /\ Missing = {} /\ looked' = TRUE
  /\ UNCHANGED <<attempts, events, jobs, reminders, owed, flying, phase, told, stops>>
-----------------------------------------------------------------------------
Halt ==               \* close() or a crash
  /\ phase # "down" /\ stops < MaxStops /\ stops' = stops + 1
  /\ phase' = "down" /\ owed' = None /\ flying' = {} /\ looked' = FALSE
  /\ attempts' = [a \in Call |-> IF attempts[a].kept THEN attempts[a]
                                 ELSE IF attempts[a].state = "none" THEN NoAttempt
                                 ELSE [attempts[a] EXCEPT !.state = "gone"]]
  /\ UNCHANGED <<events, jobs, reminders, told>>

Start ==
  /\ phase = "down" /\ phase' = "start"
  /\ UNCHANGED <<attempts, events, jobs, reminders, owed, flying, told, looked, stops>>

Unfinished == {a \in Call : attempts[a].state = "SENDING"}

Recover(a) ==         \* the constructor, for one attempt
  /\ phase = "start" /\ owed = None /\ a \in Unfinished
  /\ attempts' = [attempts EXCEPT ![a].state = "UNKNOWN"]
  /\ owed' = a
  /\ UNCHANGED <<events, jobs, reminders, flying, phase, told, looked, stops>>

(* Wrong variant: the constructor settles nothing.                         *)
RecoveredNone == phase = "start"

Recovered == phase = "start" /\ owed = None /\ Unfinished = {}

(* The services behind recover what was running.                           *)
Serve ==
  /\ Recovered
  /\ phase' = "up"
  /\ jobs' = [j \in Job |-> IF jobs[j].state = "running"
                            THEN [state |-> "waiting", version |-> jobs[j].version + 1]
                            ELSE jobs[j]]
  /\ UNCHANGED <<attempts, events, reminders, owed, flying, told, looked, stops>>
-----------------------------------------------------------------------------
Init ==
  /\ attempts = [a \in Call |-> NoAttempt] /\ events = {}
  /\ jobs = [j \in Job |-> [state |-> "none", version |-> 0]]
  /\ reminders = [r \in Reminder |-> [state |-> "none", version |-> 0]]
  /\ owed = None /\ flying = {} /\ phase = "up"
  /\ told = {} /\ looked = FALSE /\ stops = 0

Next ==
  \/ Tell \/ Look \/ Halt \/ Start \/ Serve
  \/ \E a \in Call, known \in BOOLEAN : Settle(a, known) \/ SettleTwice(a, known)
  \/ \E a \in Call : Recover(a)
  \/ \E j \in Job : \/ Queue(j) \/ Cancel(j)
                    \/ (\E a \in Call : Dispatch(j, a))
                    \/ \E state \in {"waiting", "over"} : Finish(j, state)
  \/ \E c \in Chat, a \in Call, kept \in BOOLEAN : Ask(c, a, kept)
  \/ \E r \in Reminder : Remind(r) \/ RemindFails(r) \/ RemindOver(r)
  \/ \E row \in Missing : Capture(row)

Spec == Init /\ [][Next]_vars
-----------------------------------------------------------------------------
(* Shapes of the variables.                                                *)
TypeOK ==
  /\ \A a \in Call :
       /\ attempts[a].state \in {"none", "SENDING", "SETTLED", "UNKNOWN", "gone"}
       /\ attempts[a].owner \in Owner \cup {None}
  /\ \A j \in Job : jobs[j].version \in 0..(MaxVersion + MaxStops)
  /\ owed \in {a \in Call : attempts[a].kept} \cup {None}
  /\ flying \subseteq {a \in Call : attempts[a].state # "none"}

(* A temporary chat leaves nothing behind: no row while it is held, and    *)
(* once the program has been down no attempt (save(), close()).            *)
TemporaryLeavesNoTrace ==
  \A a \in Call : attempts[a].state # "none" /\ ~attempts[a].kept =>
    /\ \A e \in events : e.of # a
    /\ phase \in {"down", "start"} => attempts[a].state = "gone"

(* An owner has one current row at most (event(), capture()).              *)
OneCurrent ==
  \A e, f \in events : e.current /\ f.current /\ e.owner = f.owner => e = f

(* What is settled stays so, although callers settle more than once and    *)
(* calls end after the job is cancelled; and usage counts as known exactly *)
(* when the endpoint told it (settle(), the constructor).                  *)
UsageIsHonest ==
  /\ \A a \in Call : attempts[a].state = "SETTLED" => a \in told
  /\ \A a \in told : attempts[a].state \in {"SETTLED", "gone"}

(* Once the program serves, no attempt waits for an answer nobody awaits.  *)
SendingIsAwaited ==
  phase = "up" => \A a \in Call : attempts[a].state = "SENDING" => a \in flying

(* Who looks finds a current row for every job that is not over, and none  *)
(* that says something older; of a job that is over only that its usage    *)
(* is unknown (capture(), operationSources()).                             *)
JobsAreShown ==
  looked => \A j \in Job :
    LET rows == {e \in events : e.owner = j /\ e.current} IN
    /\ jobs[j].state \in Active => rows # {}
    /\ \A e \in rows : \/ e.what = "job" /\ e.version = jobs[j].version
                       \/ e.what = "sending" /\ e.of \in flying
                       \/ e.what = "unknown"

(* Who looks finds every reminder that failed (operationSources()).  It    *)
(* does not hold: the rows of all reminders of an item have one owner.     *)
FailuresAreCurrent ==
  looked => \A r \in Reminder : reminders[r].state = "FAILED" =>
    \E e \in events : e.current /\ e.of = r /\ e.version = reminders[r].version

(* A row says "sending" only while something is sent.  It does not hold    *)
(* for a chat when the process dies between the two commits of settle().   *)
SendingIsTrue ==
  looked => \A e \in events :
    e.current /\ e.what = "sending" => attempts[e.of].state = "SENDING"
==============================================================================
