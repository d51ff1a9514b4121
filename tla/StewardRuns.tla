------------------------------ MODULE StewardRuns ------------------------------
(***************************************************************************)
(* The steward: steward-service.ts, for one assistant.  A finding job      *)
(* looks through a completed round for something worth sharing; what it    *)
(* finds, and every global memory, becomes a pending entry; a keeping job  *)
(* has a model plan what to do with the entry, slot by slot, and commits   *)
(* the slots one after the other.                                          *)
(*                                                                         *)
(* As in BackgroundJobs a section of the pump runs from one await to the   *)
(* next and "place" says where it is; the process can die between two of   *)
(* its commits.                                                            *)
(***************************************************************************)
EXTENDS Integers, FiniteSets

CONSTANTS
  Round,        \* completed rounds; an entry found in one has its name
  Memory,       \* versions of global memories
  Slots,        \* slots of a plan
  Budget,       \* calls a day allows each role
  MaxDay,       \* bound: days, 0..MaxDay
  MaxConfig,    \* bound: versions of a configuration
  MaxMoves,     \* bound: changes of sources, grants and connections
  MaxRetries,   \* bound: explicit retries of one job
  MaxStops,     \* bound: exits and crashes
  MaxFaults,    \* bound: storage errors
  None

StewardAssumption ==
  /\ Round \cap Memory = {} /\ IsFiniteSet(Round) /\ IsFiniteSet(Memory)
  /\ Slots \in Nat \ {0}
  /\ \A n \in {Budget, MaxDay, MaxConfig, MaxMoves, MaxRetries, MaxStops,
               MaxFaults} : n \in Nat
  /\ None \notin ({"find"} \X Round) \cup ({"keep"} \X (Round \cup Memory))

Entry == Round \cup Memory
Job == ({"find"} \X Round) \cup ({"keep"} \X Entry)
Role == {"find", "keep"}       \* the assistant's discovery and the steward

Blocked == {"STALE", "CONFIGURATION_BLOCKED", "PERMISSION_BLOCKED",
            "FAILED_CONFIRMED"}
States == Blocked \cup {"NONE", "QUEUED", "RUNNING", "BUDGET_PAUSED",
                        "REMOTE_UNKNOWN", "PARTIAL", "COMPLETED", "CANCELLED"}
EntryStates == {"none", "pending", "completed", "dismissed", "replaced"}
Results == {"good", "empty", "malformed", "failed", "unknown"}
Places == {"rest", "scanned", "reserved", "sent", "answered", "planned",
           "slots", "prepared"}

(* What a model was given: the texts, and one number for grants, identity  *)
(* of the recipient and retention epoch, which only ever change together   *)
(* with it.                                                                *)
NoInputs == [mark |-> 0, text |-> 0]
Inputs == [mark : Nat, text : Nat]
NoJob == [state |-> "NONE", config |-> 0, digest |-> 0, inputs |-> NoInputs,
          plan |-> NoInputs, finds |-> FALSE, attempts |-> 0, done |-> 0]

VARIABLES
  jobs,      \* durable: steward_jobs, with the receipts of steward_slots
  entries,   \* durable: memory_pending
  open,      \* durable: the last row of steward_attempts of a job
  spent,     \* durable: rows of steward_attempts by role and day
  consumed,  \* durable: steward_consumptions
  config,    \* durable: steward_configs and discovery_configs
  allowed,   \* durable: a role has its grants
  mark,      \* durable: version of grants, identity and epoch
  text,      \* durable: text of a source, 0 when it cannot be read
  gone,      \* durable: the assistant has been deleted for good
  day, up,
  running,   \* volatile: the job in the running map
  place,     \* volatile: where its execution is
  held,      \* volatile: the version of the configuration it was read with
  using,     \* volatile: the inputs it works with
  aborted,   \* volatile: its controller
  answer,    \* volatile: the answer it holds
  calls,     \* history: calls made for each job
  made,      \* history: slots of each job committed to memory or branches
  retries,   \* history: explicit retries of each job
  moves, stops, faults   \* bound counters

durable == <<jobs, entries, open, spent, consumed>>
world == <<config, allowed, mark, text, gone, day>>
volatile == <<running, place, held, using, aborted, answer>>
history == <<calls, made, retries>>
bounds == <<moves, stops, faults>>
vars == <<durable, world, up, volatile, history, bounds>>

Free == up /\ place \in {"rest", "sent"}
RoleOf(j) == j[1]
Subject(j) == j[2]
-----------------------------------------------------------------------------
Authority(role) ==
  CASE gone -> "PERMISSION_BLOCKED"
    [] ~gone /\ ~config[role].enabled -> "CONFIGURATION_BLOCKED"
    [] ~gone /\ config[role].enabled /\ ~allowed[role] -> "PERMISSION_BLOCKED"
    [] OTHER -> "ok"

(* The digest the source of a job must still have: that of the job itself, *)
(* and for a keeping job that of its entry, which is the same.             *)
EntryOpen(j) ==
  RoleOf(j) = "keep" => entries[Subject(j)].state = "pending"
                          /\ entries[Subject(j)].digest = jobs[j].digest

SourceCode(j) ==
  CASE ~EntryOpen(j) -> "STALE"
    [] EntryOpen(j) /\ text[Subject(j)] = 0 -> "PERMISSION_BLOCKED"
    [] EntryOpen(j) /\ text[Subject(j)] \notin {0, jobs[j].digest} -> "STALE"
    [] OTHER -> "ok"

Present(j) == [mark |-> mark, text |-> text[Subject(j)]]      \* sourceInput()

(* Wrong variant: rechecks the authority, not the job and its source.      *)
CurrentAuthority(j, version, expected) ==
  IF aborted \/ config[RoleOf(j)].version # version THEN "STALE"
  ELSE Authority(RoleOf(j))

(* current(): "expected" are the inputs to be rechecked, or NoInputs.      *)
Current(j, version, expected) ==
  IF aborted \/ jobs[j].state \notin {"RUNNING", "QUEUED"} THEN "STALE"
  ELSE IF config[RoleOf(j)].version # version THEN "STALE"
  ELSE IF Authority(RoleOf(j)) # "ok" THEN Authority(RoleOf(j))
  ELSE IF expected # NoInputs /\ expected.mark # mark THEN "STALE"
  ELSE SourceCode(j)

Stop(j, state) == jobs' = [jobs EXCEPT ![j].state = state]

(* Cancelling, dismissing and deleting keep what has been committed.       *)
Halted(j) == IF jobs[j].done > 0 THEN "PARTIAL" ELSE "CANCELLED"

Rest ==
  /\ running' = None /\ place' = "rest" /\ held' = 0 /\ using' = NoInputs
  /\ aborted' = FALSE /\ answer' = "none"

Goto(p) == place' = p /\ UNCHANGED <<running, held, using, aborted, answer>>

(* States the catch block leaves alone.                                    *)
Final == {"COMPLETED", "CANCELLED", "PARTIAL"}

(* The catch block of execute().                                           *)
Fail(j, code) ==
  LET lost == open[j] = "SENDING"
      state == IF jobs[j].done > 0 THEN "PARTIAL"
               ELSE IF lost THEN "REMOTE_UNKNOWN" ELSE code
  IN /\ IF jobs[j].state \in Final THEN UNCHANGED <<jobs, open>>
        ELSE /\ Stop(j, state)
             /\ open' = [open EXCEPT ![j] = IF lost THEN "UNKNOWN" ELSE @]
     /\ Rest
-----------------------------------------------------------------------------
(***************************************************************************)
(* The pump: scanDiscovery() and scanPending() add jobs, one is executed.  *)
(***************************************************************************)
Added(j, digest) ==
  [NoJob EXCEPT !.state = "QUEUED", !.config = config[RoleOf(j)].version,
                !.digest = digest]

Found == {j \in {"find"} \X Round : jobs[j].state = "NONE"}

Pending ==
  {j \in {"keep"} \X Entry :
     jobs[j].state = "NONE" /\ entries[Subject(j)].state = "pending"}

Scanned(roles) ==
  [j \in Job |->
     IF RoleOf(j) \notin roles \/ ~config[RoleOf(j)].enabled THEN jobs[j]
     ELSE IF j \in Found THEN Added(j, text[Subject(j)])
     ELSE IF j \in Pending THEN Added(j, entries[Subject(j)].digest)
     ELSE jobs[j]]

Pump ==
  /\ up /\ place = "rest"
  /\ jobs' = Scanned(Role)
  /\ Goto("scanned")
  /\ UNCHANGED <<entries, open, spent, consumed, world, up, history, bounds>>

(* Wrong variant: jobs of an earlier configuration are passed over.        *)
QueuedNow == {j \in Job : jobs[j].state = "QUEUED"
                            /\ jobs[j].config = config[RoleOf(j)].version}

Queued == {j \in Job : jobs[j].state = "QUEUED"}

NothingQueued ==
  /\ up /\ place = "scanned" /\ Queued = {}
  /\ Goto("rest")
  /\ UNCHANGED <<durable, world, up, history, bounds>>

(* Wrong variant: one call more than the budget.                           *)
AffordableLate(role) == spent[role][day] <= Budget

Affordable(role) == spent[role][day] < Budget

(* The first job by row; the model leaves the order open.                  *)
Execute(j) ==
  /\ up /\ place = "scanned" /\ j \in Queued
  /\ LET inputs == IF jobs[j].inputs = NoInputs THEN Present(j)
                                                ELSE jobs[j].inputs
         code == Current(j, jobs[j].config, jobs[j].inputs)
         role == RoleOf(j)
     IN \/ /\ code # "ok"
           /\ Fail(j, code)
           /\ UNCHANGED spent
        \/ /\ code = "ok" /\ jobs[j].plan = NoInputs /\ ~Affordable(role)
           /\ Stop(j, "BUDGET_PAUSED")
           /\ Rest
           /\ UNCHANGED <<open, spent>>
        \/ /\ code = "ok" /\ jobs[j].plan = NoInputs /\ Affordable(role)
           /\ jobs' = [jobs EXCEPT ![j].state = "RUNNING", ![j].inputs = inputs,
                                ![j].attempts = @ + 1]
           /\ open' = [open EXCEPT ![j] = "SENDING"]
           /\ spent' = [spent EXCEPT ![role][day] = @ + 1]
           /\ running' = j /\ held' = jobs[j].config /\ using' = inputs
           /\ place' = "reserved" /\ UNCHANGED <<aborted, answer>>
        \/ /\ code = "ok" /\ jobs[j].plan # NoInputs
           /\ Stop(j, "RUNNING")
           /\ running' = j /\ held' = jobs[j].config /\ using' = inputs
           /\ place' = "planned"
           /\ UNCHANGED <<open, spent, aborted, answer>>
  /\ UNCHANGED <<entries, consumed, world, up, history, bounds>>

Send ==
  /\ up /\ place = "reserved"
  /\ calls' = [calls EXCEPT ![running] = @ + 1]
  /\ Goto("sent")
  /\ UNCHANGED <<durable, world, up, made, retries, bounds>>

Answer(result) ==
  /\ up /\ place = "sent"
  /\ result = "empty" => RoleOf(running) = "find"
  /\ open' = [open EXCEPT ![running] = "SETTLED"]
  /\ answer' = result /\ place' = "answered"
  /\ UNCHANGED <<jobs, entries, spent, consumed, world, up, running, held,
                 using, aborted, history, bounds>>

AnswerLost ==         \* the usage record cannot be written
  /\ up /\ place = "sent"
  /\ faults < MaxFaults /\ faults' = faults + 1
  /\ Fail(running, "FAILED_CONFIRMED")
  /\ UNCHANGED <<entries, spent, consumed, world, up, history, moves, stops>>

(* Saving the candidate writes the job as it was read, when a retry has    *)
(* queued it again meanwhile.                                              *)
Judge ==
  /\ up /\ place = "answered"
  /\ LET j == running
         code == Current(j, held, using)
     IN \/ /\ code # "ok"
           /\ Fail(j, code)
        \/ /\ code = "ok" /\ answer \in {"failed", "malformed"}
           /\ Fail(j, "FAILED_CONFIRMED")
        \/ /\ code = "ok" /\ answer = "unknown"
           /\ Stop(j, "REMOTE_UNKNOWN")
           /\ Rest /\ UNCHANGED open
        \/ /\ code = "ok" /\ answer \in {"good", "empty"}
           /\ jobs' = [jobs EXCEPT
                ![j].plan = using, ![j].finds = (answer = "good"),
                ![j].state = "RUNNING",
                ![j].config = IF jobs[j].state = "QUEUED" THEN held ELSE @]
           /\ Goto("planned")
           /\ UNCHANGED open
  /\ UNCHANGED <<entries, spent, consumed, world, up, history, bounds>>
-----------------------------------------------------------------------------
(***************************************************************************)
(* Acceptance.  What a finding job found becomes an entry in one           *)
(* transaction; the slots of a keeping job are frozen and then committed   *)
(* one by one: an equivalence in a transaction of its own, a memory        *)
(* through the command row, the file and the transaction of the memory     *)
(* service.                                                                *)
(***************************************************************************)
(* Wrong variant: the finding is saved, its consumption forgotten.         *)
DiscoverApart ==
  /\ up /\ place = "planned" /\ RoleOf(running) = "find"
  /\ entries' = [entries EXCEPT ![Subject(running)] =
                   [state |-> "pending", digest |-> using.text]]
  /\ Stop(running, "COMPLETED")
  /\ Rest
  /\ UNCHANGED <<consumed, open, spent, world, up, history, bounds>>

Discover ==           \* acceptDiscovery()
  /\ up /\ place = "planned" /\ RoleOf(running) = "find"
  /\ Current(running, held, using) = "ok"
  /\ LET r == Subject(running)
     IN entries' = IF jobs[running].finds /\ entries[r].state = "none"
                   THEN [entries EXCEPT ![r] = [state |-> "pending",
                                                digest |-> using.text]]
                   ELSE entries
  /\ consumed' = consumed \cup {running}
  /\ Stop(running, "COMPLETED")
  /\ Rest
  /\ UNCHANGED <<open, spent, world, up, history, bounds>>

Freeze ==             \* acceptSlots(), its first transaction
  /\ up /\ place = "planned" /\ RoleOf(running) = "keep"
  /\ Current(running, held, using) = "ok"
  /\ Goto("slots")
  /\ UNCHANGED <<durable, world, up, history, bounds>>

(* Wrong variants: a slot too many, or only the first.                     *)
NextSlotLate == jobs[running].done <= Slots
NextSlotFirst == jobs[running].done = 0

NextSlot == jobs[running].done < Slots

SlotDone ==           \* complete(): branch, conflict, receipt
  /\ jobs' = [jobs EXCEPT ![running].done = @ + 1]
  /\ made' = [made EXCEPT ![running] = @ + 1]

Equivalent ==
  /\ up /\ place = "slots" /\ NextSlot
  /\ Current(running, held, using) = "ok"
  /\ SlotDone
  /\ UNCHANGED <<entries, open, spent, consumed, world, up, volatile, calls,
                 retries, bounds>>

Prepare ==            \* the row of the memory command, the temporary file
  /\ up /\ place = "slots" /\ NextSlot
  /\ Current(running, held, using) = "ok"
  /\ Goto("prepared")
  /\ UNCHANGED <<durable, world, up, history, bounds>>

(* Wrong variant: the receipt is saved after the memory is committed.      *)
RememberApart ==
  /\ up /\ place = "prepared"
  /\ made' = [made EXCEPT ![running] = @ + 1]
  /\ Goto("slots")
  /\ UNCHANGED <<durable, world, up, calls, retries, bounds>>

Remember ==           \* the transaction of the memory service, commitReceipt()
  /\ up /\ place = "prepared"
  /\ SlotDone
  /\ Goto("slots")
  /\ UNCHANGED <<entries, open, spent, consumed, world, up, calls, retries,
                 bounds>>

(* A slot's inference is not allowed, its file or transaction fails.       *)
SlotFails ==
  /\ up /\ place \in {"planned", "slots", "prepared"}
  /\ \/ place = "slots" /\ NextSlot /\ Fail(running, "PERMISSION_BLOCKED")
        /\ UNCHANGED faults
     \/ faults < MaxFaults /\ faults' = faults + 1
        /\ Fail(running, "FAILED_CONFIRMED")
  /\ UNCHANGED <<entries, spent, consumed, world, up, history, moves, stops>>

Finish ==             \* the last transaction of acceptSlots()
  /\ up /\ place = "slots" /\ ~NextSlot
  /\ Current(running, held, using) = "ok"
  /\ entries' = [entries EXCEPT ![Subject(running)].state = "completed"]
  /\ consumed' = consumed \cup {running}
  /\ Stop(running, "COMPLETED")
  /\ Rest
  /\ UNCHANGED <<open, spent, world, up, history, bounds>>
-----------------------------------------------------------------------------
(***************************************************************************)
(* The user: configure(), run(), control(), pending(), and memories kept   *)
(* and corrected by hand.                                                  *)
(***************************************************************************)
Configure(role, enabled, granted) ==
  /\ Free /\ ~gone /\ config[role].version < MaxConfig
  /\ config' = [config EXCEPT ![role] = [version |-> @.version + 1,
                                         enabled |-> enabled]]
  /\ allowed' = [allowed EXCEPT ![role] = @ \/ granted]
  /\ mark' = IF granted /\ ~allowed[role] THEN mark + 1 ELSE mark
  /\ aborted' = (aborted \/ (place = "sent" /\ RoleOf(running) = role))
  /\ UNCHANGED <<durable, text, gone, day, up, running, place, held, using,
                 answer, history, bounds>>

Run(role) ==
  /\ Free /\ ~gone
  /\ LET found == Scanned({role})
     IN jobs' = [j \in Job |->
                   IF RoleOf(j) = role /\ found[j].state = "BUDGET_PAUSED"
                   THEN [found[j] EXCEPT !.state = "QUEUED"] ELSE found[j]]
  /\ UNCHANGED <<entries, open, spent, consumed, world, up, volatile, history,
                 bounds>>

Cancel(j) ==
  /\ Free /\ ~gone /\ jobs[j].state # "NONE"
  /\ Stop(j, Halted(j))
  /\ aborted' = (aborted \/ running = j)
  /\ UNCHANGED <<entries, open, spent, consumed, world, up, running, place,
                 held, using, answer, history, bounds>>

MayRetry(j) ==
  /\ jobs[j].state \notin {"NONE", "COMPLETED", "CANCELLED"}
  /\ jobs[j].plan # NoInputs => jobs[j].config = config[RoleOf(j)].version

(* Without a plan the inputs are read again, and the digest of a finding   *)
(* job that had none.                                                      *)
Refreshed(j) ==
  IF jobs[j].plan # NoInputs THEN jobs[j]
  ELSE [jobs[j] EXCEPT !.inputs = NoInputs,
                       !.digest = IF RoleOf(j) = "find" /\ @ = 0
                                  THEN text[Subject(j)] ELSE @]

Retry(j) ==
  /\ Free /\ ~gone /\ MayRetry(j) /\ retries[j] < MaxRetries
  /\ RoleOf(j) = "find" /\ jobs[j].digest = 0 => text[Subject(j)] # 0
  /\ jobs' = [jobs EXCEPT ![j] = [Refreshed(j) EXCEPT
                !.state = "QUEUED", !.config = config[RoleOf(j)].version]]
  /\ retries' = [retries EXCEPT ![j] = @ + 1]
  /\ UNCHANGED <<entries, open, spent, consumed, world, up, volatile, calls,
                 made, bounds>>

DismissJob(e) ==
  LET j == <<"keep", e>>
  IN jobs' = IF jobs[j].state \in {"NONE", "COMPLETED"} THEN jobs
             ELSE [jobs EXCEPT ![j].state = Halted(j)]

Dismiss(e) ==
  /\ Free /\ ~gone /\ entries[e].state \notin {"none", "replaced"}
  /\ entries' = [entries EXCEPT ![e].state = "dismissed"]
  /\ DismissJob(e)
  /\ UNCHANGED <<open, spent, consumed, world, up, volatile, history, bounds>>

Keep(m) ==            \* a global memory is accepted elsewhere
  /\ Free /\ entries[m].state = "none"
  /\ entries' = [entries EXCEPT ![m] = [state |-> "pending",
                                        digest |-> text[m]]]
  /\ UNCHANGED <<jobs, open, spent, consumed, world, up, volatile, history,
                 bounds>>

Move == moves < MaxMoves /\ moves' = moves + 1

Correct(m) ==         \* its next version takes the row of the entry
  /\ Free /\ Move /\ entries[m].state # "none"
  /\ text' = [text EXCEPT ![m] = @ + 1]
  /\ entries' = [entries EXCEPT ![m].state = "replaced"]
  /\ UNCHANGED <<jobs, open, spent, consumed, config, allowed, mark, gone, day,
                 up, volatile, history, stops, faults>>
-----------------------------------------------------------------------------
(***************************************************************************)
(* The rest of the program.                                                *)
(***************************************************************************)
MoveSource(r) ==      \* a round is withdrawn or restored
  /\ Free /\ Move
  /\ text' = [text EXCEPT ![r] = IF @ = 0 THEN 1 ELSE 0]
  /\ UNCHANGED <<durable, config, allowed, mark, gone, day, up, volatile,
                 history, stops, faults>>

MoveGrant(role) ==
  /\ Free /\ Move
  /\ allowed' = [allowed EXCEPT ![role] = ~@] /\ mark' = mark + 1
  /\ UNCHANGED <<durable, config, text, gone, day, up, volatile, history,
                 stops, faults>>

MoveEpoch ==          \* governance moves the epoch, an edit the connection
  /\ Free /\ Move
  /\ mark' = mark + 1
  /\ aborted' = (place = "sent")
  /\ UNCHANGED <<durable, config, allowed, text, gone, day, up, running, place,
                 held, using, answer, history, stops, faults>>

Purge ==              \* purgeAssistant(), once inspectAssistant() is content
  /\ Free /\ ~gone /\ Move
  /\ \A j \in Job : jobs[j].state # "RUNNING"
  /\ gone' = TRUE
  /\ entries' = [e \in Entry |->
       IF e \in Round /\ entries[e].state # "none"
       THEN [entries[e] EXCEPT !.state = "dismissed"] ELSE entries[e]]
  /\ jobs' = [j \in Job |->
       IF jobs[j].state = "NONE" THEN jobs[j]
       ELSE [jobs[j] EXCEPT !.state = Halted(j), !.inputs = NoInputs,
                            !.plan = NoInputs, !.finds = FALSE]]
  /\ aborted' = (place = "sent")
  /\ UNCHANGED <<open, spent, consumed, config, allowed, mark, text, day, up,
                 running, place, held, using, answer, history, stops, faults>>

Midnight ==
  /\ Free /\ day < MaxDay /\ day' = day + 1
  /\ UNCHANGED <<durable, config, allowed, mark, text, gone, up, volatile,
                 history, bounds>>

Halt ==               \* close() or a crash
  /\ up /\ stops < MaxStops /\ stops' = stops + 1
  /\ up' = FALSE
  /\ Rest
  /\ UNCHANGED <<durable, world, history, moves, faults>>

(* Wrong variants: a call without an answer is made again, given back, or  *)
(* left running.                                                           *)
RecoveredAgain(j) ==
  IF jobs[j].state = "RUNNING" THEN [jobs[j] EXCEPT !.state = "QUEUED"]
  ELSE jobs[j]
RecoveredRefund(j) ==
  IF jobs[j].state = "RUNNING"
  THEN [jobs[j] EXCEPT !.state = "REMOTE_UNKNOWN", !.attempts = @ - 1]
  ELSE jobs[j]
RecoveredNot(j) == jobs[j]

Recovered(j) ==
  IF jobs[j].state # "RUNNING" THEN jobs[j]
  ELSE [jobs[j] EXCEPT !.state = IF jobs[j].plan # NoInputs THEN "QUEUED"
                                                    ELSE "REMOTE_UNKNOWN"]

Restart ==
  /\ ~up /\ up' = TRUE
  /\ jobs' = [j \in Job |-> Recovered(j)]
  /\ open' = [j \in Job |-> IF open[j] = "SENDING" THEN "UNKNOWN" ELSE open[j]]
  /\ UNCHANGED <<entries, spent, consumed, world, volatile, history, bounds>>
-----------------------------------------------------------------------------
Init ==
  /\ jobs = [j \in Job |-> NoJob]
  /\ entries = [e \in Entry |-> [state |-> "none", digest |-> 0]]
  /\ open = [j \in Job |-> "none"]
  /\ spent = [role \in Role |-> [d \in 0..MaxDay |-> 0]]
  /\ consumed = {}
  /\ config = [role \in Role |-> [version |-> 0, enabled |-> FALSE]]
  /\ allowed = [role \in Role |-> FALSE]
  /\ mark = 1 /\ text = [x \in Entry |-> 1] /\ gone = FALSE /\ day = 0
  /\ up = TRUE /\ running = None /\ place = "rest" /\ held = 0
  /\ using = NoInputs /\ aborted = FALSE /\ answer = "none"
  /\ calls = [j \in Job |-> 0] /\ made = [j \in Job |-> 0]
  /\ retries = [j \in Job |-> 0]
  /\ moves = 0 /\ stops = 0 /\ faults = 0

PumpStep ==
  \/ Pump \/ NothingQueued \/ (\E j \in Job : Execute(j)) \/ Send \/ Judge
  \/ Discover \/ Freeze \/ Equivalent \/ Prepare \/ Remember \/ SlotFails
  \/ Finish

AnswerStep == AnswerLost \/ \E result \in Results : Answer(result)

UserStep ==
  \/ \E role \in Role, enabled, granted \in BOOLEAN :
       Configure(role, enabled, granted)
  \/ \E role \in Role : Run(role)
  \/ \E j \in Job : Cancel(j) \/ Retry(j)
  \/ \E e \in Entry : Dismiss(e)
  \/ \E m \in Memory : Keep(m) \/ Correct(m)

WorldStep ==
  \/ \E r \in Round : MoveSource(r)
  \/ \E role \in Role : MoveGrant(role)
  \/ MoveEpoch \/ Purge \/ Midnight

Next == PumpStep \/ AnswerStep \/ UserStep \/ WorldStep \/ Halt \/ Restart

Spec == Init /\ [][Next]_vars

(* The pump's timer is always set again, a section runs to its end, every  *)
(* call has a time limit, and the user starts the program again.           *)
Fairness == WF_vars(PumpStep) /\ WF_vars(AnswerStep) /\ WF_vars(Restart)

FairSpec == Spec /\ Fairness
-----------------------------------------------------------------------------
(* Shapes of the variables.                                                *)
TypeOK ==
  /\ jobs \in [Job -> [state : States, config : Nat, digest : Nat,
                       inputs : Inputs, plan : Inputs, finds : BOOLEAN,
                       attempts : Nat, done : 0..Slots]]
  /\ entries \in [Entry -> [state : EntryStates, digest : Nat]]
  /\ open \in [Job -> {"none", "SENDING", "SETTLED", "UNKNOWN"}]
  /\ spent \in [Role -> [0..MaxDay -> Nat]]
  /\ consumed \subseteq Job
  /\ config \in [Role -> [version : Nat, enabled : BOOLEAN]]
  /\ allowed \in [Role -> BOOLEAN]
  /\ mark \in Nat \ {0} /\ text \in [Entry -> Nat] /\ gone \in BOOLEAN
  /\ day \in 0..MaxDay /\ up \in BOOLEAN
  /\ running \in Job \cup {None} /\ place \in Places /\ held \in Nat
  /\ using \in Inputs /\ aborted \in BOOLEAN
  /\ answer \in Results \cup {"none"}
  /\ calls \in [Job -> Nat] /\ made \in [Job -> Nat]
  /\ retries \in [Job -> Nat]
  /\ moves \in Nat /\ stops \in Nat /\ faults \in Nat

(* Neither role spends more calls in a day than its own budget allows      *)
(* (usage(), the reservation in execute()).                                *)
BudgetHolds == \A role \in Role, d \in 0..MaxDay : spent[role][d] <= Budget

(* Beyond the first, every call of a job has a retry the user asked for    *)
(* (recovery in the constructor, control()).                               *)
NoSecondCallUnasked == \A j \in Job : calls[j] <= 1 + retries[j]

(* A slot is committed once, however often its job is stopped and resumed: *)
(* what memory and branches have got is what the receipts say              *)
(* (commitReceipt(), complete()).                                          *)
SlotOnce == \A j \in Job : made[j] = jobs[j].done

(* A job that is COMPLETED has been consumed; a keeping job is consumed    *)
(* with all its slots, its entry is then completed or has been dismissed   *)
(* or corrected since; and an entry is completed by its job only.          *)
ConsumedIsWhole ==
  \A j \in Job :
    /\ jobs[j].state = "COMPLETED" => j \in consumed
    /\ j \in consumed /\ RoleOf(j) = "keep" =>
         /\ jobs[j].done = Slots
         /\ entries[Subject(j)].state \in {"completed", "dismissed", "replaced"}
    /\ RoleOf(j) = "keep" /\ entries[Subject(j)].state = "completed" =>
         j \in consumed
    /\ RoleOf(j) = "keep" /\ Subject(j) \in Round
         /\ entries[Subject(j)].state # "none" =>
         <<"find", Subject(j)>> \in consumed

(* What the user has dismissed is never organised, offered again or taken  *)
(* up, not even from an answer that is under way (pending(), current()).   *)
DismissedIsOutStep ==
  \A e \in Entry : entries[e].state = "dismissed" =>
    /\ entries'[e].state \in {"dismissed", "replaced"}
    /\ made'[<<"keep", e>>] = made[<<"keep", e>>]
    /\ calls'[<<"keep", e>>] = calls[<<"keep", e>>]

DismissedIsOut == [][DismissedIsOutStep]_vars

(* Slots and findings are committed only while the role is enabled in the  *)
(* same version, allowed, and its inputs are what they were (current()).   *)
CommitsCurrentStep ==
  \A j \in Job : made'[j] # made[j] \/ j \in consumed' \ consumed =>
    /\ using = Present(j) /\ ~gone
    /\ config[RoleOf(j)].enabled /\ allowed[RoleOf(j)]
    /\ jobs[j].state = "RUNNING"

CommitsCurrent == [][CommitsCurrentStep]_vars

(* Does not hold (README): a plan is carried out only on the inputs it was made  *)
(* from (FrozenInput, current()).                                          *)
PlanOnItsInputsStep ==
  \A j \in Job : made'[j] # made[j] => jobs[j].plan = using

PlanOnItsInputs == [][PlanOnItsInputsStep]_vars

(* Does not hold (README): a job that is completed stays it while the assistant  *)
(* lives (control()).                                                      *)
CompletedStaysStep ==
  \A j \in Job : jobs[j].state = "COMPLETED" /\ ~gone' =>
    jobs'[j].state = "COMPLETED"

CompletedStays == [][CompletedStaysStep]_vars

(* What is queued is decided and what runs ends, through exits, crashes    *)
(* and lost answers (pump(), the constructor).                             *)
QueuedIsDecided ==
  \A j \in Job : jobs[j].state = "QUEUED" ~> jobs[j].state # "QUEUED"
RunningEnds ==
  \A j \in Job : jobs[j].state = "RUNNING" ~> jobs[j].state # "RUNNING"

(***************************************************************************)
(* The abstract specification this one implements: charge, call, accept.   *)
(***************************************************************************)
Promised == INSTANCE WorkPromise WITH
  Work <- Job,
  charged <- [j \in Job |-> jobs[j].attempts],
  called <- calls,
  accepted <- consumed,
  dropped <- {}

(* Every call is charged before it is made, and a job is consumed once,    *)
(* after a call of its own.                                                *)
KeepsWorkPromise == Promised!Promise
==============================================================================
