----------------------------- MODULE StagingExpiry -----------------------------
(***************************************************************************)
(* Texts in the staging zone go to the recoverable trash after a period:   *)
(* retention-policy-service.ts.  A batch lists what is due and moves one   *)
(* text per turn of the event loop, each in a transaction that checks the  *)
(* text and the policy again; every outcome leaves a receipt, so that a    *)
(* run cut off by the end of the process can be settled at the next start. *)
(*                                                                         *)
(* Time passes in days and is kept as ages: how long a text has been in    *)
(* staging, capped at the longest period, and whether a receipt is older   *)
(* than the delay of a retry (a day).  No timer is set for more than a day.*)
(***************************************************************************)
EXTENDS Integers, Sequences, FiniteSets, FiniteSetsExt, SequencesExt

CONSTANTS
  Mems,           \* texts are 1..Mems, in the order of their ids
  Settings,       \* [on, days] that may be asked for
  MaxDays,
  Batch,
  Asks,           \* explicit runs are asked by 1..Asks, once each
  MaxRuns,        \* rows of runs kept; older ones are overwritten
  MaxEdits, MaxMoves, MaxConfigs, MaxBreaks, MaxStops, MaxFaults   \* bounds

ExpiryAssumption ==
  /\ Mems \in Nat \ {0} /\ MaxDays \in Nat \ {0} /\ Batch \in Nat \ {0}
  /\ Settings \subseteq [on : BOOLEAN, days : 1..MaxDays]
  /\ Asks \in Nat /\ MaxRuns \in Nat \ {0}

Mem == 1..Mems
Run == 1..MaxRuns
Zone == {"persistent", "staging", "trash"}

VARIABLES
  text,       \* durable: zone and version of each text
  row,        \* durable: its entry (age in staging, generation of the stay)
  policy,     \* durable: revision, on, days, paused
  previews,   \* durable: pending previews of settings
  receipt,    \* durable: by text: of this stay and this policy, and others
  runs, last, \* durable: retention_policy_runs, and the newest of them
  intact,     \* files: the text's file holds what was accepted
  batch,      \* volatile: the batch under way
  ask,        \* volatile: explicit runs
  timer,      \* volatile: days until it fires, or Off
  up,
  stay,       \* history: days since the text came to staging
  made,       \* history: texts each run has moved
  meanwhile,  \* history: texts others changed since the batch began
  edits, moves, configs, breaks, stops, faults      \* bounds

durable == <<text, row, policy, previews, receipt, runs, last>>
volatile == <<batch, ask, timer>>
history == <<stay, made, meanwhile>>
bounds == <<edits, moves, configs, breaks, stops, faults>>
vars == <<durable, intact, volatile, up, history, bounds>>

Off == -1
Idle == [on |-> FALSE, run |-> 0, rev |-> 0, days |-> 1, left |-> <<>>,
         moved |-> 0, skipped |-> 0, failed |-> 0, ask |-> 0]
NoRun == [state |-> "none", moved |-> 0, skipped |-> 0, failed |-> 0]
Older(age) == Min({age + 1, MaxDays})
-----------------------------------------------------------------------------
(***************************************************************************)
(* candidates(): what is due, the texts never tried first.                 *)
(***************************************************************************)
(* The receipt of a text for its present version, stay and policy.         *)
Of(m) == {r \in receipt[m] : r.ver = text[m].ver /\ r.sgen = row[m].sgen
                             /\ r.rev = policy.rev}
Tried(m) == Of(m) # {}
Try(m) == CHOOSE r \in Of(m) : TRUE
MayRetry(m, explicit) ==
  explicit \/ ~Tried(m) \/ Try(m).state \notin {"FAILED", "SKIPPED"} \/ Try(m).old

Due(m) == text[m].zone = "staging" /\ row[m].age >= policy.days

Eligible(explicit) ==
  IF ~policy.on \/ policy.paused THEN {}
  ELSE {m \in Mem : Due(m) /\ MayRetry(m, explicit)}

Waited(m) == IF Tried(m) THEN IF Try(m).old THEN 1 ELSE 0 ELSE row[m].age
Before(m, n) ==
  \/ ~Tried(m) /\ Tried(n)
  \/ /\ Tried(m) = Tried(n)
     /\ Waited(m) > Waited(n) \/ (Waited(m) = Waited(n) /\ m < n)

Candidates(explicit) ==
  LET all == SetToSortSeq(Eligible(explicit), Before)
      some == SubSeq(all, 1, Min({Batch, Len(all)})) IN
  [i \in 1..Len(some) |-> [mem |-> some[i], ver |-> text[some[i]].ver,
                           sgen |-> row[some[i]].sgen]]

NextCheckLong ==
  IF ~policy.on \/ policy.paused \/ \A m \in Mem : text[m].zone # "staging" THEN Off
  ELSE Max({0, policy.days - Max({row[m].age : m \in {n \in Mem : text[n].zone = "staging"}})})

(* schedule(): when the first text will be due, or may be tried again.     *)
NextCheck ==
  IF ~policy.on \/ policy.paused \/ \A m \in Mem : text[m].zone # "staging" THEN Off
  ELSE IF \E m \in Mem : Due(m) /\ MayRetry(m, FALSE) THEN 0 ELSE 1

Schedule == timer' = IF timer # Off THEN timer ELSE NextCheck
-----------------------------------------------------------------------------
(***************************************************************************)
(* runBatch().                                                             *)
(***************************************************************************)
NewRun == (last % MaxRuns) + 1

(* The row of a run; receipts of the row it overwrites are of no run.      *)
Add(run, state) ==
  /\ runs' = [runs EXCEPT ![run] = [NoRun EXCEPT !.state = state]]
  /\ last' = run
  /\ made' = [made EXCEPT ![run] = {}]
  /\ receipt' = [m \in Mem |-> {[r EXCEPT !.run = IF @ = run THEN 0 ELSE @] : r \in receipt[m]}]

Begin(i) ==
  LET list == Candidates(i # 0) IN
  IF list = <<>>
  THEN /\ IF i # 0 THEN Add(NewRun, "COMPLETED") ELSE UNCHANGED <<runs, last, made, receipt>>
       /\ UNCHANGED <<batch, meanwhile>>
  ELSE /\ Add(NewRun, "RUNNING")
       /\ batch' = [Idle EXCEPT !.on = TRUE, !.run = NewRun, !.rev = policy.rev,
                      !.days = policy.days, !.left = list, !.ask = i]
       /\ meanwhile' = {}

(* The timer: nothing if a batch is under way, its end sets another.       *)
Fire ==
  /\ up /\ timer = 0
  /\ IF batch.on
     THEN timer' = Off /\ UNCHANGED <<batch, runs, last, made, receipt, meanwhile>>
     ELSE /\ Begin(0)
          /\ timer' = IF Candidates(FALSE) = <<>> THEN NextCheck ELSE Off
  /\ UNCHANGED <<text, row, policy, previews, intact, ask, up, stay, bounds>>

(* run(): with the revision the window knows; it waits for another batch.  *)
Ask(i) ==
  /\ up /\ ask[i].state = "none"
  /\ ask' = [ask EXCEPT ![i] = [state |-> "waiting", rev |-> policy.rev]]
  /\ UNCHANGED <<durable, intact, batch, timer, up, history, bounds>>

AskedRun(i) ==
  /\ up /\ ask[i].state = "waiting" /\ ~batch.on
  /\ IF ask[i].rev # policy.rev
     THEN /\ ask' = [ask EXCEPT ![i].state = "stale"]
          /\ UNCHANGED <<batch, timer, runs, last, made, receipt, meanwhile>>
     ELSE /\ Begin(i)
          /\ IF Candidates(TRUE) = <<>>
             THEN ask' = [ask EXCEPT ![i].state = "done"] /\ Schedule
             ELSE ask' = [ask EXCEPT ![i].state = "running"] /\ UNCHANGED timer
  /\ UNCHANGED <<text, row, policy, previews, intact, up, stay, bounds>>

(***************************************************************************)
(* moveDue(): everything is looked at again.                               *)
(***************************************************************************)
Head1 == Head(batch.left)

InForceStill == policy.on /\ ~policy.paused

InForce == policy.rev = batch.rev /\ policy.on /\ ~policy.paused

AsListedAnyVersion(c) ==
  text[c.mem].zone = "staging" /\ row[c.mem].sgen = c.sgen /\ row[c.mem].age >= batch.days

AsListed(c) ==
  /\ text[c.mem].ver = c.ver /\ text[c.mem].zone = "staging"
  /\ row[c.mem].sgen = c.sgen /\ row[c.mem].age >= batch.days

(* recordCandidate(): one receipt for a stay under a policy.               *)
WithReceipt(c, state, ver, own) ==
  [receipt EXCEPT ![c.mem] =
     {r \in @ : ~(r.sgen = c.sgen /\ r.rev = batch.rev)}
     \cup {[ver |-> ver, sgen |-> c.sgen, rev |-> batch.rev, state |-> state,
            run |-> own, old |-> FALSE]}]

MovedReceiptLater(c) == receipt

(* The receipt of a move is part of its transaction.                       *)
MovedReceipt(c) == WithReceipt(c, "MOVED", text[c.mem].ver + 1, batch.run)

MoveDue ==
  LET c == Head1 IN
  /\ up /\ batch.on /\ batch.left # <<>> /\ InForce /\ AsListed(c) /\ intact[c.mem]
  /\ text' = [text EXCEPT ![c.mem].zone = "trash", ![c.mem].ver = @ + 1]
  /\ row' = [row EXCEPT ![c.mem].age = 0]
  /\ receipt' = MovedReceipt(c)
  /\ made' = [made EXCEPT ![batch.run] = @ \cup {c.mem}]
  /\ batch' = [batch EXCEPT !.left = Tail(@), !.moved = @ + 1]
  /\ UNCHANGED <<policy, previews, runs, last, intact, ask, timer, up, stay, meanwhile,
                 bounds>>

Skip ==
  LET c == Head1 IN
  /\ up /\ batch.on /\ batch.left # <<>> /\ ~(InForce /\ AsListed(c))
  /\ receipt' = WithReceipt(c, "SKIPPED", c.ver, batch.run)
  /\ batch' = [batch EXCEPT !.left = Tail(@), !.skipped = @ + 1]
  /\ UNCHANGED <<text, row, policy, previews, runs, last, intact, ask, timer, up, history,
                 bounds>>

(* The file is not what was accepted, or the storage fails.                *)
Fail ==
  LET c == Head1 IN
  /\ up /\ batch.on /\ batch.left # <<>>
  /\ \/ InForce /\ AsListed(c) /\ ~intact[c.mem] /\ UNCHANGED faults
     \/ faults < MaxFaults /\ faults' = faults + 1
  /\ receipt' = WithReceipt(c, "FAILED", c.ver, batch.run)
  /\ batch' = [batch EXCEPT !.left = Tail(@), !.failed = @ + 1]
  /\ UNCHANGED <<text, row, policy, previews, runs, last, intact, ask, timer, up, history,
                 edits, moves, configs, breaks, stops>>

Answered(state) == ask' = IF batch.ask = 0 THEN ask ELSE [ask EXCEPT ![batch.ask].state = state]

SoonForgotten == timer' = timer

(* rescheduleSoon().                                                       *)
Soon == timer' = 0

End ==
  /\ up /\ batch.on /\ batch.left = <<>>
  /\ runs' = [runs EXCEPT ![batch.run] =
                [state |-> IF batch.failed > 0 THEN "FAILED" ELSE "COMPLETED",
                 moved |-> batch.moved, skipped |-> batch.skipped, failed |-> batch.failed]]
  /\ batch' = Idle /\ Answered("done") /\ Soon
  /\ UNCHANGED <<text, row, policy, previews, receipt, last, intact, up, history, bounds>>

(* The storage fails where it is not caught: at the start of a batch, for  *)
(* the receipt of a failure, or at the end.  The row of the run stays      *)
(* RUNNING; only a batch of the timer is taken up again, a day later.      *)
Break ==
  /\ up /\ faults < MaxFaults /\ faults' = faults + 1
  /\ \/ /\ batch.on
        /\ batch' = Idle /\ Answered("failed")
        /\ timer' = IF batch.ask = 0 THEN 1 ELSE timer
     \/ /\ timer = 0 /\ ~batch.on /\ timer' = 1 /\ UNCHANGED <<batch, ask>>
     \/ \E i \in 1..Asks : /\ ask[i].state = "waiting" /\ ~batch.on
                           /\ ask' = [ask EXCEPT ![i].state = "failed"]
                           /\ UNCHANGED <<batch, timer>>
  /\ UNCHANGED <<durable, intact, up, history, edits, moves, configs, breaks, stops>>
-----------------------------------------------------------------------------
(***************************************************************************)
(* preview() and configure().  All pending previews are closed, whoever    *)
(* asked for them.                                                         *)
(***************************************************************************)
Preview(s) ==
  /\ up /\ configs < MaxConfigs /\ configs' = configs + 1
  /\ previews' = previews \cup {[rev |-> policy.rev, set |-> s]}
  /\ UNCHANGED <<text, row, policy, receipt, runs, last, intact, volatile, up, history,
                 edits, moves, breaks, stops, faults>>

Configure(p) ==
  /\ up /\ p \in previews /\ p.rev = policy.rev
  /\ policy' = [rev |-> policy.rev + 1, on |-> p.set.on, days |-> p.set.days, paused |-> FALSE]
  /\ previews' = {}
  /\ Soon
  /\ UNCHANGED <<text, row, receipt, runs, last, intact, batch, ask, up, history, bounds>>

(***************************************************************************)
(* Others change a text: recordTransition() keeps the age of a stay over   *)
(* edits and begins another stay when a text comes back.                   *)
(***************************************************************************)
EntryKept(m) == row[m]
EntrySame(m) == [age |-> 0, sgen |-> row[m].sgen]
EntryNew(m) == [age |-> 0, sgen |-> row[m].sgen + 1]

Edit(m) ==
  /\ up /\ edits < MaxEdits /\ edits' = edits + 1
  /\ text' = [text EXCEPT ![m].ver = @ + 1]
  /\ row' = [row EXCEPT ![m] = EntryKept(m)]
  /\ intact' = [intact EXCEPT ![m] = TRUE]
  /\ Soon /\ meanwhile' = meanwhile \cup {m}
  /\ UNCHANGED <<policy, previews, receipt, runs, last, batch, ask, up, stay, made,
                 moves, configs, breaks, stops, faults>>

MoveText(m, z) ==
  /\ up /\ moves < MaxMoves /\ moves' = moves + 1
  /\ text[m].zone # z /\ intact[m]
  /\ text' = [text EXCEPT ![m] = [zone |-> z, ver |-> @.ver + 1]]
  /\ row' = [row EXCEPT ![m] = IF z = "staging" THEN EntryNew(m) ELSE [@ EXCEPT !.age = 0]]
  /\ stay' = [stay EXCEPT ![m] = 0]
  /\ Soon /\ meanwhile' = meanwhile \cup {m}
  /\ UNCHANGED <<policy, previews, receipt, runs, last, intact, batch, ask, up, made,
                 edits, configs, breaks, stops, faults>>

(* Outside: a file is damaged, or put back.                                *)
Damage(m) ==
  /\ breaks < MaxBreaks /\ breaks' = breaks + 1
  /\ intact' = [intact EXCEPT ![m] = ~@]
  /\ UNCHANGED <<durable, volatile, up, history, edits, moves, configs, stops, faults>>

Day ==
  /\ stay' = [m \in Mem |-> IF text[m].zone = "staging" THEN Older(stay[m]) ELSE 0]
  /\ row' = [m \in Mem |-> IF text[m].zone = "staging" THEN [row[m] EXCEPT !.age = Older(@)]
                           ELSE row[m]]
  /\ receipt' = [m \in Mem |-> {[r EXCEPT !.old = TRUE] : r \in receipt[m]}]
  /\ timer' = IF timer = 1 THEN 0 ELSE timer
  /\ UNCHANGED <<text, policy, previews, runs, last, intact, batch, ask, up, made,
                 meanwhile, bounds>>
-----------------------------------------------------------------------------
Halt ==
  /\ up /\ stops < MaxStops /\ stops' = stops + 1
  /\ up' = FALSE /\ batch' = Idle /\ timer' = Off
  /\ ask' = [i \in 1..Asks |-> [ask[i] EXCEPT !.state =
                                  IF @ \in {"waiting", "running"} THEN "failed" ELSE @]]
  /\ UNCHANGED <<durable, intact, history, edits, moves, configs, breaks, faults>>

(* recoverInterruptedRuns(): counted by the receipts.                      *)
ReceiptsOf(run, state) ==
  Cardinality({m \in Mem : \E r \in receipt[m] : r.run = run /\ r.state = state})

Recovered ==
  [r \in Run |-> IF runs[r].state # "RUNNING" THEN runs[r]
     ELSE [state |-> "FAILED", moved |-> ReceiptsOf(r, "MOVED"),
           skipped |-> ReceiptsOf(r, "SKIPPED"), failed |-> ReceiptsOf(r, "FAILED")]]

Restart ==
  /\ ~up /\ up' = TRUE
  /\ runs' = Recovered
  /\ timer' = NextCheck
  /\ UNCHANGED <<text, row, policy, previews, receipt, last, intact, batch, ask, history,
                 bounds>>

Init ==
  /\ text = [m \in Mem |-> [zone |-> "staging", ver |-> 1]]
  /\ row = [m \in Mem |-> [age |-> 0, sgen |-> 1]]
  /\ \E s \in Settings, paused \in BOOLEAN :
       policy = [rev |-> 1, on |-> s.on, days |-> s.days, paused |-> paused]
  /\ previews = {} /\ receipt = [m \in Mem |-> {}]
  /\ runs = [r \in Run |-> NoRun] /\ last = 0
  /\ intact = [m \in Mem |-> TRUE]
  /\ batch = Idle /\ ask = [i \in 1..Asks |-> [state |-> "none", rev |-> 0]]
  /\ timer = Off /\ up = FALSE
  /\ stay = [m \in Mem |-> 0] /\ made = [r \in Run |-> {}] /\ meanwhile = {}
  /\ edits = 0 /\ moves = 0 /\ configs = 0 /\ breaks = 0 /\ stops = 0 /\ faults = 0

Next ==
  \/ Fire \/ \E i \in 1..Asks : Ask(i) \/ AskedRun(i)
  \/ MoveDue \/ Skip \/ Fail \/ End \/ Break
  \/ \E s \in Settings : Preview(s)
  \/ \E p \in previews : Configure(p)
  \/ \E m \in Mem : \/ Edit(m) \/ Damage(m)
                    \/ \E z \in Zone : MoveText(m, z)
  \/ Day \/ Halt \/ Restart

Spec == Init /\ [][Next]_vars

(* Turns of the event loop and timers come, days pass, and the process is  *)
(* started again.                                                          *)
FairSpec ==
  /\ Spec /\ WF_vars(Fire) /\ WF_vars(MoveDue \/ Skip \/ Fail \/ End)
  /\ WF_vars(\E i \in 1..Asks : AskedRun(i)) /\ WF_vars(Day) /\ WF_vars(Restart)
-----------------------------------------------------------------------------
(* The variables have their types.                                         *)
TypeOK ==
  /\ text \in [Mem -> [zone : Zone, ver : Nat]]
  /\ row \in [Mem -> [age : 0..MaxDays, sgen : Nat]]
  /\ policy \in [rev : Nat, on : BOOLEAN, days : 1..MaxDays, paused : BOOLEAN]
  /\ \A m \in Mem : receipt[m] \subseteq
       [ver : Nat, sgen : Nat, rev : Nat, state : {"MOVED", "SKIPPED", "FAILED"},
        run : Run \cup {0}, old : BOOLEAN]
  /\ runs \in [Run -> [state : {"none", "RUNNING", "COMPLETED", "FAILED"},
                       moved : Nat, skipped : Nat, failed : Nat]]
  /\ last \in Run \cup {0} /\ intact \in [Mem -> BOOLEAN]
  /\ batch.on \in BOOLEAN /\ batch.run \in Run \cup {0}
  /\ timer \in {Off, 0, 1} /\ up \in BOOLEAN

Expired(m) == \E r \in Run : m \in made'[r] \ made[r]

(* A text goes to the trash by itself only under the policy in force then, *)
(* after all of its period since it last came to staging, and as it was    *)
(* when the batch listed it: whatever was edited, moved or configured      *)
(* between the turns of the batch.                                         *)
NeverEarlyStep ==
  \A m \in Mem : Expired(m) =>
    /\ policy.on /\ ~policy.paused /\ stay[m] >= policy.days
    /\ m \notin meanwhile

NeverEarly == [][NeverEarlyStep]_vars

(* What a run reports to have moved is what it moved, also when it was cut *)
(* off between two texts and settled at the next start.                    *)
RunsAreHonest ==
  \A r \in Run : runs[r].state \in {"COMPLETED", "FAILED"} =>
    runs[r].moved = Cardinality(made[r])

(* A receipt of a move is about a stay that is over: a text that came back *)
(* to staging has none, so it is listed and reported anew.                 *)
MovedIsOver ==
  \A m \in Mem : \A r \in receipt[m] :
    r.state = "MOVED" /\ r.sgen = row[m].sgen => text[m].zone # "staging"

(* What is due goes: unless its file is damaged, or the policy changes.    *)
Held(m) == ~policy.on \/ policy.paused \/ ~intact[m] \/ text[m].zone # "staging"
DueIsMoved == \A m \in Mem : (up /\ Due(m)) ~> (Held(m) \/ ~Due(m))
==============================================================================
