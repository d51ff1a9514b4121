------------------------------ MODULE Reminders ------------------------------
(***************************************************************************)
(* The reminder scheduler: src/main/reminder/reminder-service.ts with the  *)
(* runtime that drives it (reminder-runtime.ts) and the item writes that   *)
(* stop a reminder (item-service.ts).                                      *)
(*                                                                         *)
(* The main process is single threaded.  An action is one synchronous      *)
(* section of it, cut at the SQLite commits between which the process can  *)
(* die: a tick commits its claims first and shows one notification after   *)
(* the other afterwards.  While claims wait in "batches", or a handler     *)
(* still owes the tick it ends with ("owed"), only that handler runs.      *)
(***************************************************************************)
EXTENDS Integers, FiniteSets

CONSTANTS
  Item,           \* ids of formal items
  Reminder,       \* ids of reminders: integers, so that ids are ordered
  ItemOf,         \* the item a reminder is created for
  MaxVersion,     \* bound: versions a reminder may reach
  MaxTime,        \* bound: the clock runs over 0..MaxTime
  Gap,            \* a silence between ticks longer than this is a recovery
  DefaultCatchUp, \* the catch-up window used before the user configures one
  Policies,       \* the policies a user may save
  MaxSettings,    \* bound: how often the policy is saved
  MaxStops,       \* bound: exits and crashes of the process
  MaxFaults,      \* bound: storage errors raised while dispatching
  None            \* "no tick in this process yet"

Versions == 1..MaxVersion
Time == 0..MaxTime
Waiting == {"SCHEDULED", "RECOVERY_PENDING"}
Outcomes == {"DISPATCHING", "DISPLAY_OBSERVED", "FAILED", "RESULT_UNKNOWN"}
Terminal == {"CANCELLED", "HANDLED", "EXPIRED"}
States == {"ABSENT"} \cup Waiting \cup Outcomes \cup Terminal
Policy == [mode : {"UNCONFIGURED", "EXPLICIT"}, catchUp : Nat, merge : BOOLEAN]

ASSUME ReminderAssumption ==
  /\ Reminder \subseteq Nat
  /\ ItemOf \in [Reminder -> Item]
  /\ MaxVersion \in Nat /\ MaxTime \in Nat /\ Gap \in Nat
  /\ DefaultCatchUp \in Nat /\ MaxSettings \in Nat
  /\ MaxStops \in Nat /\ MaxFaults \in Nat
  /\ Policies \subseteq Policy
  /\ None \notin Int

VARIABLES
  item,        \* durable: status of every formal item
  reminders,   \* durable: the reminders table
  occurrences, \* durable: reminder_occurrences, one row per dispatched version
  settings,    \* durable: reminder_settings
  now,         \* the wall clock
  native,      \* notifications (groups) in the operating system's centre
  phase,       \* "down"; "boot": IPC served, runtime not attached; "run"
  owed,        \* the handler, if any, that still has to call tick(true)
  batches,     \* groups claimed by the running tick and not yet dispatched
  lastTick,    \* volatile: clock at the previous tick
  notices,     \* volatile: Map from identity to the notification showing it
  timers,      \* volatile: groups whose 10 s observation timer is armed
  bound,       \* volatile: groups whose native callbacks reach this process
  faulted,     \* volatile: a dispatch of this process raised a storage error
  shown,       \* history: native shows requested for an identity
  halted,      \* history: identities alive when their item was closed
  stops,       \* bound counter: exits and crashes so far
  faults       \* bound counter: storage errors so far

process == <<phase, owed, batches, lastTick, timers, bound, faulted>>
counters == <<stops, faults>>
history == <<shown, halted>>
vars == <<item, reminders, occurrences, settings, now, native,
          process, notices, history, counters>>

Identity == Reminder \X Versions
NoReminder == [version |-> 0, state |-> "ABSENT", due |-> 0]

Valid(r) == item[ItemOf[r]] = "open"
Live(rm, r) == rm[r].version > 0 /\ rm[r].state \notin Terminal
Current(rm, k) == rm[k[1]].version = k[2]
IdentityOf(r) == <<r, reminders[r].version>>

Up == phase \in {"boot", "run"}
Idle == Up /\ owed = "none" /\ batches = {}

EffectivePolicy ==
  IF settings.version = 0 /\ settings.policy.mode = "UNCONFIGURED"
  THEN [mode |-> "EXPLICIT", catchUp |-> DefaultCatchUp, merge |-> TRUE]
  ELSE settings.policy

(***************************************************************************)
(* reconcile(): reminders of items that no longer accept them are          *)
(* cancelled, and a notification none of whose members is current, live    *)
(* and valid any more is closed.                                           *)
(***************************************************************************)
Reconciled(rm) ==
  [r \in Reminder |->
     IF Live(rm, r) /\ ~Valid(r) THEN [rm[r] EXCEPT !.state = "CANCELLED"]
                                 ELSE rm[r]]

Serves(rm, k) == Current(rm, k) /\ Live(rm, k[1]) /\ Valid(k[1])

(* Wrong variant: withdraws a merged notice with its first retired member. *)
CloseNoticesEagerly(rm) ==
  LET kept == {n \in notices : Serves(rm, n.key)}
  IN /\ notices' = kept
     /\ native' = native \ {n.group : n \in notices \ kept}

(* Wrong variant: forgets the notice without withdrawing it.               *)
ForgetNotices(rm) ==
  /\ notices' = {n \in notices : Serves(rm, n.key)}
  /\ UNCHANGED native

CloseNotices(rm) ==
  LET kept == {n \in notices : Serves(rm, n.key)}
      retired == {n.group : n \in notices \ kept}
  IN /\ notices' = kept
     /\ native' = native \ (retired \ {n.group : n \in kept})

Reconcile(rm) == reminders' = Reconciled(rm) /\ CloseNotices(reminders')

-----------------------------------------------------------------------------
(***************************************************************************)
(* Explicit mutations.  A request naming another version than the current  *)
(* one is refused without effect; "expected" is therefore the version read.*)
(* Every mutation bumps the version, so it names a fresh occurrence.       *)
(***************************************************************************)
(* Wrong variant: a rescheduled reminder keeps its version.                *)
SameVersion(r) == IF reminders[r].version = 0 THEN 1 ELSE reminders[r].version

NextVersion(r) == reminders[r].version + 1

Apply(r, state, due) ==
  /\ Idle
  /\ NextVersion(r) <= MaxVersion
  /\ Reconcile([reminders EXCEPT ![r] =
                  [version |-> NextVersion(r), state |-> state, due |-> due]])
  /\ UNCHANGED <<item, occurrences, settings, now, process, history,
                 counters>>

Schedule(r) ==        \* create (version 0) and reschedule
  \E due \in {d \in Time : d > now} : Valid(r) /\ Apply(r, "SCHEDULED", due)

Resolve(r) ==         \* cancel and handle: no condition on the present state
  /\ reminders[r].version > 0
  /\ \E state \in {"CANCELLED", "HANDLED"} : Apply(r, state, reminders[r].due)

Query ==              \* an IPC query reconciles before it answers
  /\ Idle
  /\ Reconcile(reminders)
  /\ UNCHANGED <<item, occurrences, settings, now, process, history,
                 counters>>

(***************************************************************************)
(* Item writes.  Completing or cancelling an item cancels its reminders in *)
(* the same transaction; deleting it leaves that to the next reconcile.    *)
(* Neither touches the notifications on screen.                            *)
(***************************************************************************)
Alive(i) == {r \in Reminder : ItemOf[r] = i /\ Live(reminders, r)}

(* Wrong variant: closing an item leaves its reminders to the next tick.   *)
StopNothing(i) == reminders

StopReminders(i) ==
  [r \in Reminder |-> IF r \in Alive(i)
                      THEN [reminders[r] EXCEPT !.state = "CANCELLED"]
                      ELSE reminders[r]]

WriteItem(i, status) ==
  /\ Idle
  /\ item' = [item EXCEPT ![i] = status]
  /\ halted' = IF status = "open" THEN halted
               ELSE halted \cup {IdentityOf(r) : r \in Alive(i)}
  /\ UNCHANGED <<occurrences, settings, now, native, process,
                 notices, shown, counters>>

CloseItem(i) ==
  /\ item[i] = "open"
  /\ reminders' = StopReminders(i)
  /\ WriteItem(i, "closed")

ReopenItem(i) ==
  /\ item[i] = "closed"
  /\ UNCHANGED reminders
  /\ WriteItem(i, "open")

DeleteItem(i) ==
  /\ item[i] # "gone"
  /\ UNCHANGED reminders
  /\ WriteItem(i, "gone")

-----------------------------------------------------------------------------
(***************************************************************************)
(* tick(): reconcile, then one transaction that decides every reminder     *)
(* that is due.  "Missed" reminders follow the catch-up policy; the rest   *)
(* are claimed by inserting their occurrence, which succeeds once.         *)
(***************************************************************************)
Recovering(recovery) ==
  recovery \/ (lastTick # None /\ (now - lastTick > Gap \/ now < lastTick))

(* Wrong variant: a reminder due at this very instant is not yet due.      *)
DueBefore(rm, r) == rm[r].state \in Waiting /\ rm[r].due < now /\ Valid(r)

Due(rm, r) == rm[r].state \in Waiting /\ rm[r].due <= now /\ Valid(r)

Missed(rm, rec, r) ==
  Due(rm, r) /\ (rec \/ rm[r].state = "RECOVERY_PENDING")

(* Wrong variant: reminders due at the same time are all the latest.       *)
NoneLater(rm, rec, r) ==
  \A q \in Reminder :
    (Missed(rm, rec, q) /\ ItemOf[q] = ItemOf[r]) => rm[q].due <= rm[r].due

LatestMissed(rm, rec, r) ==
  \A q \in Reminder :
    (Missed(rm, rec, q) /\ ItemOf[q] = ItemOf[r] /\ q # r) =>
      \/ rm[q].due < rm[r].due
      \/ rm[q].due = rm[r].due /\ q < r

Held(rm, rec, r) ==
  Missed(rm, rec, r) /\ EffectivePolicy.mode = "UNCONFIGURED"

Lapsed(rm, rec, r) ==
  /\ Missed(rm, rec, r) /\ ~Held(rm, rec, r)
  /\ \/ ~LatestMissed(rm, rec, r)
     \/ EffectivePolicy.catchUp = 0
     \/ now - rm[r].due > EffectivePolicy.catchUp

Claimed(rm, rec, r) ==
  /\ Due(rm, r) /\ ~Held(rm, rec, r) /\ ~Lapsed(rm, rec, r)
  /\ occurrences[r][rm[r].version] = "NONE"

(* Wrong variant: expires a reminder into a state the schema lacks.        *)
DecidedMissed(rm, rec, r) ==
  IF Lapsed(rm, rec, r) THEN "MISSED" ELSE rm[r].state

Decided(rm, rec, r) ==
  CASE Held(rm, rec, r)    -> "RECOVERY_PENDING"
    [] Lapsed(rm, rec, r)  -> "EXPIRED"
    [] Claimed(rm, rec, r) -> "DISPATCHING"
    [] OTHER               -> rm[r].state

(* Wrong variant: merging adds the common batch to the single ones.        *)
BatchedTwice(identities) ==
  ({identities} \ {{}}) \cup {{k} : k \in identities}

Batched(identities) ==
  IF EffectivePolicy.mode = "EXPLICIT" /\ EffectivePolicy.merge
  THEN {identities} \ {{}}
  ELSE {{k} : k \in identities}

Claim(recovery) ==
  LET rec == Recovering(recovery)
      rm == Reconciled(reminders)
      claimed == {r \in Reminder : Claimed(rm, rec, r)}
  IN /\ reminders' = [r \in Reminder |->
                        [rm[r] EXCEPT !.state = Decided(rm, rec, r)]]
     /\ occurrences' = [r \in Reminder |-> [v \in Versions |->
                          IF r \in claimed /\ v = rm[r].version
                          THEN "DISPATCHING" ELSE occurrences[r][v]]]
     /\ batches' = Batched({<<r, rm[r].version>> : r \in claimed})
     /\ CloseNotices(rm)
     /\ lastTick' = now
     /\ UNCHANGED <<item, settings, now, phase, timers, bound,
                    faulted, history, counters>>

Tick(recovery) ==     \* the 1 s interval, or the resume event (recovery)
  /\ phase = "run" /\ Idle
  /\ Claim(recovery)
  /\ UNCHANGED owed

OwedTick ==           \* the tick(true) configure() and recover() end with
  /\ owed # "none"
  /\ owed' = "none"
  /\ Claim(TRUE)

(* A storage error rolls the claims back, but lastTick is already set.  In *)
(* recover() it ends the start-up instead: that is a Stop.                 *)
TickFault ==
  /\ (phase = "run" /\ Idle) \/ owed = "configure"
  /\ faults < MaxFaults
  /\ faults' = faults + 1
  /\ owed' = "none"
  /\ lastTick' = now
  /\ Reconcile(reminders) \/ UNCHANGED <<reminders, notices, native>>
  /\ UNCHANGED <<item, occurrences, settings, now, phase, batches, timers,
                 bound, faulted, history, stops>>

Configure(policy) ==
  /\ Idle
  /\ settings.version < MaxSettings
  /\ settings' = [version |-> settings.version + 1, policy |-> policy]
  /\ owed' = "configure"
  /\ UNCHANGED <<item, reminders, occurrences, now, native, phase,
                 batches, lastTick, timers, bound, faulted, notices, history,
                 counters>>

-----------------------------------------------------------------------------
(***************************************************************************)
(* settle(): a dispatch result is recorded only for members whose version  *)
(* and state still wait for one and whose item still accepts reminders.    *)
(***************************************************************************)
(* Wrong variant: a late result is recorded whatever the present state.    *)
SettlesAlways(g, outcome, r) == IdentityOf(r) \in g /\ Valid(r)

Settles(g, outcome, r) ==
  /\ IdentityOf(r) \in g
  /\ \/ reminders[r].state \in {"DISPATCHING", "RESULT_UNKNOWN"}
     \/ outcome = "FAILED" /\ reminders[r].state = "DISPLAY_OBSERVED"
  /\ Valid(r)

Settle(g, outcome) ==
  /\ reminders' = [r \in Reminder |->
                     IF Settles(g, outcome, r)
                     THEN [reminders[r] EXCEPT !.state = outcome]
                     ELSE reminders[r]]
  /\ occurrences' = [r \in Reminder |-> [v \in Versions |->
                       IF Settles(g, outcome, r) /\ v = reminders[r].version
                       THEN outcome ELSE occurrences[r][v]]]

(***************************************************************************)
(* dispatch(): one batch, filtered once more, recorded and shown.          *)
(***************************************************************************)
Dispatchable(batch) ==
  {k \in batch : /\ Current(reminders, k)
                 /\ reminders[k[1]].state = "DISPATCHING"
                 /\ Valid(k[1])}

Begin(batch) ==
  /\ owed = "none" /\ batch \in batches
  /\ batches' = batches \ {batch}
  /\ UNCHANGED <<item, settings, now, phase, owed, lastTick, halted, stops>>

Counted(g) ==
  shown' = [r \in Reminder |-> [v \in Versions |->
              IF <<r, v>> \in g THEN shown[r][v] + 1 ELSE shown[r][v]]]

Show(batch) ==        \* the native call returned
  LET g == Dispatchable(batch)
  IN /\ phase = "run" /\ Begin(batch) /\ g # {}
     /\ Counted(g)
     /\ native' = native \cup {g}
     /\ notices' = {n \in notices : n.key \notin g}
                     \cup {[key |-> k, group |-> g] : k \in g}
     /\ timers' = timers \cup {g}
     /\ bound' = bound \cup {g}
     /\ UNCHANGED <<reminders, occurrences, faulted, faults>>

ShowThrows(batch) ==  \* the native call threw, before or after displaying
  LET g == Dispatchable(batch)
  IN /\ phase = "run" /\ Begin(batch) /\ g # {}
     /\ \/ Counted(g) /\ native' = native \cup {g}
        \/ UNCHANGED <<shown, native>>
     /\ Settle(g, "RESULT_UNKNOWN")
     /\ UNCHANGED <<notices, timers, bound, faulted, faults>>

Unsupported(batch) == \* no notifications here, or no platform attached yet
  LET g == Dispatchable(batch)
  IN /\ Begin(batch) /\ g # {}
     /\ Settle(g, "FAILED")
     /\ UNCHANGED <<native, notices, timers, bound, faulted, shown, faults>>

(* A storage error leaves tick() and the later batches are lost; it may be *)
(* the record of a native call that threw after displaying.                *)
DispatchFault ==
  /\ owed = "none" /\ batches # {} /\ faults < MaxFaults
  /\ \/ UNCHANGED <<shown, native>>
     \/ \E batch \in batches :
          /\ phase = "run" /\ Dispatchable(batch) # {}
          /\ Counted(Dispatchable(batch))
          /\ native' = native \cup {Dispatchable(batch)}
  /\ batches' = {}
  /\ faulted' = TRUE
  /\ faults' = faults + 1
  /\ UNCHANGED <<item, reminders, occurrences, settings, now, phase, owed,
                 lastTick, timers, bound, notices, halted, stops>>

NativeEvent(g) ==     \* "show" and "failed", late, repeated, in any order
  /\ Idle /\ g \in bound
  /\ \E outcome \in {"DISPLAY_OBSERVED", "FAILED"} : Settle(g, outcome)
  /\ UNCHANGED <<item, settings, now, native, process, notices,
                 history, counters>>

ObservationTimeout(g) ==
  /\ Idle /\ g \in timers
  /\ timers' = timers \ {g}
  /\ Settle(g, "RESULT_UNKNOWN")
  /\ UNCHANGED <<item, settings, now, native, phase, owed, batches,
                 lastTick, bound, faulted, notices, history, counters>>

-----------------------------------------------------------------------------
(***************************************************************************)
(* Process life.  IPC is served from "boot" on; the reminder runtime       *)
(* attaches the platform and recovers only once the window has loaded.     *)
(***************************************************************************)
Start ==
  /\ phase = "down"
  /\ phase' = "boot"
  /\ UNCHANGED <<item, reminders, occurrences, settings, now, native,
                 owed, batches, lastTick, timers, bound, faulted, notices,
                 history, counters>>

(* Wrong variant: recovery overlooks the claims of the previous process.   *)
InterruptedNever(r) == FALSE

Interrupted(r) == reminders[r].state = "DISPATCHING"

Recover ==            \* attach(), then the first transaction of recover()
  /\ phase = "boot" /\ Idle
  /\ phase' = "run"
  /\ owed' = "recover"
  /\ reminders' = [r \in Reminder |->
                     IF Interrupted(r)
                     THEN [reminders[r] EXCEPT !.state = "RESULT_UNKNOWN"]
                     ELSE reminders[r]]
  /\ occurrences' = [r \in Reminder |-> [v \in Versions |->
                       IF Interrupted(r) /\ v = reminders[r].version
                       THEN "RESULT_UNKNOWN" ELSE occurrences[r][v]]]
  /\ UNCHANGED <<item, settings, now, native, batches, lastTick,
                 timers, bound, faulted, notices, history, counters>>

Stop ==               \* exit or crash: between any two commits
  /\ Up /\ stops < MaxStops
  /\ stops' = stops + 1
  /\ phase' = "down" /\ owed' = "none" /\ batches' = {} /\ lastTick' = None
  /\ notices' = {} /\ timers' = {} /\ bound' = {} /\ faulted' = FALSE
  /\ UNCHANGED <<item, reminders, occurrences, settings, now, native,
                 history, faults>>

SetClock(t) ==
  /\ phase = "down" \/ Idle
  /\ now' = t
  /\ UNCHANGED <<item, reminders, occurrences, settings, native,
                 process, notices, history, counters>>

Elapse == now < MaxTime /\ SetClock(now + 1)
ClockJump == \E t \in Time \ {now} : SetClock(t)  \* sleep, or clock changed

-----------------------------------------------------------------------------
Init ==
  /\ item = [i \in Item |-> "open"]
  /\ reminders = [r \in Reminder |-> NoReminder]
  /\ occurrences = [r \in Reminder |-> [v \in Versions |-> "NONE"]]
  /\ settings = [version |-> 0,
                 policy |-> [mode |-> "UNCONFIGURED", catchUp |-> 0,
                             merge |-> FALSE]]
  /\ now = 0 /\ native = {}
  /\ phase = "down" /\ owed = "none" /\ batches = {} /\ lastTick = None
  /\ notices = {} /\ timers = {} /\ bound = {} /\ faulted = FALSE
  /\ shown = [r \in Reminder |-> [v \in Versions |-> 0]]
  /\ halted = {}
  /\ stops = 0 /\ faults = 0

UserStep ==
  \/ \E r \in Reminder : Schedule(r) \/ Resolve(r)
  \/ \E i \in Item : CloseItem(i) \/ ReopenItem(i) \/ DeleteItem(i)
  \/ \E policy \in Policies : Configure(policy)
  \/ Query

DispatchStep ==
  \E batch \in batches :
    Show(batch) \/ ShowThrows(batch) \/ Unsupported(batch)

CallbackStep ==
  \/ \E g \in bound : NativeEvent(g)
  \/ \E g \in timers : ObservationTimeout(g)

Next ==
  \/ UserStep
  \/ \E recovery \in BOOLEAN : Tick(recovery)
  \/ OwedTick
  \/ TickFault
  \/ DispatchStep
  \/ DispatchFault
  \/ CallbackStep
  \/ Start \/ Recover \/ Stop
  \/ Elapse \/ ClockJump

(* The interval, the timers and the code after a commit run while the      *)
(* process is up; the user is assumed to start the application again.      *)
Fairness ==
  /\ WF_vars(Start) /\ WF_vars(Recover) /\ WF_vars(OwedTick)
  /\ WF_vars(DispatchStep)
  /\ SF_vars(Tick(FALSE))
  /\ \A g \in SUBSET Identity : SF_vars(ObservationTimeout(g))

Spec == Init /\ [][Next]_vars
FairSpec == Spec /\ Fairness
-----------------------------------------------------------------------------
(* Every variable keeps the shape the schema and the service give it.      *)
TypeOK ==
  /\ item \in [Item -> {"open", "closed", "gone"}]
  /\ reminders \in [Reminder -> [version : 0..MaxVersion, state : States,
                                 due : Time]]
  /\ occurrences \in [Reminder -> [Versions -> {"NONE"} \cup Outcomes]]
  /\ settings \in [version : 0..MaxSettings, policy : Policy]
  /\ now \in Time
  /\ native \subseteq SUBSET Identity
  /\ phase \in {"down", "boot", "run"} /\ owed \in {"none", "configure", "recover"}
  /\ batches \subseteq SUBSET Identity
  /\ lastTick \in Time \cup {None}
  /\ notices \subseteq [key : Identity, group : SUBSET Identity]
  /\ timers \subseteq SUBSET Identity /\ bound \subseteq SUBSET Identity
  /\ faulted \in BOOLEAN
  /\ shown \in [Reminder -> [Versions -> Nat]]
  /\ halted \subseteq Identity
  /\ stops \in 0..MaxStops /\ faults \in 0..MaxFaults

(* "Repeated system events and dispatch retries cannot send the same       *)
(* reminder twice": over ticks, resumes, crashes at any commit and         *)
(* restarts, the native call is made at most once for a reminder version.  *)
AtMostOneShow == \A r \in Reminder, v \in Versions : shown[r][v] <= 1

(* A reminder that is still waiting, or was given up as too old, was never *)
(* shown in that version; one with a dispatch result has the same result   *)
(* in its occurrence row.                                                  *)
OccurrenceAgrees ==
  \A r \in Reminder :
    LET rm == reminders[r] IN
    /\ rm.state \in Waiting \cup {"EXPIRED"} =>
         occurrences[r][rm.version] = "NONE" /\ shown[r][rm.version] = 0
    /\ rm.state \in Outcomes => occurrences[r][rm.version] = rm.state

(* What makes the two properties above inductive: a version beyond the     *)
(* current one has no occurrence; whatever was shown has one; the claims   *)
(* a tick still has to dispatch are current, unshown and in one batch; and *)
(* a handler that owes a tick has no batch left, nor has a stopped process.*)
Numbered ==
  \A r \in Reminder : reminders[r].version = 0 <=> reminders[r].state = "ABSENT"

FutureUnclaimed ==
  \A r \in Reminder, v \in Versions :
    v > reminders[r].version => occurrences[r][v] = "NONE"

ShownIsClaimed ==
  \A r \in Reminder, v \in Versions :
    occurrences[r][v] = "NONE" => shown[r][v] = 0

PendingIsClaimed ==
  \A batch \in batches : \A k \in batch :
    /\ Current(reminders, k) /\ reminders[k[1]].state = "DISPATCHING"
    /\ shown[k[1]][k[2]] = 0
    /\ \A other \in batches : k \in other => other = batch

OneHandler ==
  /\ phase = "down" => owed = "none" /\ batches = {}
  /\ owed # "none" => batches = {}

ClaimInv ==
  /\ TypeOK /\ Numbered /\ OneHandler
  /\ AtMostOneShow /\ OccurrenceAgrees
  /\ FutureUnclaimed /\ ShownIsClaimed /\ PendingIsClaimed

(* While the runtime is up and its storage answers, a reminder left in     *)
(* DISPATCHING has an armed timer that will give it a final result: no     *)
(* claim is forgotten by the process that made it.                         *)
DispatchingIsWatched ==
  (phase = "run" /\ Idle /\ ~faulted) =>
    \A r \in Reminder :
      (reminders[r].state = "DISPATCHING" /\ Valid(r)) =>
        \E g \in timers : IdentityOf(r) \in g

(* A late callback, a timer, a tick or a restart never leaves a terminal   *)
(* state: only an explicit mutation does, and it bumps the version.        *)
TerminalNeedsNewVersion ==
  [][\A r \in Reminder :
       (reminders[r].state \in Terminal /\ reminders'[r].state # reminders[r].state)
         => reminders'[r].version > reminders[r].version]_vars

(* Closing an item stops its reminders for good: reopening it before the   *)
(* next tick, or restarting, does not revive the old occurrence.           *)
HaltedNeverShown ==
  [][\A k \in halted : shown'[k[1]][k[2]] = shown[k[1]][k[2]]]_vars

(* ... because its version is past, terminal, or of a deleted item.        *)
HaltedIsOver ==
  \A k \in halted :
    \/ reminders[k[1]].version > k[2]
    \/ /\ Current(reminders, k)
       /\ \/ reminders[k[1]].state \in Terminal
          \/ item[ItemOf[k[1]]] = "gone"

(* A merged notification belongs to all its members: it is withdrawn only  *)
(* when none of them is current, live and valid.                           *)
WithdrawnOnlyWhenRetiredStep ==
  \A g \in native \ native' : \A k \in g : ~Serves(reminders, k)'

WithdrawnOnlyWhenRetired == [][WithdrawnOnlyWhenRetiredStep]_vars

(* ... and every tick withdraws the notifications of this process whose    *)
(* members are all retired.                                                *)
TickWithdrawsRetiredStep ==
  (\E recovery \in BOOLEAN : Tick(recovery)) =>
    \A g \in native' \cap {n.group : n \in notices} :
         \E k \in g : Serves(reminders, k)'

TickWithdrawsRetired == [][TickWithdrawsRetiredStep]_vars

(* Catch-up after sleep or restart claims at most one reminder per item.   *)
CatchUpOnePerItemStep ==
  (OwedTick \/ Tick(TRUE)) =>
    \A r, q \in Reminder :
      (/\ r # q /\ ItemOf[r] = ItemOf[q]
       /\ <<r, reminders'[r].version>> \in UNION batches')
      => <<q, reminders'[q].version>> \notin UNION batches'

CatchUpOnePerItem == [][CatchUpOnePerItemStep]_vars

(* The user guide limits catch-up rules to sleep and restart: a reminder   *)
(* that fell due since the last regular tick of a running process is on    *)
(* time, and saving the settings does not expire it.                       *)
SavingSettingsKeepsOnTime ==
  [][(OwedTick /\ owed = "configure" /\ phase = "run" /\ lastTick # None) =>
       \A r \in Reminder :
         (/\ reminders[r].state = "SCHEDULED" /\ Valid(r)
          /\ lastTick <= now /\ now - lastTick <= Gap
          /\ reminders[r].due > lastTick)
         => reminders'[r].state # "EXPIRED"]_vars

(* Catch-up covers what the window allows, nothing older: a reminder shown *)
(* late, by more than the gap two ticks may have, is within the window.    *)
StaleNeverClaimed ==
  [][\A r \in Reminder :
       (/\ <<r, reminders'[r].version>> \in UNION batches' \ UNION batches
        /\ EffectivePolicy.mode = "EXPLICIT"
        /\ now - reminders[r].due > Gap)
       => now - reminders[r].due <= EffectivePolicy.catchUp]_vars

(* A due reminder does not stay SCHEDULED: it is claimed, expired, held,   *)
(* cancelled or rescheduled, unless the clock is set back before it.       *)
DueIsDecided ==
  \A r \in Reminder, v \in Versions :
    LET waits == /\ reminders[r].version = v
                 /\ reminders[r].state = "SCHEDULED"
                 /\ reminders[r].due <= now
    IN waits ~> ~waits

(* A claimed reminder does not stay DISPATCHING, whether the native call   *)
(* answers, stays silent, or the process dies around it.                   *)
ClaimIsSettled ==
  \A r \in Reminder, v \in Versions :
    LET claims == reminders[r].version = v /\ reminders[r].state = "DISPATCHING"
    IN claims ~> ~claims
=============================================================================
