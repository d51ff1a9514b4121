----------------------------- MODULE DailySchedule -----------------------------
(***************************************************************************)
(* When daily reports run: the schedule of daily-service.ts.  The pump     *)
(* looks at the clock about once a second; what falls due becomes a job,   *)
(* and what fell due while nobody looked (the machine slept, the program   *)
(* was not running, the pump could not get that far) is treated by the     *)
(* recovery rule of its configuration.                                     *)
(*                                                                         *)
(* Time is counted in ticks.  A schedule is due at every multiple of       *)
(* Period; local times and time zones are in DailyTime.  What a job does   *)
(* is in DailyReports; here it runs and ends.                              *)
(***************************************************************************)
EXTENDS Integers, Sequences, FiniteSets

CONSTANTS
  Configs,      \* number of configurations, in the order of their rows
  Period, Gap,  \* ticks between occurrences; ticks that make no gap
  Recoveries,   \* recovery rules a user may choose
  Steps,        \* ticks the clock moves at once, either way
  MaxTime, MaxVersion, MaxChanges, MaxStops,   \* bounds
  None

ScheduleAssumption ==
  /\ Configs \in Nat \ {0} /\ Period \in Nat \ {0} /\ Gap \in Nat
  /\ Recoveries \subseteq [explicit : BOOLEAN, window : Nat, merge : BOOLEAN,
                           expire : BOOLEAN]
  /\ Steps \subseteq Int
  /\ \A n \in {MaxTime, MaxVersion, MaxChanges, MaxStops} : n \in Nat

Config == 1..Configs
Due == {t \in 1..(MaxTime + Period) : t % Period = 0}
Occurrence == Config \X (1..MaxVersion) \X Due
Ended == {"COMPLETED", "CANCELLED", "STALE"}
States == Ended \cup {"none", "QUEUED", "RECOVERY_PENDING", "RUNNING", "FAILED",
                      "REMOTE_UNKNOWN"}

OccurrenceAssumption == None \notin Occurrence

VARIABLES
  config,   \* durable: daily_configs with next_run and last_tick
  jobs,     \* durable: daily_jobs
  rows,     \* durable: their order
  healthy,  \* the recipient of a configuration is the one it was granted
  now, up,
  running,  \* volatile: the job in the running map
  late,     \* history: how late a job was when it was made
  rule,     \* history: the recovery rule it was made under
  asked,    \* history: jobs the user asked for
  since,    \* history: when a configuration was last set
  changes, stops

durable == <<config, jobs, rows>>
history == <<late, rule, asked, since>>
vars == <<durable, healthy, now, up, running, history, changes, stops>>

(* Wrong variant: the occurrence itself, when it is due now.               *)
NextFrom(t) == IF t % Period = 0 THEN t ELSE ((t \div Period) + 1) * Period

NextAfter(t) == ((t \div Period) + 1) * Period        \* previewDaily()

Later(a, b) == IF a > b THEN a ELSE b
-----------------------------------------------------------------------------
(***************************************************************************)
(* tick(): for one configuration after the other a job is inserted, then   *)
(* its next run and its last tick are written, each in a commit of its     *)
(* own.  A configuration whose job cannot be made throws out of tick().    *)
(***************************************************************************)
IsDue(c) == config[c].enabled /\ config[c].next <= now
TheDue(c) == <<c, config[c].version, config[c].next>>
Overdue(c) == now - config[c].next

Missed(c) == now - config[c].last > Gap \/ now < config[c].last

Expired(c) ==
  /\ Missed(c) /\ config[c].recovery.explicit /\ config[c].recovery.expire
  /\ Overdue(c) > config[c].recovery.window

FirstState(c) ==
  LET r == config[c].recovery
  IN CASE Expired(c) -> "CANCELLED"
       [] ~Expired(c) /\ Missed(c) /\ (~r.explicit \/ Overdue(c) > r.window) ->
            "RECOVERY_PENDING"
       [] OTHER -> "QUEUED"

(* Wrong variants: a merge passes over what was missed under any rule; a   *)
(* job that is there already is made again.                                *)
ResumeAlways(c) == IF Missed(c) THEN now ELSE config[c].next

Resume(c) ==
  IF Missed(c) /\ config[c].recovery.explicit /\ config[c].recovery.merge
  THEN now ELSE config[c].next

NewAgain(C) == {c \in C : IsDue(c)}

New(C) == {c \in C : IsDue(c) /\ jobs[TheDue(c)] = "none"}

Enqueued(C) ==
  [o \in Occurrence |->
     IF \E c \in New(C) : o = TheDue(c) THEN FirstState(o[1]) ELSE jobs[o]]

NewRows(C) ==
  LET order == SelectSeq([c \in Config |-> c], LAMBDA c : c \in New(C))
  IN rows \o [i \in DOMAIN order |-> TheDue(order[i])]

Advanced(C) ==
  [c \in Config |->
     IF c \notin C \/ ~config[c].enabled THEN config[c]
     ELSE [config[c] EXCEPT
             !.next = IF ~IsDue(c) THEN @
                      ELSE NextAfter(Resume(c)),
             !.last = Later(now, @)]]

Noted(C) ==
  LET made == {TheDue(c) : c \in New(C)}
  IN /\ late' = [o \in Occurrence |-> IF o \in made THEN now - o[3] ELSE late[o]]
     /\ rule' = [o \in Occurrence |->
                   IF o \in made THEN config[o[1]].recovery ELSE rule[o]]
     /\ UNCHANGED <<asked, since>>

Failing == {c \in Config : IsDue(c) /\ ~healthy[c]}
Before(c) == {d \in Config : d < c}

(* assertJob(): a job runs only under the configuration it was made for.   *)
MayRun(o) ==
  /\ config[o[1]].version = o[2] /\ config[o[1]].enabled /\ healthy[o[1]]

Refused(o) ==
  IF config[o[1]].version = o[2] /\ ~config[o[1]].enabled THEN "FAILED"
                                                          ELSE "STALE"

(* Wrong variants: the job is not compared with its configuration; one     *)
(* that is refused stays at the head of the queue.                         *)
StartAny(after, order) ==
  LET queued == SelectSeq(order, LAMBDA o : after[o] = "QUEUED")
  IN IF running # None \/ queued = <<>>
     THEN jobs' = after /\ UNCHANGED running
     ELSE /\ jobs' = [after EXCEPT ![Head(queued)] = "RUNNING"]
          /\ running' = Head(queued)

StartHead(after, order) ==
  LET queued == SelectSeq(order, LAMBDA o : after[o] = "QUEUED")
  IN IF running # None \/ queued = <<>> \/ ~MayRun(Head(queued))
     THEN jobs' = after /\ UNCHANGED running
     ELSE /\ jobs' = [after EXCEPT ![Head(queued)] = "RUNNING"]
          /\ running' = Head(queued)

(* The oldest queued job is executed, unless one is running.               *)
Start(after, order) ==
  LET queued == SelectSeq(order, LAMBDA o : after[o] = "QUEUED")
  IN IF running # None \/ queued = <<>>
     THEN jobs' = after /\ UNCHANGED running
     ELSE LET o == Head(queued)
          IN IF MayRun(o)
             THEN jobs' = [after EXCEPT ![o] = "RUNNING"] /\ running' = o
             ELSE jobs' = [after EXCEPT ![o] = Refused(o)] /\ UNCHANGED running

Pump ==
  /\ up /\ Failing = {}
  /\ config' = Advanced(Config) /\ rows' = NewRows(Config)
  /\ Start(Enqueued(Config), NewRows(Config))
  /\ Noted(Config)
  /\ UNCHANGED <<healthy, now, up, changes, stops>>

(* What comes after the first configuration that fails is not reached, the *)
(* queued jobs are not either.                                             *)
PumpThrows ==
  /\ up /\ Failing # {}
  /\ LET first == CHOOSE c \in Failing : \A d \in Failing : c <= d
         done == Before(first)
     IN /\ config' = Advanced(done)
        /\ jobs' = Enqueued(done) /\ rows' = NewRows(done)
        /\ Noted(done)
  /\ UNCHANGED <<healthy, now, up, running, changes, stops>>

(* The configurations whose jobs are there when the process dies at c:     *)
(* that of c is, its next run is not.                                      *)
WithJob(c) == Before(c) \cup {c}

Crash ==              \* the process dies in the middle of tick()
  /\ up /\ stops < MaxStops /\ stops' = stops + 1
  /\ \E c \in Config :
       /\ IsDue(c) /\ \A d \in Failing : c < d
       /\ config' = Advanced(Before(c))
       /\ jobs' = Enqueued(WithJob(c)) /\ rows' = NewRows(WithJob(c))
       /\ Noted(WithJob(c))
  /\ up' = FALSE /\ running' = None
  /\ UNCHANGED <<healthy, now, changes>>

Halt ==
  /\ up /\ stops < MaxStops /\ stops' = stops + 1
  /\ up' = FALSE /\ running' = None
  /\ UNCHANGED <<durable, healthy, now, history, changes>>

Restart ==            \* a model call that was under way is of unknown result
  /\ ~up /\ up' = TRUE
  /\ jobs' = [o \in Occurrence |->
                IF jobs[o] = "RUNNING" THEN "REMOTE_UNKNOWN" ELSE jobs[o]]
  /\ UNCHANGED <<config, rows, healthy, now, running, history, changes, stops>>

Finish(result) ==     \* the end of execute()
  /\ up /\ running # None
  /\ jobs' = IF jobs[running] # "RUNNING" THEN jobs
             ELSE [jobs EXCEPT ![running] =
                     IF MayRun(running) THEN result ELSE Refused(running)]
  /\ running' = None
  /\ UNCHANGED <<config, rows, healthy, now, up, history, changes, stops>>
-----------------------------------------------------------------------------
(***************************************************************************)
(* The user, the clock, and the connection.                                *)
(***************************************************************************)
Change == changes < MaxChanges /\ changes' = changes + 1

(* configure(): older jobs that wait become stale in commits of their own, *)
(* which a crash may prevent.                                              *)
Configure(c, enabled, recovery) ==
  /\ up /\ Change /\ healthy[c] /\ config[c].version < MaxVersion
  /\ config' = [config EXCEPT ![c] =
       [version |-> @.version + 1, enabled |-> enabled, recovery |-> recovery,
        next |-> NextAfter(now), last |-> now]]
  /\ since' = [since EXCEPT ![c] = now]
  /\ \/ /\ jobs' = [o \in Occurrence |->
              IF o[1] = c /\ jobs[o] \notin Ended \cup {"none", "RUNNING"}
              THEN "STALE" ELSE jobs[o]]
        /\ UNCHANGED <<up, running, stops>>
     \/ /\ stops < MaxStops /\ stops' = stops + 1
        /\ up' = FALSE /\ running' = None /\ UNCHANGED jobs
  /\ UNCHANGED <<rows, healthy, now, late, rule, asked>>

Retry(o) ==           \* control(): retry, retry-unknown, catch up
  /\ up /\ Change /\ jobs[o] \in {"RECOVERY_PENDING", "REMOTE_UNKNOWN", "FAILED"}
  /\ jobs' = [jobs EXCEPT ![o] = "QUEUED"]
  /\ asked' = asked \cup {o}
  /\ UNCHANGED <<config, rows, healthy, now, up, running, late, rule, since,
                 stops>>

Skip(o) ==            \* control(): cancel, skip-recovery
  /\ up /\ Change /\ jobs[o] \notin Ended \cup {"none"}
  /\ jobs' = [jobs EXCEPT ![o] = "CANCELLED"]
  /\ UNCHANGED <<config, rows, healthy, now, up, running, history, stops>>

MoveConnection(c) ==
  /\ Change /\ healthy' = [healthy EXCEPT ![c] = ~@]
  /\ UNCHANGED <<durable, now, up, running, history, stops>>

(* Between two looks of the pump the clock moves a tick, or it jumps.      *)
Clock(d) ==
  /\ now + d \in 0..MaxTime
  /\ now' = now + d
  /\ UNCHANGED <<durable, healthy, up, running, history, changes, stops>>
-----------------------------------------------------------------------------
NoRule == [explicit |-> FALSE, window |-> 0, merge |-> FALSE, expire |-> FALSE]

Init ==
  /\ config = [c \in Config |-> [version |-> 0, enabled |-> FALSE,
                recovery |-> NoRule, next |-> Period, last |-> 0]]
  /\ jobs = [o \in Occurrence |-> "none"] /\ rows = <<>>
  /\ healthy = [c \in Config |-> TRUE]
  /\ now = 0 /\ up = TRUE /\ running = None
  /\ late = [o \in Occurrence |-> 0] /\ rule = [o \in Occurrence |-> NoRule]
  /\ asked = {} /\ since = [c \in Config |-> 0]
  /\ changes = 0 /\ stops = 0

Next ==
  \/ Pump \/ PumpThrows \/ Crash \/ Halt \/ Restart
  \/ \E result \in {"COMPLETED", "FAILED"} : Finish(result)
  \/ \E c \in Config, enabled \in BOOLEAN, recovery \in Recoveries :
       Configure(c, enabled, recovery)
  \/ \E o \in Occurrence : Retry(o) \/ Skip(o)
  \/ \E c \in Config : MoveConnection(c)
  \/ \E d \in Steps : Clock(d)

Spec == Init /\ [][Next]_vars

(* The pump sets its timer again whatever happens, a call has a time       *)
(* limit, and the user starts the program again.                           *)
Fairness ==
  /\ WF_vars(Pump) /\ WF_vars(PumpThrows)
  /\ WF_vars(\E result \in {"COMPLETED", "FAILED"} : Finish(result))
  /\ WF_vars(Restart)

FairSpec == Spec /\ Fairness
-----------------------------------------------------------------------------
(* Shapes of the variables; a running job is one that is in the map.       *)
TypeOK ==
  /\ config \in [Config -> [version : 0..MaxVersion, enabled : BOOLEAN,
                  recovery : Recoveries \cup {NoRule}, next : Due, last : Nat]]
  /\ jobs \in [Occurrence -> States]
  /\ \A i, k \in DOMAIN rows : rows[i] \in Occurrence
                                 /\ (i # k => rows[i] # rows[k])
  /\ healthy \in [Config -> BOOLEAN] /\ now \in 0..MaxTime /\ up \in BOOLEAN
  /\ running \in Occurrence \cup {None}
  /\ late \in [Occurrence -> Nat] /\ asked \subseteq Occurrence
  /\ changes \in Nat /\ stops \in Nat

(* No occurrence is forgotten: since a configuration was set, each one     *)
(* before its next run has a job, unless the rule merges what was missed   *)
(* (tick(), through a crash between its commits).                          *)
NothingForgotten ==
  \A c \in Config, d \in Due :
    /\ config[c].version > 0 /\ config[c].enabled
    /\ ~config[c].recovery.merge
    /\ since[c] < d /\ d < config[c].next
    => jobs[<<c, config[c].version, d>>] # "none"

(* What has ended stays ended, however often its occurrence is looked at   *)
(* again (enqueue(), control()).                                           *)
EndedStaysStep ==
  \A o \in Occurrence : jobs[o] \in Ended => jobs'[o] = jobs[o]

EndedStays == [][EndedStaysStep]_vars

(* A job of an older or a disabled configuration never runs, although a    *)
(* crash may leave it queued (configure(), assertJob()).                   *)
RunsCurrentStep ==
  \A o \in Occurrence : jobs'[o] # jobs[o] /\ jobs'[o] \in {"RUNNING", "COMPLETED"} =>
    config'[o[1]].version = o[2] /\ config'[o[1]].enabled

RunsCurrent == [][RunsCurrentStep]_vars

(* While every recipient is the one that was granted, what is queued is    *)
(* decided (pump()).                                                       *)
QueuedIsDecided ==
  <>[](\A c \in Config : healthy[c]) =>
    \A o \in Occurrence : jobs[o] = "QUEUED" ~> jobs[o] # "QUEUED"

(* Does not hold (README): what was missed for longer than the rule allows, or   *)
(* without a rule, runs only when the user asks for it (the recovery rules *)
(* of the panel).                                                          *)
MissedIsAsked ==
  \A o \in Occurrence :
    /\ jobs[o] \in {"RUNNING", "COMPLETED"}
    /\ late[o] > Gap /\ (~rule[o].explicit \/ late[o] > rule[o].window)
    => o \in asked

(* Does not hold (README): an occurrence missed by no more than the window is    *)
(* caught up, merged or not (the recovery rules of the panel).             *)
RecentIsCaughtUpStep ==
  \A c \in Config, d \in Due :
    /\ config[c].recovery.explicit /\ config'[c].version = config[c].version
    /\ config[c].next <= d /\ d < config'[c].next
    /\ d <= now /\ now - d <= config[c].recovery.window
    => \E e \in Due : /\ config[c].next <= e /\ e <= now
                      /\ jobs'[<<c, config[c].version, e>>] \in
                           {"QUEUED", "RUNNING"}

RecentIsCaughtUp == [][RecentIsCaughtUpStep]_vars

(* Does not hold (README): a job whose own recipient is in order is decided,     *)
(* whatever becomes of others (pump()).                                    *)
OthersRun ==
  \A o \in Occurrence :
    [](jobs[o] = "QUEUED" /\ <>[]healthy[o[1]]
         => <>(jobs[o] # "QUEUED"))
==============================================================================
