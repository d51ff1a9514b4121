------------------------------ MODULE MCActing ------------------------------
(* What the program does by itself or at a click: reminders of two items,  *)
(* the way of a click and of a command, the login-startup switch, the life *)
(* of the program, the plans of the steward, branches, the daily schedule, *)
(* reports and the time they are for, and operations. A behaviour is of    *)
(* one part.                                                               *)
EXTENDS Integers, FiniteSets, Sequences, TLC

CONSTANTS None

VARIABLES
  part,      \* the part this behaviour is of
  \* Reminders
  item, reminderReminders, occurrences, settings, reminderNow, native,
  reminderPhase, reminderOwed, batches, lastTick, notices, timers, bound,
  faulted, reminderShown, halted, reminderStops, reminderFaults,
  \* ReminderNavigation
  states, current, clickItems, activations, clickPhase, clicked, clicks,
  pending, acked, outbox, inbox, view, listener, delivered, ack, clickPage,
  target, dirty, runs, routed, seen, clickConsumed, clickTold,
  \* ReminderCommands
  commandItems, commandReminders, commands, previews, ops, commandAllowed,
  rounds, applied,
  \* LoginStartup
  entry, saved, loginPlace, loginAsked, before, loginAfter, loginAnswer,
  first, loginLooked, faulty, loginCalls, loginChanges,
  \* AppLifecycle
  appPlace, services, ipc, runtime, window, session, lease, lost, guard,
  quitting, release, plan, planning, restart, cleanup, life,
  \* StewardRuns
  stewardJobs, entries, stewardOpen, stewardSpent, stewardConsumed,
  stewardConfig, stewardAllowed, mark, stewardText, stewardGone, stewardDay,
  stewardUp, stewardRunning, stewardPlace, held, using, stewardAborted,
  stewardAnswer, stewardCalls, made, stewardRetries, stewardMoves,
  stewardStops, stewardFaults,
  \* BranchViews
  objects, fixed, grants, members, conflicts, branches, branchPage,
  branchMoves, edits,
  \* DailySchedule
  ruleConfig, ruleJobs, rows, healthy, ruleNow, ruleUp, ruleRunning, late,
  rule, ruleAsked, since, ruleChanges, ruleStops,
  \* DailyReports
  dailyJobs, reports, suppressed, checkpoint, dailyOpen, dailySpent,
  dailyConfig, dailyText, granted, change, dailyGone, dailyDay, dailyUp,
  dailyRunning, dailyPlace, dailyAborted, result, dailyCalls, proposed,
  dailyRetries, reported, remembered, dailyShown, dailyMoves, dailyStops,
  dailyFaults, decisions,
  \* DailyTime
  zone, schedule, timeAfter,
  \* Operations
  attempts, events, opsJobs, opsReminders, opsOwed, flying, opsPhase,
  opsTold, opsLooked, opsStops

reminderVars ==
  <<item, reminderReminders, occurrences, settings, reminderNow, native,
    reminderPhase, reminderOwed, batches, lastTick, notices, timers, bound,
    faulted, reminderShown, halted, reminderStops, reminderFaults>>
clickVars ==
  <<states, current, clickItems, activations, clickPhase, clicked, clicks,
    pending, acked, outbox, inbox, view, listener, delivered, ack, clickPage,
    target, dirty, runs, routed, seen, clickConsumed, clickTold>>
commandVars ==
  <<commandItems, commandReminders, commands, previews, ops, commandAllowed,
    rounds, applied>>
loginVars ==
  <<entry, saved, loginPlace, loginAsked, before, loginAfter, loginAnswer,
    first, loginLooked, faulty, loginCalls, loginChanges>>
appVars ==
  <<appPlace, services, ipc, runtime, window, session, lease, lost, guard,
    quitting, release, plan, planning, restart, cleanup, life>>
stewardVars ==
  <<stewardJobs, entries, stewardOpen, stewardSpent, stewardConsumed,
    stewardConfig, stewardAllowed, mark, stewardText, stewardGone,
    stewardDay, stewardUp, stewardRunning, stewardPlace, held, using,
    stewardAborted, stewardAnswer, stewardCalls, made, stewardRetries,
    stewardMoves, stewardStops, stewardFaults>>
branchVars ==
  <<objects, fixed, grants, members, conflicts, branches, branchPage,
    branchMoves, edits>>
ruleVars ==
  <<ruleConfig, ruleJobs, rows, healthy, ruleNow, ruleUp, ruleRunning, late,
    rule, ruleAsked, since, ruleChanges, ruleStops>>
dailyVars ==
  <<dailyJobs, reports, suppressed, checkpoint, dailyOpen, dailySpent,
    dailyConfig, dailyText, granted, change, dailyGone, dailyDay, dailyUp,
    dailyRunning, dailyPlace, dailyAborted, result, dailyCalls, proposed,
    dailyRetries, reported, remembered, dailyShown, dailyMoves, dailyStops,
    dailyFaults, decisions>>
timeVars ==
  <<zone, schedule, timeAfter>>
opsVars ==
  <<attempts, events, opsJobs, opsReminders, opsOwed, flying, opsPhase,
    opsTold, opsLooked, opsStops>>

\* the settings of catching up that matter
Policies ==
  {[mode |-> "EXPLICIT", catchUp |-> 0, merge |-> FALSE],
   [mode |-> "UNCONFIGURED", catchUp |-> 0, merge |-> FALSE]}

\* an unconfigured rule of a schedule, and one that is
Unconfigured == [explicit |-> FALSE, window |-> 0, merge |-> FALSE, expire |-> FALSE]
Recoveries ==
  {Unconfigured, [explicit |-> TRUE, window |-> 2, merge |-> FALSE, expire |-> TRUE]}

\* an hour is one unit of time
Day == 24

\* changes of one hour at the hours that matter, and a day left out whole
Change(at, was, step) ==
  [at |-> 20 * Day + at, before |-> was, after |-> was + step]
Skipped == Change(10, -10, Day)
DayZones ==
  {Change(at, was, step) :
     at \in {0, 2, 10, 23}, was \in {-3, 0}, step \in {1, -1}} \cup {Skipped}
DaySchedules ==
  [time : {0, 2, 23}, gap : {None, "skip", "next"},
   fold : {None, "earlier", "later"}, weekday : {None}, weekStart : {None}]
DayStarts == {19 * Day, 19 * Day + 11, 19 * Day + 21, 20 * Day, 20 * Day + 2}
WeekZones ==
  {Change(at, was, step) :
     at \in {2, 22}, was \in {-3, 0}, step \in {1, -1}} \cup {Skipped}
WeekSchedules ==
  [time : {2}, gap : {None, "skip", "next"}, fold : {None, "later"},
   weekday : 0..6, weekStart : {0, 1}]

Merge == INSTANCE Reminders WITH
  Item <- {"i1", "i2"}, Reminder <- {1, 2}, ItemOf <- <<"i1", "i2">>,
  MaxSettings <- 0, MaxStops <- 0, MaxVersion <- 1, MaxTime <- 1, Gap <- 1,
  DefaultCatchUp <- 1, Policies <- Policies, MaxFaults <- 0,
  reminders <- reminderReminders, now <- reminderNow, phase <- reminderPhase,
  owed <- reminderOwed, shown <- reminderShown, stops <- reminderStops,
  faults <- reminderFaults

CatchUp == INSTANCE Reminders WITH
  Item <- {"i1"}, Reminder <- {1, 2}, ItemOf <- <<"i1", "i1">>,
  MaxSettings <- 0, MaxStops <- 0, MaxVersion <- 1, MaxTime <- 2, Gap <- 1,
  DefaultCatchUp <- 1, Policies <- Policies, MaxFaults <- 0,
  reminders <- reminderReminders, now <- reminderNow, phase <- reminderPhase,
  owed <- reminderOwed, shown <- reminderShown, stops <- reminderStops,
  faults <- reminderFaults

Click == INSTANCE ReminderNavigation WITH
  MayFail <- FALSE, MaxAcked <- 2, MaxDelivered <- 2, MaxClicks <- 2,
  MaxRev <- 1, MaxRuns <- 2, MaxMessages <- 2, Assistants <- {"a1"},
  Items <- {"i1"}, Reminders <- {"r1"}, ItemOf <- ("r1" :> "i1"),
  Groups <- {{"r1"}}, items <- clickItems, phase <- clickPhase,
  page <- clickPage, consumed <- clickConsumed, told <- clickTold

Groups == INSTANCE ReminderNavigation WITH
  MayFail <- TRUE, MaxAcked <- 2, MaxDelivered <- 2, MaxClicks <- 1,
  MaxRev <- 1, MaxRuns <- 1, MaxMessages <- 2, Assistants <- {"a1"},
  Items <- {"i1", "i2"}, Reminders <- {"r1", "r2"},
  ItemOf <- ("r1" :> "i1") @@ ("r2" :> "i2"),
  Groups <- {{"r1"}, {"r1", "r2"}}, items <- clickItems, phase <- clickPhase,
  page <- clickPage, consumed <- clickConsumed, told <- clickTold

Commands == INSTANCE ReminderCommands WITH
  MaxReminders <- 2, MaxVersion <- 3, MaxCalls <- 2, Items <- {"i1"},
  Rounds <- {"q1"}, Commands <- {"c1", "c2"}, Dues <- {"d1"},
  items <- commandItems, reminders <- commandReminders,
  allowed <- commandAllowed

Login == INSTANCE LoginStartup WITH
  MaxCalls <- 2, MaxChanges <- 2, place <- loginPlace, asked <- loginAsked,
  after <- loginAfter, answer <- loginAnswer, looked <- loginLooked,
  calls <- loginCalls, changes <- loginChanges

App == INSTANCE AppLifecycle WITH
  place <- appPlace

Steward == INSTANCE StewardRuns WITH
  Round <- {}, Memory <- {"m1"}, Slots <- 2, Budget <- 1, MaxDay <- 1,
  MaxConfig <- 1, MaxMoves <- 1, MaxRetries <- 1, MaxStops <- 1,
  MaxFaults <- 1, jobs <- stewardJobs, open <- stewardOpen,
  spent <- stewardSpent, consumed <- stewardConsumed,
  config <- stewardConfig, allowed <- stewardAllowed, text <- stewardText,
  gone <- stewardGone, day <- stewardDay, up <- stewardUp,
  running <- stewardRunning, place <- stewardPlace,
  aborted <- stewardAborted, answer <- stewardAnswer, calls <- stewardCalls,
  retries <- stewardRetries, moves <- stewardMoves, stops <- stewardStops,
  faults <- stewardFaults

Finds == INSTANCE StewardRuns WITH
  Round <- {"r1"}, Memory <- {}, Slots <- 1, Budget <- 1, MaxDay <- 0,
  MaxConfig <- 1, MaxMoves <- 1, MaxRetries <- 1, MaxStops <- 1,
  MaxFaults <- 0, jobs <- stewardJobs, open <- stewardOpen,
  spent <- stewardSpent, consumed <- stewardConsumed,
  config <- stewardConfig, allowed <- stewardAllowed, text <- stewardText,
  gone <- stewardGone, day <- stewardDay, up <- stewardUp,
  running <- stewardRunning, place <- stewardPlace,
  aborted <- stewardAborted, answer <- stewardAnswer, calls <- stewardCalls,
  retries <- stewardRetries, moves <- stewardMoves, stops <- stewardStops,
  faults <- stewardFaults

Branches == INSTANCE BranchViews WITH
  Branch <- {"b1"}, Memory <- {"m1", "m2"}, MaxVersion <- 2, MaxMoves <- 2,
  MaxEdits <- 2, page <- branchPage, moves <- branchMoves

Schedule == INSTANCE DailySchedule WITH
  Configs <- 1, Period <- 2, Gap <- 1, MaxVersion <- 2, MaxChanges <- 3,
  MaxStops <- 1, Recoveries <- Recoveries, Steps <- {1, 3, -2}, MaxTime <- 3,
  config <- ruleConfig, jobs <- ruleJobs, now <- ruleNow, up <- ruleUp,
  running <- ruleRunning, asked <- ruleAsked, changes <- ruleChanges,
  stops <- ruleStops

Configs == INSTANCE DailySchedule WITH
  Configs <- 2, Period <- 2, Gap <- 1, MaxTime <- 4, MaxVersion <- 1,
  MaxChanges <- 3, MaxStops <- 1, Recoveries <- {Unconfigured}, Steps <- {1},
  config <- ruleConfig, jobs <- ruleJobs, now <- ruleNow, up <- ruleUp,
  running <- ruleRunning, asked <- ruleAsked, changes <- ruleChanges,
  stops <- ruleStops

Reports == INSTANCE DailyReports WITH
  Job <- {"j1"}, Slots <- 2, Limit <- 1, Budget <- 1, MaxDay <- 1,
  MaxConfig <- 2, MaxMoves <- 1, MaxChange <- 0, MaxRetries <- 1,
  MaxStops <- 1, MaxFaults <- 1, MaxDecisions <- 2, jobs <- dailyJobs,
  open <- dailyOpen, spent <- dailySpent, config <- dailyConfig,
  text <- dailyText, gone <- dailyGone, day <- dailyDay, up <- dailyUp,
  running <- dailyRunning, place <- dailyPlace, aborted <- dailyAborted,
  calls <- dailyCalls, retries <- dailyRetries, shown <- dailyShown,
  moves <- dailyMoves, stops <- dailyStops, faults <- dailyFaults

Changes == INSTANCE DailyReports WITH
  Job <- {"j1", "j2"}, Slots <- 0, Limit <- 1, Budget <- 2, MaxDay <- 0,
  MaxConfig <- 1, MaxMoves <- 1, MaxChange <- 2, MaxRetries <- 1,
  MaxStops <- 0, MaxFaults <- 0, MaxDecisions <- 1, jobs <- dailyJobs,
  open <- dailyOpen, spent <- dailySpent, config <- dailyConfig,
  text <- dailyText, gone <- dailyGone, day <- dailyDay, up <- dailyUp,
  running <- dailyRunning, place <- dailyPlace, aborted <- dailyAborted,
  calls <- dailyCalls, retries <- dailyRetries, shown <- dailyShown,
  moves <- dailyMoves, stops <- dailyStops, faults <- dailyFaults

Days == INSTANCE DailyTime WITH
  Hour <- 1, Zones <- DayZones, Schedules <- DaySchedules,
  Starts <- DayStarts, Last <- 20 * Day, after <- timeAfter

Weeks == INSTANCE DailyTime WITH
  Hour <- 1, Zones <- WeekZones, Schedules <- WeekSchedules,
  Starts <- {d * Day + 5 : d \in 12..16}, Last <- 36 * Day,
  after <- timeAfter

Shown == INSTANCE Operations WITH
  Job <- {"j1"}, Chat <- {"c1"}, Reminder <- {}, Item <- {},
  Call <- {"a1", "a2"}, MaxStops <- 1, MaxVersion <- 4, ItemOf <- <<>>,
  jobs <- opsJobs, reminders <- opsReminders, owed <- opsOwed,
  phase <- opsPhase, told <- opsTold, looked <- opsLooked, stops <- opsStops

Failures == INSTANCE Operations WITH
  Job <- {}, Chat <- {"c1"}, Reminder <- {"r1", "r2"}, Item <- {"i1", "i2"},
  Call <- {"a1"}, MaxVersion <- 2, MaxStops <- 0,
  ItemOf <- ("r1" :> "i1") @@ ("r2" :> "i2"), jobs <- opsJobs,
  reminders <- opsReminders, owed <- opsOwed, phase <- opsPhase,
  told <- opsTold, looked <- opsLooked, stops <- opsStops

ASSUME Click!NavigationAssumption
ASSUME Groups!NavigationAssumption
ASSUME Commands!CommandsAssumption
ASSUME Steward!StewardAssumption
ASSUME Finds!StewardAssumption
ASSUME Branches!BranchAssumption
ASSUME Schedule!ScheduleAssumption
ASSUME Schedule!OccurrenceAssumption
ASSUME Configs!ScheduleAssumption
ASSUME Configs!OccurrenceAssumption
ASSUME Reports!DailyAssumption
ASSUME Changes!DailyAssumption
ASSUME Days!TimeAssumption
ASSUME Weeks!TimeAssumption
ASSUME Shown!OperationsAssumption
ASSUME Failures!OperationsAssumption
-----------------------------------------------------------------------------
(* Outside its own parts a module has no state.                            *)
reminderOff ==
  /\ item = None /\ reminderReminders = None /\ occurrences = None
  /\ settings = None /\ reminderNow = None /\ native = None
  /\ reminderPhase = None /\ reminderOwed = None /\ batches = None
  /\ lastTick = None /\ notices = None /\ timers = None /\ bound = None
  /\ faulted = None /\ reminderShown = None /\ halted = None
  /\ reminderStops = None /\ reminderFaults = None

clickOff ==
  /\ states = None /\ current = None /\ clickItems = None
  /\ activations = None /\ clickPhase = None /\ clicked = None
  /\ clicks = None /\ pending = None /\ acked = None /\ outbox = None
  /\ inbox = None /\ view = None /\ listener = None /\ delivered = None
  /\ ack = None /\ clickPage = None /\ target = None /\ dirty = None
  /\ runs = None /\ routed = None /\ seen = None /\ clickConsumed = None
  /\ clickTold = None

commandOff ==
  /\ commandItems = None /\ commandReminders = None /\ commands = None
  /\ previews = None /\ ops = None /\ commandAllowed = None /\ rounds = None
  /\ applied = None

loginOff ==
  /\ entry = None /\ saved = None /\ loginPlace = None /\ loginAsked = None
  /\ before = None /\ loginAfter = None /\ loginAnswer = None /\ first = None
  /\ loginLooked = None /\ faulty = None /\ loginCalls = None
  /\ loginChanges = None

appOff ==
  /\ appPlace = None /\ services = None /\ ipc = None /\ runtime = None
  /\ window = None /\ session = None /\ lease = None /\ lost = None
  /\ guard = None /\ quitting = None /\ release = None /\ plan = None
  /\ planning = None /\ restart = None /\ cleanup = None /\ life = None

stewardOff ==
  /\ stewardJobs = None /\ entries = None /\ stewardOpen = None
  /\ stewardSpent = None /\ stewardConsumed = None /\ stewardConfig = None
  /\ stewardAllowed = None /\ mark = None /\ stewardText = None
  /\ stewardGone = None /\ stewardDay = None /\ stewardUp = None
  /\ stewardRunning = None /\ stewardPlace = None /\ held = None
  /\ using = None /\ stewardAborted = None /\ stewardAnswer = None
  /\ stewardCalls = None /\ made = None /\ stewardRetries = None
  /\ stewardMoves = None /\ stewardStops = None /\ stewardFaults = None

branchOff ==
  /\ objects = None /\ fixed = None /\ grants = None /\ members = None
  /\ conflicts = None /\ branches = None /\ branchPage = None
  /\ branchMoves = None /\ edits = None

ruleOff ==
  /\ ruleConfig = None /\ ruleJobs = None /\ rows = None /\ healthy = None
  /\ ruleNow = None /\ ruleUp = None /\ ruleRunning = None /\ late = None
  /\ rule = None /\ ruleAsked = None /\ since = None /\ ruleChanges = None
  /\ ruleStops = None

dailyOff ==
  /\ dailyJobs = None /\ reports = None /\ suppressed = None
  /\ checkpoint = None /\ dailyOpen = None /\ dailySpent = None
  /\ dailyConfig = None /\ dailyText = None /\ granted = None
  /\ change = None /\ dailyGone = None /\ dailyDay = None /\ dailyUp = None
  /\ dailyRunning = None /\ dailyPlace = None /\ dailyAborted = None
  /\ result = None /\ dailyCalls = None /\ proposed = None
  /\ dailyRetries = None /\ reported = None /\ remembered = None
  /\ dailyShown = None /\ dailyMoves = None /\ dailyStops = None
  /\ dailyFaults = None /\ decisions = None

timeOff ==
  /\ zone = None /\ schedule = None /\ timeAfter = None

opsOff ==
  /\ attempts = None /\ events = None /\ opsJobs = None
  /\ opsReminders = None /\ opsOwed = None /\ flying = None
  /\ opsPhase = None /\ opsTold = None /\ opsLooked = None /\ opsStops = None

Init ==
  /\ part \in {"merge", "catchUp", "click", "groups", "commands", "login",
              "app", "steward", "finds", "branches", "schedule", "configs",
              "reports", "changes", "days", "weeks", "shown", "failures"}
  /\ CASE part = "merge" -> Merge!Init
       [] part = "catchUp" -> CatchUp!Init
       [] OTHER -> reminderOff
  /\ CASE part = "click" -> Click!Init
       [] part = "groups" -> Groups!Init
       [] OTHER -> clickOff
  /\ CASE part = "commands" -> Commands!Init
       [] OTHER -> commandOff
  /\ CASE part = "login" -> Login!Init
       [] OTHER -> loginOff
  /\ CASE part = "app" -> App!Init
       [] OTHER -> appOff
  /\ CASE part = "steward" -> Steward!Init
       [] part = "finds" -> Finds!Init
       [] OTHER -> stewardOff
  /\ CASE part = "branches" -> Branches!Init
       [] OTHER -> branchOff
  /\ CASE part = "schedule" -> Schedule!Init
       [] part = "configs" -> Configs!Init
       [] OTHER -> ruleOff
  /\ CASE part = "reports" -> Reports!Init
       [] part = "changes" -> Changes!Init
       [] OTHER -> dailyOff
  /\ CASE part = "days" -> Days!Init
       [] part = "weeks" -> Weeks!Init
       [] OTHER -> timeOff
  /\ CASE part = "shown" -> Shown!Init
       [] part = "failures" -> Failures!Init
       [] OTHER -> opsOff

(* The step of a part leaves the other modules alone.                      *)
reminderOnly == UNCHANGED <<part, clickVars, commandVars, loginVars, appVars,
    stewardVars, branchVars, ruleVars, dailyVars, timeVars, opsVars>>
clickOnly == UNCHANGED <<part, reminderVars, commandVars, loginVars, appVars,
    stewardVars, branchVars, ruleVars, dailyVars, timeVars, opsVars>>
commandOnly == UNCHANGED <<part, reminderVars, clickVars, loginVars, appVars,
    stewardVars, branchVars, ruleVars, dailyVars, timeVars, opsVars>>
loginOnly == UNCHANGED <<part, reminderVars, clickVars, commandVars, appVars,
    stewardVars, branchVars, ruleVars, dailyVars, timeVars, opsVars>>
appOnly == UNCHANGED <<part, reminderVars, clickVars, commandVars, loginVars,
    stewardVars, branchVars, ruleVars, dailyVars, timeVars, opsVars>>
stewardOnly == UNCHANGED <<part, reminderVars, clickVars, commandVars,
    loginVars, appVars, branchVars, ruleVars, dailyVars, timeVars, opsVars>>
branchOnly == UNCHANGED <<part, reminderVars, clickVars, commandVars,
    loginVars, appVars, stewardVars, ruleVars, dailyVars, timeVars, opsVars>>
ruleOnly == UNCHANGED <<part, reminderVars, clickVars, commandVars,
    loginVars, appVars, stewardVars, branchVars, dailyVars, timeVars, opsVars>>
dailyOnly == UNCHANGED <<part, reminderVars, clickVars, commandVars,
    loginVars, appVars, stewardVars, branchVars, ruleVars, timeVars, opsVars>>
timeOnly == UNCHANGED <<part, reminderVars, clickVars, commandVars,
    loginVars, appVars, stewardVars, branchVars, ruleVars, dailyVars, opsVars>>
opsOnly == UNCHANGED <<part, reminderVars, clickVars, commandVars, loginVars,
    appVars, stewardVars, branchVars, ruleVars, dailyVars, timeVars>>

Next ==
  \/ part = "merge" /\ Merge!Next /\ reminderOnly
  \/ part = "catchUp" /\ CatchUp!Next /\ reminderOnly
  \/ part = "click" /\ Click!Next /\ clickOnly
  \/ part = "groups" /\ Groups!Next /\ clickOnly
  \/ part = "commands" /\ Commands!Next /\ commandOnly
  \/ part = "login" /\ Login!Next /\ loginOnly
  \/ part = "app" /\ App!Next /\ appOnly
  \/ part = "steward" /\ Steward!Next /\ stewardOnly
  \/ part = "finds" /\ Finds!Next /\ stewardOnly
  \/ part = "branches" /\ Branches!Next /\ branchOnly
  \/ part = "schedule" /\ Schedule!Next /\ ruleOnly
  \/ part = "configs" /\ Configs!Next /\ ruleOnly
  \/ part = "reports" /\ Reports!Next /\ dailyOnly
  \/ part = "changes" /\ Changes!Next /\ dailyOnly
  \/ part = "days" /\ Days!Next /\ timeOnly
  \/ part = "weeks" /\ Weeks!Next /\ timeOnly
  \/ part = "shown" /\ Shown!Next /\ opsOnly
  \/ part = "failures" /\ Failures!Next /\ opsOnly

vars == <<part, reminderVars, clickVars, commandVars, loginVars, appVars,
          stewardVars, branchVars, ruleVars, dailyVars, timeVars, opsVars>>

Spec == Init /\ [][Next]_vars

-----------------------------------------------------------------------------
(* Every module keeps the types of its variables, and without its part it  *)
(* has none.                                                               *)
TypeOK ==
  /\ part = "merge" => Merge!TypeOK
  /\ part = "catchUp" => CatchUp!TypeOK
  /\ part = "click" => Click!TypeOK
  /\ part = "groups" => Groups!TypeOK
  /\ part = "commands" => Commands!TypeOK
  /\ part = "login" => Login!TypeOK
  /\ part = "app" => App!TypeOK
  /\ part = "steward" => Steward!TypeOK
  /\ part = "finds" => Finds!TypeOK
  /\ part = "branches" => Branches!TypeOK
  /\ part = "schedule" => Schedule!TypeOK
  /\ part = "configs" => Configs!TypeOK
  /\ part = "reports" => Reports!TypeOK
  /\ part = "changes" => Changes!TypeOK
  /\ part = "shown" => Shown!TypeOK
  /\ part = "failures" => Failures!TypeOK

(* "Repeated system events and dispatch retries cannot send the same       *)
(* reminder twice": over ticks, resumes, crashes at any commit and         *)
(* restarts, the native call is made at most once for a reminder version.  *)
AtMostOneShow ==
  /\ part = "merge" => Merge!AtMostOneShow
  /\ part = "catchUp" => CatchUp!AtMostOneShow

(* A merged notification belongs to all its members: it is withdrawn only  *)
(* when none of them is current, live and valid.                           *)
WithdrawnOnlyWhenRetired ==
  [][part = "merge" => Merge!WithdrawnOnlyWhenRetiredStep]_vars

(* ... and every tick withdraws the notifications of this process whose    *)
(* members are all retired.                                                *)
TickWithdrawsRetired ==
  [][part = "merge" => Merge!TickWithdrawsRetiredStep]_vars

(* Catch-up after sleep or restart claims at most one reminder per item.   *)
CatchUpOnePerItem ==
  [][part = "catchUp" => CatchUp!CatchUpOnePerItemStep]_vars

(* An older click never takes the user away from where a later click has   *)
(* brought him: the delivery pulled at a listener's start is dropped when  *)
(* an event has come meanwhile.                                            *)
LatestWins == part = "click" => Click!LatestWins

(* The broker forgets a delivery as acknowledged only after its page was   *)
(* on the user's screen.                                                   *)
ConsumedWasSeen ==
  /\ part = "click" => Click!ConsumedWasSeen
  /\ part = "groups" => Groups!ConsumedWasSeen

(* Nobody is told that the target of a click has changed when the click    *)
(* was acknowledged: a repeated acknowledgement is answered as the first.  *)
NoFalseAlarm == part = "click" => Click!NoFalseAlarm

(* A click that was followed and acknowledged is not followed again, by no *)
(* new listener and by no reloaded window.                                 *)
ConsumedOnce == [][part = "click" => Click!ConsumedOnceStep]_vars

(* A click that navigates is in the records, also when storage fails.      *)
ClicksRecorded == part = "groups" => Groups!ClicksRecorded

(* Every version of every reminder, the present one and those before it,   *)
(* is the outcome of exactly one command: no two commands are told that    *)
(* they made the same change, and nothing else changes a version.          *)
EveryVersionOnce == part = "commands" => Commands!EveryVersionOnce

(* A round changes a reminder only when the user has accepted its          *)
(* candidate, and then as the candidate says; a rejected one never does.   *)
AcceptedIsApplied == part = "commands" => Commands!AcceptedIsApplied

(* Every operation of the ledger that shows a candidate shows it as it is  *)
(* now, however many calls of the round showed it.                         *)
LedgerAgrees == part = "commands" => Commands!LedgerAgrees

(* Settings answered as saved say what Windows was doing when last read.   *)
OkIsTrue == part = "login" => Login!OkIsTrue

(* A switch reported as restored is the very entry that was there.         *)
RestoredIsTrue == part = "login" => Login!RestoredIsTrue

(* Settings that were not saved leave no login start behind that was not   *)
(* there, unless Windows refused a call or somebody changed the entry.     *)
NothingLeft == part = "login" => Login!NothingLeft

(* The data set is given up, maintained or recovered only when no service, *)
(* no handler and no runtime of this program could still write to it: the  *)
(* checks of assertQuiescent never throw.                                  *)
NobodyWrites == part = "app" => App!NobodyWrites

(* A cleanup reported as complete has left nothing: the recovery it offers *)
(* starts from a free data set.                                            *)
CompleteIsClean == part = "app" => App!CompleteIsClean

(* A new program is started only after this one has released the data set. *)
HandedOver == part = "app" => App!HandedOver

(* A running program is within the user's reach: it has its tray, or is at *)
(* work that ends or asks, also after a quit that failed.                  *)
NoGhost == part = "app" => App!NoGhost

(* The dialog of a failed start and a recovery are ended by the user, or   *)
(* when the data set is lost, and never by their own window's closing.     *)
DialogIsNotCut == [][part = "app" => App!DialogIsNotCutStep]_vars

(* Neither role spends more calls in a day than its own budget allows      *)
(* (usage(), the reservation in execute()).                                *)
BudgetHolds ==
  /\ part = "steward" => Steward!BudgetHolds
  /\ part = "reports" => Reports!BudgetHolds

(* Beyond the first, every call of a job has a retry the user asked for    *)
(* (recovery in the constructor, control()).                               *)
NoSecondCallUnasked ==
  /\ part = "steward" => Steward!NoSecondCallUnasked
  /\ part = "reports" => Reports!NoSecondCallUnasked

(* The steward's calls and those of daily reports keep what WorkPromise    *)
(* says of a call: it is paid for before it is sent, and its result is     *)
(* kept once or not at all.                                                *)
KeepsWorkPromise ==
  /\ part = "steward" => Steward!Promised!Begin
  /\ part = "reports" => Reports!Promised!Begin
  /\ [][/\ part = "steward" =>
             [Steward!Promised!WorkStep]_(Steward!Promised!promise)
        /\ part = "reports" =>
             [Reports!Promised!WorkStep]_(Reports!Promised!promise)]_vars

(* A slot is committed once, however often its job is stopped and resumed: *)
(* what memory and branches have got is what the receipts say              *)
(* (commitReceipt(), complete()).                                          *)
SlotOnce == part = "steward" => Steward!SlotOnce

(* A job that is COMPLETED has been consumed; a keeping job is consumed    *)
(* with all its slots, its entry is then completed or has been dismissed   *)
(* or corrected since; and an entry is completed by its job only.          *)
ConsumedIsWhole ==
  /\ part = "steward" => Steward!ConsumedIsWhole
  /\ part = "finds" => Finds!ConsumedIsWhole

(* What the user has dismissed is never organised, offered again or taken  *)
(* up, not even from an answer that is under way (pending(), current()).   *)
DismissedIsOut ==
  [][/\ part = "steward" => Steward!DismissedIsOutStep
     /\ part = "finds" => Finds!DismissedIsOutStep]_vars

(* Slots and findings are committed only while the role is enabled in the  *)
(* same version, allowed, and its inputs are what they were (current()).   *)
CommitsCurrent ==
  [][/\ part = "steward" => Steward!CommitsCurrentStep
     /\ part = "finds" => Finds!CommitsCurrentStep]_vars

(* Pages given under one token show one state of the branch, of the        *)
(* memories in it, of their conflicts and of the permissions (branch(),    *)
(* the export).                                                            *)
PagesAgree == [][part = "branches" => Branches!PagesAgreeStep]_vars

(* A conflict is resolved once, by a correction the user made after it was *)
(* found, while the other side was still the one in conflict               *)
(* (resolveConflict()).                                                    *)
ResolvedByUser == [][part = "branches" => Branches!ResolvedByUserStep]_vars

(* No occurrence is forgotten: since a configuration was set, each one     *)
(* before its next run has a job, unless the rule merges what was missed   *)
(* (tick(), through a crash between its commits).                          *)
NothingForgotten ==
  /\ part = "schedule" => Schedule!NothingForgotten
  /\ part = "configs" => Configs!NothingForgotten

(* What has ended stays ended, however often its occurrence is looked at   *)
(* again (enqueue(), control()).                                           *)
EndedStays ==
  [][/\ part = "schedule" => Schedule!EndedStaysStep
     /\ part = "configs" => Configs!EndedStaysStep]_vars

(* A job of an older or a disabled configuration never runs, although a    *)
(* crash may leave it queued (configure(), assertJob()).                   *)
RunsCurrent == [][part = "schedule" => Schedule!RunsCurrentStep]_vars

(* Every proposal is made once, however often the job is stopped and       *)
(* resumed, and a report comes only with all of them (apply()).            *)
ReportIsWhole == part = "reports" => Reports!ReportIsWhole

(* An observation becomes one memory, which later decisions correct        *)
(* (decide()).                                                             *)
SavedOnce == part = "reports" => Reports!SavedOnce

(* What is shown of a report still rests on its sources (inspect()).       *)
ShowsCurrent == [][part = "reports" => Reports!ShowsCurrentStep]_vars

(* Proposals and reports are made only while the configuration is enabled  *)
(* in the same version and the sources are what they were (assertJob()).   *)
AppliesCurrent ==
  [][/\ part = "reports" => Reports!AppliesCurrentStep
     /\ part = "changes" => Changes!AppliesCurrentStep]_vars

(* A change that counts as consumed has been in a report (apply(), the     *)
(* checkpoints).                                                           *)
NoChangeLost == part = "changes" => Changes!NoChangeLost

(* An observation the user has rejected is in no later report, whenever    *)
(* its answer was given (decide(), apply()).                               *)
RejectedNotRebuilt ==
  [][part = "changes" => Changes!RejectedNotRebuiltStep]_vars

(* The samples find every instant of a local time (localInstants()).       *)
SamplesSuffice == part = "days" => Days!SamplesSuffice

(* The next run is the least of all runs still to come, and no day the     *)
(* user has yet to decide about comes before it (previewDaily()).          *)
NextIsLeast ==
  /\ part = "days" => Days!NextIsLeast
  /\ part = "weeks" => Weeks!NextIsLeast

(* The period of a run holds it, starts at the first instant of a local    *)
(* day and meets the next one (dailyPeriod()).                             *)
PeriodsMeet ==
  /\ part = "days" => Days!PeriodsMeet
  /\ part = "weeks" => Weeks!PeriodsMeet

(* An observation looks back over no more local days than it says, up to   *)
(* the end of the period (observationPeriod()).                            *)
ObservationIsWithin == part = "days" => Days!ObservationIsWithin

(* A choice is asked for only when such a day comes, and the days tried    *)
(* are enough for a weekly run that one change skips (previewDaily()).     *)
NeverRunsOut == part = "weeks" => Weeks!NeverRunsOut

(* A temporary chat leaves nothing behind: no row while it is held, and    *)
(* once the program has been down no attempt (save(), close()).            *)
TemporaryLeavesNoTrace == part = "shown" => Shown!TemporaryLeavesNoTrace

(* An owner has one current row at most (event(), capture()).              *)
OneCurrent ==
  /\ part = "shown" => Shown!OneCurrent
  /\ part = "failures" => Failures!OneCurrent

(* What is settled stays so, although callers settle more than once and    *)
(* calls end after the job is cancelled; and usage counts as known exactly *)
(* when the endpoint told it (settle(), the constructor).                  *)
UsageIsHonest == part = "shown" => Shown!UsageIsHonest

(* Once the program serves, no attempt waits for an answer nobody awaits.  *)
SendingIsAwaited == part = "shown" => Shown!SendingIsAwaited

(* Who looks finds a current row for every job that is not over, and none  *)
(* that says something older; of a job that is over only that its usage is *)
(* unknown (capture(), operationSources()).                                *)
JobsAreShown == part = "shown" => Shown!JobsAreShown

(* What holds of reminders, clicks, commands, the login switch and the     *)
(* life of the program: nothing is shown twice or raised for a version no  *)
(* longer current, what is confirmed is applied once, what is reported     *)
(* back is true, and nobody writes without owning the data.                *)
RemindersHold ==
  /\ AtMostOneShow
  /\ LatestWins
  /\ ConsumedWasSeen
  /\ NoFalseAlarm
  /\ ClicksRecorded
  /\ EveryVersionOnce
  /\ AcceptedIsApplied
  /\ LedgerAgrees
  /\ OkIsTrue
  /\ RestoredIsTrue
  /\ NothingLeft
  /\ NobodyWrites
  /\ CompleteIsClean
  /\ HandedOver
  /\ NoGhost

(* What holds of the work done without the user: no call beyond the budget *)
(* or repeated unasked, nothing consumed in part or forgotten, every local *)
(* time at its place, every figure shown true.                             *)
WorkHolds ==
  /\ TypeOK
  /\ BudgetHolds
  /\ NoSecondCallUnasked
  /\ SlotOnce
  /\ ConsumedIsWhole
  /\ NothingForgotten
  /\ ReportIsWhole
  /\ SavedOnce
  /\ NoChangeLost
  /\ SamplesSuffice
  /\ NextIsLeast
  /\ PeriodsMeet
  /\ ObservationIsWithin
  /\ NeverRunsOut
  /\ TemporaryLeavesNoTrace
  /\ OneCurrent
  /\ UsageIsHonest
  /\ SendingIsAwaited
  /\ JobsAreShown

(* What no step of these parts does: withdraw a notification still valid,  *)
(* commit or show what its sources have outrun, run or rebuild what ended  *)
(* or was rejected, or break the promise of a call.                        *)
ActingSteps ==
  /\ WithdrawnOnlyWhenRetired
  /\ TickWithdrawsRetired
  /\ CatchUpOnePerItem
  /\ ConsumedOnce
  /\ DialogIsNotCut
  /\ KeepsWorkPromise
  /\ DismissedIsOut
  /\ CommitsCurrent
  /\ PagesAgree
  /\ ResolvedByUser
  /\ EndedStays
  /\ RunsCurrent
  /\ ShowsCurrent
  /\ AppliesCurrent
  /\ RejectedNotRebuilt
=============================================================================
