------------------------------ MODULE MCEnding ------------------------------
(* What must come to an end: a round, a chapter, an occurrence, a cleanup, *)
(* an audit, an expiry, what is shown, a click, a quit, a stream. A        *)
(* behaviour is of one part, and what runs by itself in that part is       *)
(* weakly fair.                                                            *)
EXTENDS Integers, FiniteSets, Sequences, TLC

CONSTANTS None

VARIABLES
  part,      \* the part this behaviour is of
  \* ChatRound
  chatRows, stored, segments, ops, results, chatCommands, generation,
  granted, moving, chatPhase, pc, chatCall, verdict, inflight, chatSeen,
  chatAborted, expired, overrun, partial, chatLost, exports, effects,
  outdated, unwarned, chatStops, chatFaults,
  \* BackgroundJobs
  workJobs, attempts, chapters, workCommands, workConfig, source, grant,
  identity, gone, day, workUp, workRunning, workPlace, workSeen, workAborted,
  answer, sent, workRetries, workMoves, workStops, workFaults,
  \* DailySchedule
  planConfig, planJobs, planRows, healthy, now, planUp, planRunning,
  planLate, rule, planAsked, since, planChanges, planStops,
  \* RetentionCleanup
  preview, job, cleanItems, known, cleanRow, aside, epoch, disk, isolated,
  cleanCall, work, cleanUp, theirs, backed, cleanStops, puts, cleanFaults,
  cleanRetries,
  \* CapacityAudit
  auditText, auditRow, limit, file, heard, audit, queued, scan, auditTimer,
  auditUp, touches, auditMoves, auditConfigs, auditStops, auditFaults, early,
  \* StagingExpiry
  stageText, stageRow, policy, previews, receipt, stageRuns, last, intact,
  batch, ask, stageTimer, stageUp, stay, made, meanwhile, edits, stageMoves,
  stageConfigs, breaks, stageStops, stageFaults,
  \* AssistantViews
  db, viewCalls, events, app, switching, route, panel, busy, viewDrafts,
  viewLost,
  \* ReminderNavigation
  states, current, clickItems, activations, clickPhase, clicked, clicks,
  pending, acked, outbox, inbox, clickView, listener, delivered, ack, page,
  target, dirty, clickRuns, routed, clickSeen, consumed, clickTold,
  \* AppLifecycle
  appPlace, services, ipc, runtime, window, session, lease, appLost, guard,
  quitting, release, appPlan, planning, restart, cleanup, life,
  \* ResponseStream
  streamPlace, streamAborted, parser, result, received, chunks,
  \* ConversationView
  paneRow, paneText, run, paneCalls, answers, paneView, paneDrafts, act,
  paneSeen, ended, protected, uncertain, panePlace, code, fresh, change,
  paneLate, paneAsked, paneChanges, paneTold, wiped

chatVars ==
  <<chatRows, stored, segments, ops, results, chatCommands, generation,
    granted, moving, chatPhase, pc, chatCall, verdict, inflight, chatSeen,
    chatAborted, expired, overrun, partial, chatLost, exports, effects,
    outdated, unwarned, chatStops, chatFaults>>
workVars ==
  <<workJobs, attempts, chapters, workCommands, workConfig, source, grant,
    identity, gone, day, workUp, workRunning, workPlace, workSeen,
    workAborted, answer, sent, workRetries, workMoves, workStops, workFaults>>
planVars ==
  <<planConfig, planJobs, planRows, healthy, now, planUp, planRunning,
    planLate, rule, planAsked, since, planChanges, planStops>>
cleanVars ==
  <<preview, job, cleanItems, known, cleanRow, aside, epoch, disk, isolated,
    cleanCall, work, cleanUp, theirs, backed, cleanStops, puts, cleanFaults,
    cleanRetries>>
auditVars ==
  <<auditText, auditRow, limit, file, heard, audit, queued, scan, auditTimer,
    auditUp, touches, auditMoves, auditConfigs, auditStops, auditFaults,
    early>>
stageVars ==
  <<stageText, stageRow, policy, previews, receipt, stageRuns, last, intact,
    batch, ask, stageTimer, stageUp, stay, made, meanwhile, edits,
    stageMoves, stageConfigs, breaks, stageStops, stageFaults>>
viewVars ==
  <<db, viewCalls, events, app, switching, route, panel, busy, viewDrafts,
    viewLost>>
clickVars ==
  <<states, current, clickItems, activations, clickPhase, clicked, clicks,
    pending, acked, outbox, inbox, clickView, listener, delivered, ack, page,
    target, dirty, clickRuns, routed, clickSeen, consumed, clickTold>>
appVars ==
  <<appPlace, services, ipc, runtime, window, session, lease, appLost, guard,
    quitting, release, appPlan, planning, restart, cleanup, life>>
streamVars ==
  <<streamPlace, streamAborted, parser, result, received, chunks>>
paneVars ==
  <<paneRow, paneText, run, paneCalls, answers, paneView, paneDrafts, act,
    paneSeen, ended, protected, uncertain, panePlace, code, fresh, change,
    paneLate, paneAsked, paneChanges, paneTold, wiped>>

\* what a provider sends: text and the end of it
Text(content) == [usage |-> FALSE, choice |-> TRUE, content |-> content,
  pieces |-> <<>>, reason |-> "none", reasoning |-> FALSE]
TextPackets == [a |-> Text(<<"x">>), stop |-> [Text(<<>>) EXCEPT !.reason = "stop"]]
EventChunks == {<<"data", p, "LF", "LF">> : p \in {"a", "stop", "DONE"}}

\* two assistants that are active
Two(A) == [status |-> [x \in A |-> "active"], version |-> [x \in A |-> 1],
           primary |-> "a", current |-> "a", revision |-> 2]

Rounds == INSTANCE ChatRound WITH
  Request <- {"q1"}, AssistantOf <- [q \in {"q1"} |-> "a1"],
  Tooled <- {"q1"}, MaxCalls <- 1, Argument <- {"x"}, MaxGovernance <- 0,
  MaxStops <- 1, MaxFaults <- 1, rows <- chatRows, commands <- chatCommands,
  phase <- chatPhase, call <- chatCall, seen <- chatSeen,
  aborted <- chatAborted, lost <- chatLost, stops <- chatStops,
  faults <- chatFaults

Chapters == INSTANCE BackgroundJobs WITH
  Round <- {1}, Budget <- 1, AttemptLimit <- 2, MaxDay <- 1, MaxConfig <- 2,
  MaxRetries <- 1, MaxStops <- 1, MaxFaults <- 1, MaxMoves <- 0,
  jobs <- workJobs, commands <- workCommands, config <- workConfig,
  up <- workUp, running <- workRunning, place <- workPlace, seen <- workSeen,
  aborted <- workAborted, retries <- workRetries, moves <- workMoves,
  stops <- workStops, faults <- workFaults

Schedule == INSTANCE DailySchedule WITH
  Configs <- 2, Period <- 2, Gap <- 1, MaxTime <- 2, MaxVersion <- 2,
  MaxChanges <- 3, MaxStops <- 1,
  Recoveries <- {[explicit |-> FALSE, window |-> 0, merge |-> FALSE, expire |-> FALSE]},
  Steps <- {1}, config <- planConfig, jobs <- planJobs, rows <- planRows,
  up <- planUp, running <- planRunning, late <- planLate, asked <- planAsked,
  changes <- planChanges, stops <- planStops

Cleanup == INSTANCE RetentionCleanup WITH
  Batch <- 2, MaxVersion <- 2, MaxEpoch <- 3, MaxPuts <- 1, MaxStops <- 1,
  MaxFaults <- 1, MaxRetries <- 1, Mem <- {"m1"}, Preview <- {"p1"},
  Call <- {"k1"}, Target <- ("p1" :> {"m1"}), Intent <- ("p1" :> "empty"),
  PreviewOf <- ("k1" :> "p1"), items <- cleanItems, row <- cleanRow,
  call <- cleanCall, up <- cleanUp, stops <- cleanStops,
  faults <- cleanFaults, retries <- cleanRetries

Capacity == INSTANCE CapacityAudit WITH
  Mems <- 2, Existing <- {1}, Batch <- 1, MaxTouches <- 1, MaxMoves <- 1,
  MaxConfigs <- 0, MaxStops <- 1, MaxEarly <- 0, MaxFaults <- 1,
  Limits <- {3}, Sizes <- {1}, text <- auditText, row <- auditRow,
  timer <- auditTimer, up <- auditUp, moves <- auditMoves,
  configs <- auditConfigs, stops <- auditStops, faults <- auditFaults

Expiry == INSTANCE StagingExpiry WITH
  MaxDays <- 1, Batch <- 1, Asks <- 1, MaxRuns <- 2, MaxEdits <- 0,
  MaxMoves <- 1, MaxConfigs <- 0, MaxBreaks <- 1, MaxStops <- 1,
  MaxFaults <- 0, Mems <- 1, Settings <- {[on |-> TRUE, days |-> 1]},
  text <- stageText, row <- stageRow, runs <- stageRuns, timer <- stageTimer,
  up <- stageUp, moves <- stageMoves, configs <- stageConfigs,
  stops <- stageStops, faults <- stageFaults

Views == INSTANCE AssistantViews WITH
  Assistant <- {"a", "b"}, Starts <- {Two({"a", "b"})}, MaxRevision <- 3,
  MaxCalls <- 1, calls <- viewCalls, drafts <- viewDrafts, lost <- viewLost

Clicks == INSTANCE ReminderNavigation WITH
  MayFail <- FALSE, MaxDelivered <- 2, Assistants <- {"a1"}, Items <- {"i1"},
  Reminders <- {"r1"}, ItemOf <- ("r1" :> "i1"), Groups <- {{"r1"}},
  MaxClicks <- 1, MaxRev <- 2, MaxMessages <- 1, MaxRuns <- 1, MaxAcked <- 1,
  items <- clickItems, phase <- clickPhase, view <- clickView,
  runs <- clickRuns, seen <- clickSeen, told <- clickTold

App == INSTANCE AppLifecycle WITH
  place <- appPlace, lost <- appLost, plan <- appPlan

Stream == INSTANCE ResponseStream WITH
  Stream <- TRUE, ToolMode <- FALSE, Retained <- FALSE, MaxCalls <- 2,
  MaxText <- 4, MaxDelta <- 2, MaxBuffer <- 6, MaxBytes <- 40,
  Packets <- TextPackets, Chunks <- EventChunks,
  ValidArguments <- {<<"(", ")">>}, MaxChunks <- 2, place <- streamPlace,
  aborted <- streamAborted

Pane == INSTANCE ConversationView WITH
  Mode <- "normal", JobEnds <- FALSE, InOrder <- TRUE, Requests <- {"r1"},
  OwnReads <- {"o1"}, Reasons <- {"cleanup"}, MaxChanges <- 1, Asks <- {},
  MaxDeltas <- 1, row <- paneRow, text <- paneText, calls <- paneCalls,
  view <- paneView, drafts <- paneDrafts, seen <- paneSeen,
  place <- panePlace, late <- paneLate, asked <- paneAsked,
  changes <- paneChanges, told <- paneTold

ASSUME Schedule!ScheduleAssumption
ASSUME Schedule!OccurrenceAssumption
ASSUME Capacity!CapacityAssumption
ASSUME Expiry!ExpiryAssumption
ASSUME Views!ViewsAssumption
ASSUME Clicks!NavigationAssumption
ASSUME Pane!ConversationAssumption
-----------------------------------------------------------------------------
(* Outside its own parts a module has no state.                            *)
chatOff ==
  /\ chatRows = None /\ stored = None /\ segments = None /\ ops = None
  /\ results = None /\ chatCommands = None /\ generation = None
  /\ granted = None /\ moving = None /\ chatPhase = None /\ pc = None
  /\ chatCall = None /\ verdict = None /\ inflight = None /\ chatSeen = None
  /\ chatAborted = None /\ expired = None /\ overrun = None /\ partial = None
  /\ chatLost = None /\ exports = None /\ effects = None /\ outdated = None
  /\ unwarned = None /\ chatStops = None /\ chatFaults = None

workOff ==
  /\ workJobs = None /\ attempts = None /\ chapters = None
  /\ workCommands = None /\ workConfig = None /\ source = None
  /\ grant = None /\ identity = None /\ gone = None /\ day = None
  /\ workUp = None /\ workRunning = None /\ workPlace = None
  /\ workSeen = None /\ workAborted = None /\ answer = None /\ sent = None
  /\ workRetries = None /\ workMoves = None /\ workStops = None
  /\ workFaults = None

planOff ==
  /\ planConfig = None /\ planJobs = None /\ planRows = None
  /\ healthy = None /\ now = None /\ planUp = None /\ planRunning = None
  /\ planLate = None /\ rule = None /\ planAsked = None /\ since = None
  /\ planChanges = None /\ planStops = None

cleanOff ==
  /\ preview = None /\ job = None /\ cleanItems = None /\ known = None
  /\ cleanRow = None /\ aside = None /\ epoch = None /\ disk = None
  /\ isolated = None /\ cleanCall = None /\ work = None /\ cleanUp = None
  /\ theirs = None /\ backed = None /\ cleanStops = None /\ puts = None
  /\ cleanFaults = None /\ cleanRetries = None

auditOff ==
  /\ auditText = None /\ auditRow = None /\ limit = None /\ file = None
  /\ heard = None /\ audit = None /\ queued = None /\ scan = None
  /\ auditTimer = None /\ auditUp = None /\ touches = None
  /\ auditMoves = None /\ auditConfigs = None /\ auditStops = None
  /\ auditFaults = None /\ early = None

stageOff ==
  /\ stageText = None /\ stageRow = None /\ policy = None /\ previews = None
  /\ receipt = None /\ stageRuns = None /\ last = None /\ intact = None
  /\ batch = None /\ ask = None /\ stageTimer = None /\ stageUp = None
  /\ stay = None /\ made = None /\ meanwhile = None /\ edits = None
  /\ stageMoves = None /\ stageConfigs = None /\ breaks = None
  /\ stageStops = None /\ stageFaults = None

viewOff ==
  /\ db = None /\ viewCalls = None /\ events = None /\ app = None
  /\ switching = None /\ route = None /\ panel = None /\ busy = None
  /\ viewDrafts = None /\ viewLost = None

clickOff ==
  /\ states = None /\ current = None /\ clickItems = None
  /\ activations = None /\ clickPhase = None /\ clicked = None
  /\ clicks = None /\ pending = None /\ acked = None /\ outbox = None
  /\ inbox = None /\ clickView = None /\ listener = None /\ delivered = None
  /\ ack = None /\ page = None /\ target = None /\ dirty = None
  /\ clickRuns = None /\ routed = None /\ clickSeen = None /\ consumed = None
  /\ clickTold = None

appOff ==
  /\ appPlace = None /\ services = None /\ ipc = None /\ runtime = None
  /\ window = None /\ session = None /\ lease = None /\ appLost = None
  /\ guard = None /\ quitting = None /\ release = None /\ appPlan = None
  /\ planning = None /\ restart = None /\ cleanup = None /\ life = None

streamOff ==
  /\ streamPlace = None /\ streamAborted = None /\ parser = None
  /\ result = None /\ received = None /\ chunks = None

paneOff ==
  /\ paneRow = None /\ paneText = None /\ run = None /\ paneCalls = None
  /\ answers = None /\ paneView = None /\ paneDrafts = None /\ act = None
  /\ paneSeen = None /\ ended = None /\ protected = None /\ uncertain = None
  /\ panePlace = None /\ code = None /\ fresh = None /\ change = None
  /\ paneLate = None /\ paneAsked = None /\ paneChanges = None
  /\ paneTold = None /\ wiped = None

Init ==
  /\ part \in {"rounds", "chapters", "schedule", "cleanup", "capacity",
              "expiry", "views", "clicks", "app", "stream", "pane"}
  /\ CASE part = "rounds" -> Rounds!Init
       [] OTHER -> chatOff
  /\ CASE part = "chapters" -> Chapters!Init
       [] OTHER -> workOff
  /\ CASE part = "schedule" -> Schedule!Init
       [] OTHER -> planOff
  /\ CASE part = "cleanup" -> Cleanup!Init
       [] OTHER -> cleanOff
  /\ CASE part = "capacity" -> Capacity!Init
       [] OTHER -> auditOff
  /\ CASE part = "expiry" -> Expiry!Init
       [] OTHER -> stageOff
  /\ CASE part = "views" -> Views!Init
       [] OTHER -> viewOff
  /\ CASE part = "clicks" -> Clicks!Init
       [] OTHER -> clickOff
  /\ CASE part = "app" -> App!Init
       [] OTHER -> appOff
  /\ CASE part = "stream" -> Stream!Init
       [] OTHER -> streamOff
  /\ CASE part = "pane" -> Pane!Init
       [] OTHER -> paneOff

(* The step of a part leaves the other modules alone.                      *)
chatOnly == UNCHANGED <<part, workVars, planVars, cleanVars, auditVars,
    stageVars, viewVars, clickVars, appVars, streamVars, paneVars>>
workOnly == UNCHANGED <<part, chatVars, planVars, cleanVars, auditVars,
    stageVars, viewVars, clickVars, appVars, streamVars, paneVars>>
planOnly == UNCHANGED <<part, chatVars, workVars, cleanVars, auditVars,
    stageVars, viewVars, clickVars, appVars, streamVars, paneVars>>
cleanOnly == UNCHANGED <<part, chatVars, workVars, planVars, auditVars,
    stageVars, viewVars, clickVars, appVars, streamVars, paneVars>>
auditOnly == UNCHANGED <<part, chatVars, workVars, planVars, cleanVars,
    stageVars, viewVars, clickVars, appVars, streamVars, paneVars>>
stageOnly == UNCHANGED <<part, chatVars, workVars, planVars, cleanVars,
    auditVars, viewVars, clickVars, appVars, streamVars, paneVars>>
viewOnly == UNCHANGED <<part, chatVars, workVars, planVars, cleanVars,
    auditVars, stageVars, clickVars, appVars, streamVars, paneVars>>
clickOnly == UNCHANGED <<part, chatVars, workVars, planVars, cleanVars,
    auditVars, stageVars, viewVars, appVars, streamVars, paneVars>>
appOnly == UNCHANGED <<part, chatVars, workVars, planVars, cleanVars,
    auditVars, stageVars, viewVars, clickVars, streamVars, paneVars>>
streamOnly == UNCHANGED <<part, chatVars, workVars, planVars, cleanVars,
    auditVars, stageVars, viewVars, clickVars, appVars, paneVars>>
paneOnly == UNCHANGED <<part, chatVars, workVars, planVars, cleanVars,
    auditVars, stageVars, viewVars, clickVars, appVars, streamVars>>

Next ==
  \/ part = "rounds" /\ Rounds!Next /\ chatOnly
  \/ part = "chapters" /\ Chapters!Next /\ workOnly
  \/ part = "schedule" /\ Schedule!Next /\ planOnly
  \/ part = "cleanup" /\ Cleanup!Next /\ cleanOnly
  \/ part = "capacity" /\ Capacity!Next /\ auditOnly
  \/ part = "expiry" /\ Expiry!Next /\ stageOnly
  \/ part = "views" /\ Views!Next /\ viewOnly
  \/ part = "clicks" /\ Clicks!Next /\ clickOnly
  \/ part = "app" /\ App!Next /\ appOnly
  \/ part = "stream" /\ Stream!Next /\ streamOnly
  \/ part = "pane" /\ Pane!Next /\ paneOnly

vars == <<part, chatVars, workVars, planVars, cleanVars, auditVars,
          stageVars, viewVars, clickVars, appVars, streamVars, paneVars>>

Spec == Init /\ [][Next]_vars

Fairness ==
  /\ WF_chatVars(part = "rounds" /\ Rounds!BootStep)
  /\ \A q \in {"q1"} : /\ WF_chatVars(part = "rounds" /\ Rounds!SectionStep(q))
                       /\ WF_chatVars(part = "rounds" /\ Rounds!AnswerStep(q))
  /\ WF_workVars(part = "chapters" /\ Chapters!PumpStep)
  /\ WF_workVars(part = "chapters" /\ Chapters!AnswerStep)
  /\ WF_workVars(part = "chapters" /\ Chapters!Restart)
  /\ WF_planVars(part = "schedule" /\ Schedule!Pump)
  /\ WF_planVars(part = "schedule" /\ Schedule!PumpThrows)
  /\ WF_planVars(part = "schedule" /\ \E r \in {"COMPLETED", "FAILED"} : Schedule!Finish(r))
  /\ WF_planVars(part = "schedule" /\ Schedule!Restart)
  /\ WF_cleanVars(part = "cleanup" /\ Cleanup!Drain)
  /\ WF_cleanVars(part = "cleanup" /\ Cleanup!Restart)
  /\ WF_auditVars(part = "capacity" /\ Capacity!Audited)
  /\ WF_auditVars(part = "capacity" /\ Capacity!Timer /\ auditTimer = "retry")
  /\ WF_auditVars(part = "capacity" /\ Capacity!Restart)
  /\ WF_stageVars(part = "expiry" /\ Expiry!Fire)
  /\ WF_stageVars(part = "expiry" /\ (Expiry!MoveDue \/ Expiry!Skip \/ Expiry!Fail \/ Expiry!End))
  /\ WF_stageVars(part = "expiry" /\ Expiry!AskedRun(1))
  /\ WF_stageVars(part = "expiry" /\ Expiry!Day)
  /\ WF_stageVars(part = "expiry" /\ Expiry!Restart)
  /\ WF_viewVars(part = "views" /\ Views!Serve)
  /\ WF_viewVars(part = "views" /\ viewCalls # <<>> /\ Views!Deliver(1))
  /\ \A a \in {"a", "b"} : WF_viewVars(part = "views" /\ Views!PurgeEvent(a))
  /\ WF_clickVars(part = "clicks" /\ Clicks!Serve)
  /\ WF_clickVars(part = "clicks" /\ Clicks!Deliver)
  /\ WF_clickVars(part = "clicks" /\ Clicks!Render)
  /\ WF_appVars(part = "app" /\ App!CleanUp)
  /\ WF_appVars(part = "app" /\ App!Cleaned)
  /\ WF_appVars(part = "app" /\ App!Handed)
  /\ WF_appVars(part = "app" /\ App!PlanEnds)
  /\ WF_appVars(part = "app" /\ App!ReleaseEnds)
  /\ WF_streamVars(part = "stream" /\ Stream!Timeout)
  /\ WF_streamVars(part = "stream" /\ Stream!GiveUp)
  /\ WF_paneVars(part = "pane" /\ Pane!Serve)
  /\ WF_paneVars(part = "pane" /\ Pane!End)
  /\ WF_paneVars(part = "pane" /\ Pane!Hear)
  /\ WF_paneVars(part = "pane" /\ Pane!Effect)

FairSpec == Spec /\ Fairness

-----------------------------------------------------------------------------
(* Every round ends: its answer comes, or its wait is broken off.          *)
AnswerEnds ==
  (part = "rounds" /\ "q1" \in inflight)
    ~> (part # "rounds" \/ "q1" \notin inflight)

(* Every operation is settled in the end, by its chain or by a restart,    *)
(* unless the ledger cannot be written.                                    *)
OperationSettles ==
  \A c \in Rounds!Call :
    (part = "rounds" /\ ops["q1"][c].state \in Rounds!Open)
      ~> (\/ part # "rounds"
          \/ ops["q1"][c].state \notin Rounds!Open
          \/ <<"q1", "ledger">> \in chatLost)

(* A queued chapter is decided, through exits, crashes and lost answers    *)
(* (pump(), the constructor).                                              *)
ChapterIsDecided ==
  (part = "chapters" /\ workJobs[1].state = "QUEUED")
    ~> (part # "chapters" \/ workJobs[1].state # "QUEUED")

(* A chapter that runs ends, through exits, crashes and lost answers       *)
(* (pump(), the constructor).                                              *)
ChapterEnds ==
  (part = "chapters" /\ workJobs[1].state = "RUNNING")
    ~> (part # "chapters" \/ workJobs[1].state # "RUNNING")

(* While every recipient is the one that was granted, what is queued is    *)
(* decided (pump()).                                                       *)
OccurrenceIsDecided ==
  <>[](part # "schedule" \/ \A c \in Schedule!Config : healthy[c]) =>
    \A o \in Schedule!Occurrence :
      (part = "schedule" /\ planJobs[o] = "QUEUED")
        ~> (part # "schedule" \/ planJobs[o] # "QUEUED")

(* A job that was to be done is done or failed in the end, also after the  *)
(* process died in the middle or the user asked again (drain(), retry()).  *)
JobIsDecided ==
  \A j \in Cleanup!Job :
    (part = "cleanup" /\ job[j] \in {"CLEANUP_PENDING", "CLEANING"})
      ~> (\/ part # "cleanup"
          \/ job[j] \in {"COMPLETED", "FAILED_RETRYABLE"})

(* Whatever is edited, moved or invalidated while it runs, and if the      *)
(* storage fails inside of it, measurement comes to an end at last.        *)
AuditCompletes ==
  []<>(part # "capacity" \/ audit = "COMPLETE")

(* What is due goes: unless its file is damaged, or the policy changes.    *)
DueIsMoved ==
  \A m \in Expiry!Mem :
    (part = "expiry" /\ stageUp /\ Expiry!Due(m))
      ~> (part # "expiry" \/ Expiry!Held(m) \/ ~Expiry!Due(m))

(* The disabled controls come back: of the panel, and of the header.       *)
ControlsComeBack ==
  /\ (part = "views" /\ busy) ~> (part # "views" \/ ~busy)
  /\ (part = "views" /\ switching) ~> (part # "views" \/ ~switching)

(* A delivery that waits while App shows its assistant and revision is     *)
(* routed, also one that was sent before the window listened.              *)
Heard ==
  \A n \in Clicks!Ids :
    (part = "clicks" /\ Clicks!Waits(n))
      ~> (\/ part # "clicks"
          \/ ~Clicks!Waits(n)
          \/ Clicks!Contains(routed, n))

(* A quit whose services have closed ends the program, also when its       *)
(* maintenance fails.                                                      *)
QuitEnds ==
  (part = "app" /\ App!Releasing)
    ~> (part # "app" \/ life # "up")

(* A program that lost its data set ends, unless a recovery is under way.  *)
LostEnds ==
  (part = "app" /\ appLost)
    ~> (part # "app" \/ life # "up" \/ appPlace = "recovering")

(* Every request ends, also when the server falls silent.                  *)
AnswerComes ==
  <>(part # "stream" \/ streamPlace = "done")

(* A request shown as pending does not stay so without a word.             *)
PendingResolves ==
  (/\ part = "pane"
   /\ paneView["r1"] # None
   /\ "r1" \in Pane!Sent
   /\ "r1" \notin paneLate)
    ~> (\/ part # "pane"
        \/ paneView["r1"] = None
        \/ paneView["r1"].status # "pending"
        \/ "r1" \in uncertain
        \/ "r1" \in paneLate)

(* A round answers and its operations settle, a chapter and an occurrence  *)
(* of the schedule are decided and end.                                    *)
WorkEnds ==
  /\ AnswerEnds
  /\ OperationSettles
  /\ ChapterIsDecided
  /\ ChapterEnds
  /\ OccurrenceIsDecided

(* A cleanup that was confirmed is carried out or fails for the user to    *)
(* see, the audit completes again and again, and what is due for moving    *)
(* goes.                                                                   *)
StorageSettles ==
  /\ JobIsDecided
  /\ AuditCompletes
  /\ DueIsMoved

(* The controls come back, a click is routed, quitting and losing the data *)
(* end, the stream answers, and what a pane shows as pending resolves.     *)
WindowsAnswer ==
  /\ ControlsComeBack
  /\ Heard
  /\ QuitEnds
  /\ LostEnds
  /\ AnswerComes
  /\ PendingResolves
=============================================================================
