# Mashiro: TLA+ models and proofs

Mashiro is a single-user desktop assistant (Electron, TypeScript) that keeps
everything in one local SQLite database: assistants and their chat timelines,
formal items and proposals, reminders, confirmed memories, model connections,
retention rules and background jobs. This directory models its core logic,
model-checks it and proves part of it. Paths below are relative to the
repository's `src/src/main` unless they say otherwise.

## How the program runs, and how that is modelled

The main process is single threaded and SQLite is used synchronously. Two
sections of JavaScript interleave only where one awaits, returns to the event
loop, or calls out to something that may call back. A process death can fall
between any two SQLite commits (or file-system operations). Every module is cut
accordingly:

* an action is one synchronous section from one such point to the next,
  including every reconcile, refresh and status write the section ends with;
* a section that commits several times is split at its commits, and while it is
  unfinished a variable that names the handler (`place`, `pc`, `work`) keeps
  every other one out, so that only a process death can come between;
* durable variables (tables, files) survive the end of the process, volatile
  ones (Maps, timers, generations) are reset by it.

Several properties need a memory of what was done to the outside world (how
often a native notification was requested, for instance). Such variables are
marked *history*: no guard reads them. Counters marked *bound* only end the
exploration; the proofs hold for every value of them.

## Inventory

| Component | State it keeps | Operations | Hard behaviour | Correct when |
|---|---|---|---|---|
| Reminder scheduling: `reminder/reminder-service.ts`, `reminder-runtime.ts`, `windows-reminder-platform.ts` | tables `reminders`, `reminder_occurrences`, `reminder_settings`; `lastTick`, `notices`, timers; native notifications; the login entry of Windows | create, reschedule, cancel, handle, configure, query; tick (1 s, resume), recover, dispatch, native callbacks, 10 s observation timeout | crash between claim and show; callbacks late, repeated, out of order; clock jumps and sleep; edits while a claim is on its way; storage errors swallowed by the runtime | a version is shown at most once; nothing closed is shown; every claim ends in a recorded result; catch-up obeys the policy |
| Reminder commands: `reminder-service.ts` 288-540, `reminder-tool-session.ts` | `reminder_commands`, `reminder_previews` | mutate by command id, prepare, confirm, reject, operation | repeated commands, a preview confirmed twice or against newer versions | a command applies once and its receipt says so |
| Reminder activation: `reminder-navigation.ts`, `activate*` | `reminder_notification_members`, `reminder_activations` | click, cold activation, renderer acknowledgement | click before the window is ready, renderer reload | an intent is delivered or kept, never to a retired reminder |
| Chat rounds: `provider/provider-service.ts`, `timeline-repository.ts` | `timeline_messages`, in-flight map with abort controllers, governance generation | startChat, cancelChat, close, setPermissions, connection edits, retention hook | answers racing cancel, shutdown and withdrawal of permissions; crash with a round pending | a round ends once, with nothing written after it was given up |
| Tool execution: `tool-execution.ts`, `tool-repository.ts`, `tool-protocol.ts` | `protocol_segments`, `tool_operations`, `protocol_results` | prepare, dispatch, execute, settle, close, recover | an effect committed and its answer lost; cancellation between two commits | the ledger never says "not applied" of an applied effect, nor "applied" of one that is not |
| Provider connections and credentials: `provider-repository.ts`, `credential-vault.ts`, `provider-profile.ts`, `history-permission-repository.ts` | connections, bindings, permissions, encrypted keys | save, delete, bind, grant | edits while a request is in flight | a request in flight uses only what is still granted |
| Transport: `chat-completions-transport.ts`, `retained-text.ts` | none | one streamed HTTP exchange | time-outs, partial streams | one final status per exchange |
| Memory: `memory/memory-service.ts`, rounds | `memory_objects`, versions, commands, previews, files | write, correct, delete, withdraw, confirm, search, recovery | a file and a row that must change together; repeated commands | a command applies once; a withdrawn source is used by nothing |
| Retention: `retention/retention-service.ts`, `retention-policy-service.ts` | jobs, items, epoch, generation, trash, tombstones; quarantined files | preview, confirm, drain, retry, move, policy runs, audits | previews going stale across awaits; a crash between renaming and unlinking | nothing suppressed comes back; a job finishes or says why not |
| Items: `item/item-service.ts`, `item-intent.ts`, `item-tool-session.ts`, `item-retention.ts` | items, proposals, commands, previews | mutate, propose, accept, reject, defer, delete, confirm | proposals accepted twice or against changed sources | an accepted proposal makes one item |
| Background chapters: `background/background-service.ts`, `background-sources.ts` | jobs, attempts, chapters, configuration | scan, reserve, send, settle, accept, control | budget reserved before a call whose result is lost; cancel and retry racing the answer | the budget counts every call; a job is accepted once |
| Steward: `background/steward-*.ts` | pending rows, jobs, branches, slots | organise, discover, resolve | as for chapters, with conflicts between branches | a pending row is consumed once |
| Daily: `background/daily-*.ts` | configurations, jobs, reports, candidates | schedule, send, apply, decide | time zones, missed days, late answers | one report per due slot |
| Operations: `background/operations-service.ts` | usage attempts, events | begin, settle, capture, query | attempts without an end | usage is counted once |
| Assistants: `assistant/*.ts` | assistants, current one | create, rename, archive, restore, purge | archiving while a round runs | an archived assistant starts nothing |
| Data governance: `data/production-governance-*.ts` | hash-linked journal, pending tokens, portable copy | before commit, resolve, recover, dominance check | journal and database that commit separately | a deletion survives the restore of an older copy |
| Data session: `data/production-session.ts`, `-lease`, `-location*`, `-selection*`, `-maintenance`, `-backup`, `-restore`, `-initialize`, `-bootstrap`, `-prepare` | leases, locator file, selected data set | open, back up, restore, select, create, release | two processes on one data set, pointer changed meanwhile, crash during a switch | one writer per data set; the pointer always names a prepared one |
| Shell: `index.ts`, `ipc/`, `app/`, preload | startup and quit phases | start, quit, IPC routing | IPC before the runtime is attached; quit during start-up | services close in order, once |
| Renderer: conversation pane, assistant views, click routing | what is shown, drafts, late answers | send, clear, save, switch, read | answers, events and snapshots of different moments | no text lost or shown after it was cleaned |
| Other renderer panels, shared contracts, E2E controllers, build | UI state, schemas | | | not modelled: presentation, validation, test code |

How they interact: an item write stops reminders of the item in its own
transaction; retention blanks rounds, aborts them and bumps the governance
generation that every running round compares; a memory commit made for one
round aborts the other ones that may have read what changed; quitting closes the
provider service (which settles its rounds and closes the store) before the
reminder runtime; the background services ask the provider service for their
calls and write their chapters through the memory service; every governed write
is noted in the journal before it commits, and restoring a copy applies the
journal to it.

## Modules

Each module has one component's state as its variables, one action per handler or
section, and its properties at the end.

| Module | Code | What it models |
|---|---|---|
| `Reminders` | `reminder-service.ts`, `reminder-runtime.ts`, item writes | schedule, tick with its recovery rules, claims, dispatch, callbacks, time-outs, merged notices, start, exit, crash |
| `ReminderCommands` | `reminder-service.ts`, `reminder-tool-session.ts`, `startChat` | commands with receipts, a round's candidates and their confirmation |
| `ReminderNavigation` | `reminder-navigation.ts`, `activate*`, `App.tsx` | a click from the notification to the page, through reloads and full queues |
| `LoginStartup` | `configure()`, `windows-reminder-platform.ts` | the login entry, changed before the settings are committed and taken back |
| `ChatRound` | `provider-service.ts`, `tool-execution.ts`, `tool-repository.ts`, `memory-service.ts` | a round with its tool chain, ledger, memory command, governance, exit, crash and recovery |
| `ToolPromise` | | abstract: what the tool ledger promises its reader; `ChatRound` implements it |
| `Recipients` | `provider-service.ts`, `provider-repository.ts`, `credential-vault.ts` | connections, keys, bindings, permissions, both chat modes, and what each call carries |
| `ResponseStream` | `chat-completions-transport.ts`, `tool-protocol.ts` | reading an answer that is cut anywhere |
| `ConversationView` | `ProviderPanel.tsx` | the pane against calls, events and snapshots of different moments |
| `Assistants`, `AssistantViews` | `assistant-repository.ts`, `App.tsx`, `AssistantPanel.tsx` | the table of assistants as functions of its state, and its two holders in the window |
| `MemoryCommands` | `memory-service.ts` | commands of user, model and jobs with file and row, removal previews, withdrawal, index, edited files, recovery |
| `FormalItems` | `item-service.ts`, `item-tool-session.ts` | items, links, proposals, previews, what a round read before it writes |
| `RetentionScope` | `plan()`, `assertSource()` | what a clearing reaches and what stays usable after it |
| `RetentionCleanup` | `retention-service.ts` | previews that go stale, jobs of files and rows, quarantine, retries, crashes |
| `CapacityAudit`, `StagingExpiry` | `retention-policy-service.ts` | measuring what is kept; moving what has expired |
| `GovernanceJournal`, `RestoredCopy` | `data/production-governance-*.ts` | journal and database that commit separately; what a restored copy becomes |
| `ProductionSession` | `data/production-*.ts` | leases, pointer, preparation, backup, restore of two programs |
| `AppLifecycle` | `index.ts`, `reminder-runtime.ts`, `create-window.ts` | start, failed start, quit, maintenance, loss of the data |
| `BackgroundJobs` | `background-service.ts`, `background-sources.ts` | a chapter from its scan through charge, call, answer and acceptance |
| `WorkPromise` | | abstract: what the background services promise who pays; `BackgroundJobs`, `StewardRuns` and `DailyReports` implement it |
| `StewardRuns`, `BranchViews` | `steward-*.ts` | finding, planning and carrying out slot by slot; branches read page by page |
| `DailySchedule`, `DailyReports`, `DailyTime` | `daily-*.ts` | what falls due, what a job does, and the arithmetic of local times |
| `Operations` | `operations-service.ts`, `operations-sources.ts` | attempts, settlement, the page of current matters |
| `MCReminders`, `MCChatRound`, `MCRetentionCleanup` | | definitions for the small instances of one module |
| `MCTalking`, `MCActing`, `MCStoring`, `MCDeciding`, `MCEnding` | | composite instances, see below |
| `RemindersProofs`, `ChatRoundProofs`, `BackgroundJobsProofs`, `DailyReportsProofs`, `StewardRunsProofs`, `RetentionCleanupProofs`, `RecipientsProofs`, `ProductionSessionProofs` | | theorems about the module of the name |

Operators named "wrong variant" in a comment are not used by the
specifications: each is the form a definition would have after a plausible
mistake, and is there to confirm that the properties notice it. Comments that
begin "Does not hold" mark statements the code was found to break; they are
listed under "What the code does otherwise".

### Composite instances

`MCTalking`, `MCActing`, `MCStoring`, `MCDeciding` and `MCEnding` check many
small instances in one run. Each instance is a *part*: the variable `part` is
chosen in `Init` and never changes, the part's module runs on its own variables,
and the variables of the other modules are `None`. A property of a module is
lifted to `part = "x" => X!Property`, and the runs check conjunctions of these,
named for what they say together (`SendingHolds`, `WorkHolds`, ...); the comment
before each conjunction and the names in it say which properties it holds. A
module appears in several parts where one instance cannot show everything: two
cleanups that meet need two texts, a cleanup that restores needs an original put
aside.

### Reminders and the code

| State | In the code |
|---|---|
| `item` | status of the formal item; only what reminders need of it |
| `reminders`, `occurrences`, `settings` | the tables of `reminder-schema.ts` |
| `phase` | `index.ts` 116-230: `"boot"` is the time IPC is served and the runtime not yet attached |
| `batches` | the claims `tick()` has committed and `dispatch()` has not reached (line 647 to 652) |
| `owed` | `configure()` and `recover()` end with a tick; in between they have committed |
| `lastTick`, `notices`, `timers`, `bound` | the fields of the service, lost with the process |
| `native` | what the operating system still shows |
| `shown`, `halted` | history |

`Schedule`, `Resolve`, `Query`, `Configure` are the user's operations, `CloseItem`,
`ReopenItem`, `DeleteItem` those of the item service; `Tick(recovery)` is one
tick up to its commit; `Show`, `ShowThrows`, `Unsupported` and `DispatchFault`
one batch of `dispatch()`; `NativeEvent` and `ObservationTimeout` the callbacks.
Time is counted in units a test of the policy can tell apart; `Elapse` is the
clock running, `ClockJump` sleep or a change of the clock in either direction.

Left out: texts; the table of notification members. Command ids, receipts and
previews are in `ReminderCommands`, activation in `ReminderNavigation`, the login
entry in `LoginStartup`.

### ChatRound and the code

| State | In the code |
|---|---|
| `rows`, `stored` | status and text of the answer in `timeline_messages` |
| `segments`, `ops`, `results` | the tool ledger of `tool-repository.ts` |
| `commands` | `memory_commands`; one per round, since `toolMutation()` derives its id from the round |
| `generation` | `retention_state.generation` |
| `granted` | whether everything `assertCurrent()` compares with the start of the round still holds: connection, key, binding, assistant, permissions, sources |
| `pc`, `call`, `verdict` | where the code of a round stands; which call; what the chain returned |
| `inflight`, `aborted`, `seen`, `partial` | the in-flight map with its controllers, captured generations and response objects |
| `expired`, `overrun` | the local flags `timeout` and `deltaLimitExceeded` |
| `moving`, `unwarned` | a policy batch between its moves; the second is history |
| `lost`, `exports`, `effects`, `outdated` | history |

The code of a round runs from one `await` to the next. In the places of
`Resting` it awaits and others run; everywhere else only the round itself moves,
except a crash, which may come between any two commits, and `Cancel` and
`Withdraw`, which may also come from an operation event (`Callback`): the code
re-checks after each event because of that. The actions of `CallStep` follow
`executeCall()` one commit each; `WriteIntent` and `WriteCommit` are the two
commits of `MemoryService.apply()`, the second of which contains object, command
and operation. `RecoverTimeline`, `RecoverLedger` and `RecoverMemory` are the
three recovery transactions in the order the constructor of `ProviderService`
runs them, with a crash possible between them.

Abstractions: a model answer is any of its outcomes; "read" stands for the clock,
the history and the memory search, which differ only in what they return; the
arguments of a write are two values, so that a repetition can be told from
another command. A promise that is already settled gives way to anything else
(places `returned` and `ended`), which allows more interleavings than the
microtask queue has. Left out: item, reminder and retention tools, removal
previews, the local user intent, context building, capability evidence and the
notification of background services. Temporary chats are in `Recipients`.

### BackgroundJobs and the code

| State | In the code |
|---|---|
| `jobs`, `attempts`, `chapters`, `commands` | `background_jobs`, `background_attempts` with their day, `background_chapters`, the memory command of each job |
| `config`, `grant`, `identity`, `source`, `gone` | what `current()` and `authority()` compare: configuration, recipient, version of its connection, the round's text, the assistant |
| `running`, `place`, `seen`, `aborted`, `answer` | the running map with its controller, and where `execute()` stands |
| `sent`, `retries` | history: calls made, retries the user asked for |

`Pump` is `scan()`; `Execute` takes the first queued job up to the commit that
charges it; `Send` is the call; `Answer` and `AnswerLost` its two ends; `Judge`
compares everything again; `Intent`, `Accept` and `AcceptFault` are the two
commits of `acceptCandidate()`. `Configure`, `Run`, `Cancel`, `Inspect`, `Retry` are
the user's requests, which are served where the pump awaits (`Free`). `Restart` is
the constructor's reconciliation. One assistant; topics, reading of chapters and
the input-character budget are left out.

### The other modules and the code

The header of each module says how its steps are cut, and every variable has a
comment naming the table, file or field it stands for. What is abstracted:

* `RetentionCleanup`: contents of a file are what the program wrote, nothing, or
  one of somebody else's; a plan that awaits is two steps. `overview()` and the
  effects on items are left out.
* `RetentionScope`: preview and confirmation are one step (the other module shows
  what comes between); sources are nodes of a graph.
* `CapacityAudit`: two counters are flags ("changed since"); a batch is one turn.
  `StagingExpiry`: time is kept as ages, capped where the code stops telling them
  apart.
* `GovernanceJournal`: a row is a version and whether it is barred; an append may be
  torn. `RestoredCopy`: the journal's notes are the live data themselves.
* `ProductionSession`: a data set is a number in the database and one in its files;
  dialogs and the development root are left out.
* `MemoryCommands`: no handler awaits, so commands do not interleave and `place`
  says how far the running one has come; texts are versions.
* `FormalItems`: a command already known returns its receipt, which is no step;
  contents are their links and whether they are open.
* `Recipients`: versions are compared only with those a round started with, so a
  round's connection or binding is `stale` or not. A key whose file cannot be
  removed (`DeleteFails`) stays on the disk, its temporary copy is gone.
* `ResponseStream`: tokens for line ends, field names and payloads; JSON is data. The
  limit on reasoning and JSON over several data lines are left out. A chunk
  delivered when the abort comes is still read.
* `ConversationView`: `InOrder` says that answers never overtake events, which the
  parts "overtaken" and "panes" drop; a request stands for its two rows. Requests
  sent between a cleanup and the effect of the pane are exempt.
* `AssistantViews`, `ReminderNavigation`: version counters by which a late answer is
  told are one flag of the message. A reply never overtakes an event sent before
  it; the rejection of an IPC call itself is left out.
* `DailySchedule` counts ticks, `DailyTime` parts of an hour with one change of the
  offset; the first has no zones, the second no jobs.
* `DailyReports`: the proposals a report links to are left out, and with them that
  `refreshReports` (`daily-service.ts` 483-508) marks a report STALE, and counts its
  version up, when one of them changed; this only makes more reports STALE.
* `ReminderCommands`: an item is its version and whether it is open; closing it ends
  its reminders in the same transaction, deleting it leaves them to the next tick
  (`Reconciled`). Times are left to `Reminders`.
* `StewardRuns`: several slots of a plan, each committed on its own; the order of
  jobs by row is left open, as are targets found by search. `BranchViews`: the
  version of a branch against what its pages show.
* `Operations`: filters and sums are left out.
* `AppLifecycle`: what opening and maintaining a data set do is `ProductionSession`'s
  subject; here they end well or badly.

## What the runs check

Twelve runs; each property has one planted mistake (a "wrong variant") with
which its run must fail.

| Run | Instance | What it asks |
|---|---|---|
| `reminders_versions` | one reminder, two versions, two exits, one storage fault, clock jumps | Does any order of ticks, late callbacks, crashes and edits of the item revive, repeat or forget a claim? |
| `chat_tools` | one round, three calls, two arguments, one more generation, two stops, one storage error | Is the tool ledger true after every commit, crash and recovery, and does a round that was given up do nothing more? |
| `jobs` | two chapters, a day that allows one call, one retry each, one exit, one fault, changes of configuration, source, recipient, connection | Is every call paid for and asked for, and is a chapter committed whole and only on what is current? |
| `cleanup` | one text, two clearings of it, three calls, a new version, files touched from outside, one fault, one exit | Is what is reported as emptied gone, and what is somebody else's kept, when previews go stale? |
| `talking` | sixteen parts: two rounds, recipients, keys, temporary chats, streams, the pane, assistants and their views | Is what is sent what was allowed at that moment, and is what is shown what is stored? |
| `acting` | merged notices, catch-up, clicks, commands, login switch, life of the program, steward, branches, schedules, reports, operations | Does what runs by itself happen once, on current inputs, and is it reported as it was? |
| `storing` | memories, items, scopes, two cleanups, audits, expiry, journal, copies, data sessions | Is what is kept consistent with its receipts, and does nothing that was cleaned or withdrawn come back? |
| `deciding` | reminders with a crash, memory with a full disk | Under strong fairness of the timers: is a due reminder decided and a claim settled; is a broken off memory request marked, and applied when it is asked again? |
| `ending` | rounds, chapters, schedules, cleanups, audits, expiries, switches, clicks, the quit, streams | Under weak fairness: does everything that was begun come to an end? |
| `reminders_on_time`, `reminders_stale`, `chat_pending` | as named | Statements of the documents the code breaks, see "What the code does otherwise" |

### The properties

`reminders_versions`: `ClaimInv` is the invariant of the claims: nothing is shown
twice, and occurrences, batches and versions agree; `HaltedIsOver` and `HaltedNeverShown` say
that what was alive when its item closed is over, in the state and for ever;
`DispatchingIsWatched` that a dispatch without a result has a batch or a timer
which will give it one; `TerminalNeedsNewVersion` that no callback, timer, tick
or restart leaves a terminal state. Mistakes: a terminal missed version, an edit
that keeps its version, a closed item that stops nothing, a recovery that
interrupts no claim, a callback without its guard.

`chat_tools`: `LedgerTellsTruth` (what has an effect is SUCCEEDED, and nothing
refused or unknown has one), `LedgerInv` (the inductive form),
`OneEffectPerRound`, `CompletedIsWhole` (an answer is complete only after a chain
that ended), `OpenHasOwner`, `NothingAfterGiveUp`, `BlankAfterGovernance`, and
the refinement `KeepsPromise`. Mistakes: a receipt committed apart from its
effect, a command named by its call, a broken-off chain taken for an answer, a
recovery that leaves or overwrites operations, a check that overlooks withdrawn
authority, a hook that leaves the text.

`jobs`: `BudgetHolds` (a day is never charged beyond its limit and nothing is
called uncharged), `NoSecondCallUnasked` (no call after the first without a
retry of the user), `ChapterIsWhole` (job, chapter, command and object change
together), `OpenIsHeld` (an attempt without an end belongs to the running call),
`AcceptsCurrent` (a chapter is committed only while everything it was made from
holds), the refinement `KeepsWorkPromise`. Mistakes: a budget that counts only
the calls that were answered, a recovery that queues again or leaves the attempt open, two commits in
place of one, a comparison made once, a cancelled job taken for done.

`deciding`: `RemindersEnd` (a due reminder is decided, a claim settled) and
`OriginIsDecided`, which says two things of the memory a service asked for: what was
broken off is applied or marked as not applied (`BrokenOffIsMarked`), and a request that
is taken up, again or for the first time, is applied unless the program stops, the
storage fails, the disk is full, or the file of its first attempt is in the way
(`AskedAgainIsApplied`). Mistakes: a recovery that interrupts no claim, a start that
leaves commands as they are. Nobody is assumed to ask again: the
code leaves that to the user (`background-service.ts` 105-110,
`steward-service.ts` 1231-1246, `memory-service.ts` 150).

`cleanup`: `EmptiedIsGone` (what a job reports done is in no file),
`TheirsAreKept` (a file put there by somebody else is never lost),
`ConfirmedOnce` (a preview has one effect however many calls decide about it).
Mistakes: a quarantine of an earlier try that is not looked for, a file unlinked
though it is not the one that was to go, a preview that is not looked at again.

`talking`, `acting`, `storing` lift the properties of their modules, as the
operators `SendingHolds`, `ShownHolds`, `TalkingSteps`, `RemindersHold`,
`WorkHolds`, `ActingSteps`, `KeptHolds`, `DataHold`, `StoringSteps` list them. The
names that end in `Holds` are state properties, those in `Steps` say what a step
may never do; the comment of each in its module names the code it is about. The
ones a reader should know of:

* `SeenIsSent`, `SentAsConfigured`, `PastIsGranted`, `NotCarriedOn`
  (`Recipients`): what leaves the program goes to the recipient, with the key and
  the history, that were granted at that moment.
* `WithdrawnIsCut`, `ChangedIsCut`, `OutdatedIsOut` (two rounds): a withdrawal or a
  memory another round changed ends the rounds that may have read it.
* `NoLostText`, `CleanedNotShown`, `AbsentWasNotSent` (`ConversationView`): under
  the ordering the pane assumes, no text is lost, shown after it was cleaned, or
  offered as a draft though it was sent.
* `OneEffect`-like properties of commands: `EffectIsReceipt`, `AcceptedIsApplied`,
  `EveryVersionOnce`, `ConsumedOnce`, `SlotOnce`, `SavedOnce`.
* `CommitsCurrent`, `RunsCurrent`, `AppliesCurrent` (steward and daily): work is
  carried out only on inputs that still hold.
* `WithdrawnStays`, `WithdrawnIsUnused`, `PlanIsClosed`, `TaintedStays`: nothing
  withdrawn is used again by any path of sources.
* `JournalKnowsAll`, `NothingReturns`, `NothingWider` (`GovernanceJournal`,
  `RestoredCopy`): what was deleted or narrowed stays so in a copy made before.
* `OneProgram`, `PointerIsWhole`, `CopyIsWhole` (`ProductionSession`): one writer per
  data set, and the pointer always names a whole one.

A conjunction of the composite runs has one planted mistake in one of its
conjuncts; that the other conjuncts can fail was confirmed with a wrong variant
of their own while they were written, and most of these are still in the modules.

### Bounds

The budget of a day is one call for two chapters, so that the second waits at
BUDGET_PAUSED while the first is in any of its states, lost answers included. Two
versions let a callback meet the successor of its reminder; two stops let a
crash fall into the recovery from a crash; three clock values give before, at and
after a due time. Three calls with two arguments contain a read, a write, and a
write that repeats or differs. A second generation tells "changed" from "changed
again". Two rounds, two windows, two programs and two cleanups are the fewest
that can meet, and nothing in the code relates more than two of them except
loops that treat all others alike. Where a composite part allows no stop or no
fault (the constants of each part are next to its instance), another part of the
same module allows one: parts separate questions, so that each stays small.
The proofs remove the bounds for what they cover.

Runs switch deadlock checking off because counters of stops, time, versions and
calls end, and because a system in which nobody asks anything rests.

### Fairness

`deciding`: the one-second interval (`reminder-runtime.ts` 146) and every armed
observation timer fire again and again but may find another handler running:
strong fairness of these two and of nothing else. Everything that merely goes on is
weak, the next start after an exit included: the user starts the program again.
Nobody is obliged to ask again for a memory or to make room on the disk; what
follows when somebody does is the second half of `OriginIsDecided`.

`ending`: weak fairness only. A section that has begun goes on; a transport
answers, fails or runs into its own limit (`chat-completions-transport.ts`
125-130); a chain has a timer of its own (`tool-execution.ts` 57); pumps, drains,
audits and expiries are called by timers that are re-armed; an IPC call is
answered; the program is started again after a crash. The user, the model, the
native layer and the clock are under no obligation. `OccurrenceIsDecided` assumes
that the recipients of all enabled configurations come to be in order, because
one that is not stops the others (see below). `BackgroundJobs` has
weak fairness of the pump, of the answer and of the restart.

## What the code does otherwise

Three runs show a disagreement of the code with what the repository says:

* `reminders_on_time`, `SavingSettingsKeepsOnTime`: `configure()` ends in a recovery
  tick, so reminders that fell due within the last second are treated as missed.
* `reminders_stale`, `StaleNeverClaimed`: `lastTick` is moved before the transaction
  of a tick, whose error the runtime swallows: the recovery after sleep is lost and
  the next tick shows reminders older than the window.
* `chat_pending`, `PendingIsInFlight`: a round that data governance ends is not
  written, so its answer stays `pending` until the next start.

The following were met the same way and shown by TLC; the statement stands in
its module with a comment that begins "Does not hold", where it has a definition
of its own, and no run repeats it:

* `StewardRuns`: `control('retry')` on a running job without a plan sets its
  inputs to NULL (`steward-service.ts` 666); after a crash between two slots the
  rest of the plan is carried out on inputs it was not made from.
* `StewardRuns`: `control('cancel')` does not look at the state (640): a completed
  job becomes partial or cancelled.
* `DailySchedule`: only the first of several missed occurrences is treated as
  missed (`daily-service.ts` 1105), the next are run one second later although the
  rule is undecided.
* `DailySchedule`: with "merge" (1126) a missed occurrence inside the window is not
  caught up when an older one lies outside it.
* `DailySchedule`: one configuration whose recipient cannot be resolved (1120) stops
  every later configuration and all queued jobs.
* `Operations`: the row of a failed reminder is replaced by that of any other
  reminder of its item (`operations-sources.ts` 74).
* `Operations`: `settle()` commits twice (`operations-service.ts` 96); after a crash
  in between the row SENDING of a chat stays current.
* `MemoryCommands`: a restored memory that rests on a withdrawn source returns to
  the index (`memory-service.ts` 733), though it is not shown.
* `MemoryCommands`: a change refused for lack of room leaves its command (581), and
  the same command answers CONFLICT afterwards.
* `RetentionCleanup`: a second job takes the file an earlier, failed job holds in its
  quarantine for gone and is COMPLETED (`retention-service.ts` 1374).
* `RetentionScope`: edges retained for a round that was put aside and restored
  outlive a later revocation of the history (1053).
* `RestoredCopy`: a backup with a proposal that was made STALE afterwards can never be
  restored (`item-retention.ts` 153, `production-governance-check.ts` 24).
* `Assistants`: restoring an archived assistant after the last active one was purged
  always ends in STORAGE_INCONSISTENT (`assistant-repository.ts` 102, 242).
* `ConversationView`: a request whose tool call is refused after admission can be
  offered as a draft that was not sent (`ProviderPanel.tsx` 1022).
* `ConversationView`: `send` compares the epoch before an await and not after it
  (1035), so a cleaned text can come back among the drafts.
* `ConversationView`: a notice `job-status` that overtakes the rendering hides the one
  about cleaning (`App.tsx` 522), and cleaned texts stay on the screen.
* `ConversationView`: an answer to clearing a temporary chat empties the request sent
  while it was awaited (`ProviderPanel.tsx` 940).

Further observations without a sentence of the documents against them:

* `BlankAfterGovernance` needs its exception because `ProviderService.close()` writes
  the text of every round in flight without comparing generations: between two
  moves of a policy batch (`retention-policy-service.ts` 876) the generation has
  moved and the hook has not run.
* A leftover `.tmp` file of a repeated correction refuses this correction for ever,
  and one of the vault refuses a persistent key.
* After a failure between the two, the vault and the flag in the database may
  disagree.
* Two rounds may each confirm a candidate to create a reminder for one item, which
  makes two reminders.
* In a restored copy a memory is withheld that is readable live only through an edge
  retained for another path.
* The view of assistants in `App.tsx` stays behind when the answer to a switch was
  dropped as late; clicks routed at the newer revision then go nowhere.
* Loss of ownership while a window is being made shows a start-up failure as well;
  after a close that failed in `before-quit` the plan of the quit stays set.

`FormalItems` states `AcceptedIsFinal` as well, which no run checks: it needs two
proposals with their commands, which is too large together with the other parts.

## What is proved

The proofs assume only the named assumptions of their modules (the shape of the
constants); they hold for any number of items, reminders, versions, rounds, calls,
arguments, generations, stops and faults.

`RemindersProofs`. That a version is shown at most once is not inductive: a tick may
claim what is waiting, so one must know that a waiting version has no occurrence and was
never shown (`OccurrenceAgrees`), that nothing was shown without a row
(`ShownIsClaimed`), that a future version has none (`FutureUnclaimed`), and that the
claims on their way are current, unshown and in one batch only (`PendingIsClaimed`,
which needs `OneHandler`). `ClaimInv` is their conjunction; `ClaimsHold` proves it,
`TypeCorrect`, `AtMostOnce` and `OccurrencesAgree` follow. `TerminalIsFinal` follows
step by step; `HaltedNotShown` needs `HaltedIsOver`, which is proved on top of
`ClaimInv`. `HaltedStaysOver` and `ClaimsAreWatched` come last: the first is proved from
the rule that a step which changes a version needs an open item, the second with
`WatchInv`, in which a closed item has nothing in DISPATCHING (`ClosedIsStopped`, so
that reopening it brings no forgotten claim back) and a claim between the commits of a
tick is in a batch that is still to be shown (`Watched`).

`ChatRoundProofs`. `LedgerTellsTruth` is not inductive either: between the row of a
command and its transaction, and between a crash and the last recovery step, one must
know what the operation of the call is, given where its round stands (`PlaceAgrees`),
that effect, command and operation agree (`CommandAgrees`), and that no section runs
before recovery is over (`BootRests`). Two more parts serve the theorems about giving
up: one round at most is inside a section (`OneRunning`), so that between the two
commits of `apply()` nobody can cancel it or move its authority (`WritingIsCurrent`).
`RoundInductive` proves them together with the types (a kept body belongs to a call
only because places agree); `RoundTypeCorrect`, `LedgerHolds`, `LedgerTruth` and
`OneEffect` follow. `RoundKeepsPromise` proves that `ChatRound` implements
`ToolPromise` under the mapping `Promise`: `WriteCommit` is `Apply` of the current
call, and every other step only opens or settles operations (`OpsRevised`).
`NothingIsDoneAfterGiveUp` rests on `OthersQuiet` (four steps alone send, change
memory or keep a body) and on the check before each of them; `OutdatedDoesNothing` on
`OutdatedAborted`: the commit that outdates a reader aborts it, and an abort lasts
until the round is gone.

`PendingAlwaysHasReason` needs that generations only grow, so that one that has passed
never comes back (`Answered`). `OpenAlwaysHasOwner` needs to know where in its chain a
round holds an active segment and an open operation, and that each restart leaves
neither (`Owned`). `CompletedAnswersAreWhole` follows a round from call to call: what it
has kept up to a call stays kept (`KeptStays`), because operations that are settled
are not revised and results are only added (`LedgerStep`); a chain that ends has them
all (`Whole`). `GovernedStaysBlank` needs `TextIsCurrent`: text a round would still write
belongs to the current generation, or a policy batch has yet to tell the round.

`BackgroundJobsProofs`. None of the properties of `jobs` is inductive. The budget
(`Paid`) holds because a charge is refused where the calls of the day are at the limit
and attempts are never taken back; that a job is not charged twice needs the attempts to
be numbered without gaps and to be at most one more than the retries asked for
(`Numbered`). `Held` says what is known of the job the pump holds, by its place;
`Opened` that an attempt without an answer is the last one of the job whose call is out,
or of a cancelled job; `Candidates` that a candidate was made from the source its job
names, by a call; `Checked` that nothing a candidate was compared with changes between
the last comparison and the commit, as no handler runs there. `JobInv` is their
conjunction with the types and `ChapterIsWhole`; `JobsInductive` proves it, and
`JobsBudgetHolds`, `JobsNotPaidTwice`, `ChaptersAreWhole`, `OpenIsAlwaysHeld`,
`JobsAcceptCurrent` and `JobsCancelledStay` follow. The lemmas about `Calls` count a
finite set of attempts to which one is added. `JobsKeepPromise` proves that
`BackgroundJobs` implements `WorkPromise`: the commit that charges is `Charge`, the call
`Call`, the acceptance `Accept`, a cancellation `Cancel`, the purge of an assistant
`Erase`, and every other step changes nothing the promise speaks of.

`DailyReportsProofs`. The proof goes row by row: `Sound` relates a job to its report, to
the calls and retries made for it (`Charges`), to the proposals counted for it
(`Proposals`, `Ends`), to the memory made from it (`Memories`) and to the changes already
reported; it speaks of values only, so that what an end, an emptied text or a decision
does to a row is proved once (`EndingSound`, `ClearedSound`, `StaleSound`) and used by
every action that does it (`AllSound`). None of `NoSecondCallUnasked`, `ReportIsWhole`
and `SavedOnce` is inductive: a job that waits without a plan may be charged again only
if the user has asked, a new plan must start without proposals, and a report that never
had a memory must know of none. `Held` adds what is known of the job the pump holds, by
its place: during the call the user can only cancel it, and one that is planned has a
plan or too few sources. `DailyInv` is their conjunction with `Shapes`, `NoChangeLost`
and `BudgetHolds`; `DailyInductive` proves it, the other theorems follow, among them
`RejectedIsNotRebuilt`, `DailyShowsCurrent` and `DailyAppliesCurrent` from `ReportKept`
(one step alone begins a report). `DailyKeepsPromise` proves that `DailyReports`
implements `WorkPromise`: the commit that charges is `Charge`, the call `Call`, a report
made with a model `Accept`, and every other step, the purge too, changes nothing the
promise speaks of. The theorems assume `DailyAssumption`, which `MCActing` has TLC
evaluate for both of its instances.

`RetentionCleanupProofs`. That emptied rows leave no text behind rests on a chain over
several awaits, which `CleanupInv` spells out: a preview that is not stale lists every
file that holds a text of its targets (`Listed`), since whatever brings a text moves the
epoch; a confirmation therefore makes a job that covers them, and retires the rows so
that no new text appears (`Retired`); a text in a quarantine is still to be done by its
job (`Quarantined`), as a list has one item for a file; the rows of a batch come after
what is left of the files (`InBatch`). `TextsOnlyGo` is the lemma all of it uses: apart
from a change of a memory that is kept, no step puts a text under a name, not even the
way back from the quarantine. `AtItsFile` says what the drain knows at each await about
the file it is at and its quarantine; with `Numbered` (each content from outside is told
from the others) it gives `FilesOfOthersAreKept`. `DecidedOnce` needs that a preview
without a decision has no job and no list (`Fresh`). `OriginalsAreBacked` adds
`CheckedIsCurrent`: the checks made before the await of `confirm()` still hold after it
if the epoch has not moved, because everything they depend on moves it (`EpochGuards`).
`Batches` and `Next1` choose with operators of the community modules; `MinIsLeast`,
`MaxIsGreatest` and `OrderIsOfJobs` are what the proofs need of them. The assumption
that the previews are finitely many is what makes `Order` exist.

`StewardRunsProofs`. Again row by row: `Sound` relates a job to the calls, the commits
and the retries made for it. A job may be called once more only after a retry of the
user, which is not inductive until one knows that what is charged pays for the calls,
that a job which may be charged without a plan has a retry left, and that a plan comes
from a call; the receipts are the commits; and inputs that were kept have the text the
digest of the job is of. `Held` says what is known of the job the pump holds, by its
place: what it works with has that text, it is charged before it is sent and called
before it is planned, and where nothing ran since the last check (`reserved`,
`prepared`) the check still holds. `Taken` says that a consumed finding is completed or
was cancelled after that, so that no check lets it be consumed again. `StewardInv` is
their conjunction with the types, `ConsumedIsWhole` and `BudgetHolds`;
`StewardInductive` proves it, and `StewardBudgetHolds`, `StewardNotPaidTwice`,
`SlotsAreMadeOnce` and `ConsumedJobsAreWhole` follow. `DismissedStaysOut`
and `StewardCommitsCurrent` rest on `OthersRest` (only the job that is held is called or
committed, after a check that still holds) and on `CheckedIsPresent` (what has passed the
check is what it is compared with). `StewardKeepsPromise` proves that `StewardRuns`
implements `WorkPromise`: `Execute` charges, `Send` calls, `Discover` and `Finish`
accept, and every other step changes nothing the promise speaks of; a job that is
checked was not consumed before (`CurrentIsNew`).

`RecipientsProofs`. What a call carries is decided when it is sent, from tables that may
change while it is under way, so `RecipientsInv` says what a round in flight still knows
of them: its connection is the one its assistant is bound to unless marked stale, and has
its address and its key unless the round is aborted (`Addressed`); what uses history is
marked, and aborted when the permission goes (`Granted`). `KeysAreKept` says that no key
in the vault or in the process was ever taken away; `SessionsHold` and `GoneIsOut` tie
the temporary chats to the rounds in flight and keep out of them what data governance
took. With the types and the two invariants about temporary chats they are inductive
(`RecipientsInductive`); `WithdrawalsCutOff` and `TemporaryIsApart` state the
invariants of the runs, `CallsAreAsConfigured`, `EarlierRoundsAreGranted` and
`GoneIsNotCarriedOn` the action properties, from the lemma that two steps alone make a
call (`CallsOfSteps`).

`ProductionSessionProofs`. The invariant rests on the leases. A program that has lost
none owns what it works on (`Owns`), so it still finds there what it left, or saw
(`Finds`), and the lock of its configuration is gone between its start and its own
taking of it (`Unlocked`); that is preserved because a step of another program takes
only what is free and changes only what it has leased (`OthersKeep`). `Resting` says
that a program which is off has nothing and one that moved the pointer lost nothing.
`Kept` is what is on the disk: names, receipts, whole contents of whatever has no mark,
pointers to such data only. A directory can change in nine ways (`Renewed`), and each is
shown to keep it (`EachRenewed`, `KeptKept`). `SessionInductive` proves the conjunction;
`PointersAreWhole`, `OneProgramAtATime`, `BackupsAreWhole`, `WritesArePreserved`,
`StaleLocksStopNobody` and `PointersMovedByOwner` follow. A program that lost a lease
without knowing it is not excluded: the theorems say what such a program cannot spoil.
`SessionAssumption` keeps configurations and directories apart, and `None` from the
programs and directories: they are paths and processes in the code.

The strengthenings were model-checked on the instances of the runs before they were
proved. Every property of `reminders_versions`, `chat_tools`, `jobs` and `cleanup` is a
theorem. Of the composite runs the conjuncts of four modules are theorems: of
`Recipients` (in `talking`), of `StewardRuns` and `DailyReports` (in `acting`) and of
`ProductionSession` (in `storing`), under the assumptions that the composite modules
have TLC evaluate for every instance; `OriginalsAreBacked` proves `AsideIsBacked` of
`RetentionCleanup`, also in `storing`. The parts of `MCTalking` called "pair" and
"plain", of `MCActing` called "merge" and "catchUp", and of `MCStoring` that are
cleanups are instances of modules proved above.

Only model-checked, because they are out of the provers' reach:

* all liveness (the runs `deciding` and `ending`) and whatever needs ENABLED;
* what a recursive definition computes for every input: the scopes and closures of
  `RetentionScope` and `RestoredCopy` (RECURSIVE operators), and the folds of
  `ResponseStream` and `GovernanceJournal`. `JournalKnowsAll` would need an induction
  over the fold that reads the journal.

Only model-checked so far: the other conjuncts of the composite runs, among them those
of `MemoryCommands`, `FormalItems`, `CapacityAudit`, `StagingExpiry`, `DailyTime`,
`LoginStartup`, `ReminderNavigation`, `ReminderCommands`, `DailySchedule`,
`BranchViews`, `Operations`, `AppLifecycle`, `ConversationView` and `AssistantViews`.

## What is not modelled

The renderer's other panels, IPC contracts and preload, migrations and the database
wrapper, start-up diagnostics, the end-to-end controllers, HTTP below the stream,
building and packaging: presentation, validation or straight I/O without a state
others rely on. `memory-rounds` has the part of it that changes state in
`ChatRound` and `MemoryCommands`. Within modelled components the section
"Modules" names what is left out.

## Plan

All modules of the first plan are written and checked; the four single-component runs,
the three background services, what a call carries and who may write to a data set are
proved. What is left, in this order:

1. `MemoryCommands`: file and row of a memory agree after every crash.
2. `AppLifecycle`: services close in order, once, and nobody writes after that.
3. `FormalItems` with two proposals and their commands, which is too large for TLC next
   to the other parts.
4. A second look at bounds of the composite parts that end early.
