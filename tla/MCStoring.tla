------------------------------ MODULE MCStoring -----------------------------
(* What is kept of the user and what becomes of it: memories and the       *)
(* rounds that use them, items and proposals, the scopes of cleaning up,   *)
(* the capacity audit, expired files, the journal of governance, restored  *)
(* copies and the session that owns a data set. A behaviour is of one      *)
(* part.                                                                   *)
EXTENDS Integers, FiniteSets, Sequences, TLC

CONSTANTS None, a0, b0, m1, m2, m3, g1, c1, c2, c3, c4, q1, q2, r1, r2, r3,
  i1, i2, i3, p1, refusal, c0, d0, g0, h0, i0, k0, p0, q0, r0, k1, k2, p2

VARIABLES
  part,      \* the part this behaviour is of
  \* MemoryCommands
  cmds, memoryPreviews, obj, deps, used, memoryWithdrawn, index, accepted,
  memoryDisk, temps, reload, grant, full, run, memoryPlace, memoryRound,
  memoryUp, effects, refused, memoryEdits, memoryStops, memoryFaults, fills,
  \* FormalItems
  item, dead, prop, itemEdges, itemGone, done, conf, itemRound, revived,
  \* RetentionScope
  rests, shown, scopeMade, scopeGone, scopeWithdrawn, scopeAside, scopeEdges,
  purged, allowed, act, steps,
  \* RetentionCleanup
  preview, job, items, known, cleanupRow, cleanupAside, epoch, cleanupDisk,
  isolated, call, work, cleanupUp, theirs, backed, cleanupStops, puts,
  cleanupFaults, retries,
  \* CapacityAudit
  auditText, auditRow, limit, file, heard, audit, queued, scan, auditTimer,
  auditUp, touches, auditMoves, auditConfigs, auditStops, auditFaults, early,
  \* StagingExpiry
  expiryText, expiryRow, policy, expiryPreviews, receipt, runs, expiryLast,
  intact, batch, ask, expiryTimer, expiryUp, stay, expiryMade, meanwhile,
  expiryEdits, expiryMoves, expiryConfigs, breaks, expiryStops, expiryFaults,
  \* GovernanceJournal
  reg, seed, jour, set, journalKept, journalPlace, cur, tx, mine, lost,
  target, latest, journalFaults,
  \* RestoredCopy
  live, copyKept, copy,
  \* ProductionSession
  dir, loc, lock, owner, at, binds, sessionLast, hand, sessionFaults

memoryVars ==
  <<cmds, memoryPreviews, obj, deps, used, memoryWithdrawn, index, accepted,
    memoryDisk, temps, reload, grant, full, run, memoryPlace, memoryRound,
    memoryUp, effects, refused, memoryEdits, memoryStops, memoryFaults, fills>>
itemVars ==
  <<item, dead, prop, itemEdges, itemGone, done, conf, itemRound, revived>>
scopeVars ==
  <<rests, shown, scopeMade, scopeGone, scopeWithdrawn, scopeAside,
    scopeEdges, purged, allowed, act, steps>>
cleanupVars ==
  <<preview, job, items, known, cleanupRow, cleanupAside, epoch, cleanupDisk,
    isolated, call, work, cleanupUp, theirs, backed, cleanupStops, puts,
    cleanupFaults, retries>>
auditVars ==
  <<auditText, auditRow, limit, file, heard, audit, queued, scan, auditTimer,
    auditUp, touches, auditMoves, auditConfigs, auditStops, auditFaults,
    early>>
expiryVars ==
  <<expiryText, expiryRow, policy, expiryPreviews, receipt, runs, expiryLast,
    intact, batch, ask, expiryTimer, expiryUp, stay, expiryMade, meanwhile,
    expiryEdits, expiryMoves, expiryConfigs, breaks, expiryStops,
    expiryFaults>>
journalVars ==
  <<reg, seed, jour, set, journalKept, journalPlace, cur, tx, mine, lost,
    target, latest, journalFaults>>
copyVars ==
  <<live, copyKept, copy>>
sessionVars ==
  <<dir, loc, lock, owner, at, binds, sessionLast, hand, sessionFaults>>

\* the third memory and the third round are of the second assistant
OwnerIn(N) == [n \in N |-> IF n \in {m3, r3} THEN b0 ELSE a0]

Memory == INSTANCE MemoryCommands WITH
  Mem <- {m1, m2}, Cmd <- {c1, c2}, Round <- {q1},
  Actions <- {"remember", "correct", "delete", "withdraw", "restore"},
  MaxEdits <- 1, MaxStops <- 1, MaxFaults <- 1, MaxFull <- 1,
  Kind <- (c1 :> "user") @@ (c2 :> "tool"),
  RoundOf <- [cmd \in {c1, c2} |-> q1], MaxVersion <- 2, MaxGrants <- 0,
  previews <- memoryPreviews, withdrawn <- memoryWithdrawn,
  disk <- memoryDisk, place <- memoryPlace, round <- memoryRound,
  up <- memoryUp, edits <- memoryEdits, stops <- memoryStops,
  faults <- memoryFaults

Withdrawal == INSTANCE MemoryCommands WITH
  Mem <- {m1, m2}, Cmd <- {c1, c2, c3}, Round <- {q1},
  Actions <- {"remember", "withdraw", "restore"}, MaxVersion <- 3,
  MaxEdits <- 0, MaxStops <- 0, MaxFaults <- 0, MaxGrants <- 0, MaxFull <- 0,
  Kind <- (c1 :> "user") @@ (c2 :> "tool") @@ (c3 :> "user"),
  RoundOf <- [cmd \in {c1, c2, c3} |-> q1], previews <- memoryPreviews,
  withdrawn <- memoryWithdrawn, disk <- memoryDisk, place <- memoryPlace,
  round <- memoryRound, up <- memoryUp, edits <- memoryEdits,
  stops <- memoryStops, faults <- memoryFaults

Recall == INSTANCE MemoryCommands WITH
  Mem <- {m1, m2}, Cmd <- {c1, c2, c3}, Round <- {q1, q2}, MaxVersion <- 2,
  MaxEdits <- 0, MaxStops <- 0, MaxFaults <- 0, MaxGrants <- 0, MaxFull <- 0,
  Kind <- (c1 :> "user") @@ (c2 :> "tool") @@ (c3 :> "user"),
  RoundOf <- (c1 :> q1) @@ (c2 :> q1) @@ (c3 :> q2),
  Actions <- {"remember", "withdraw"}, previews <- memoryPreviews,
  withdrawn <- memoryWithdrawn, disk <- memoryDisk, place <- memoryPlace,
  round <- memoryRound, up <- memoryUp, edits <- memoryEdits,
  stops <- memoryStops, faults <- memoryFaults

Index == INSTANCE MemoryCommands WITH
  Mem <- {m1, m2}, Cmd <- {c1, c2, c3}, Round <- {q1},
  Actions <- {"remember", "correct", "delete", "withdraw"}, MaxVersion <- 2,
  MaxEdits <- 0, MaxStops <- 0, MaxFaults <- 0, MaxGrants <- 0, MaxFull <- 0,
  Kind <- (c1 :> "user") @@ (c2 :> "tool") @@ (c3 :> "origin"),
  RoundOf <- [cmd \in {c1, c2, c3} |-> q1], previews <- memoryPreviews,
  withdrawn <- memoryWithdrawn, disk <- memoryDisk, place <- memoryPlace,
  round <- memoryRound, up <- memoryUp, edits <- memoryEdits,
  stops <- memoryStops, faults <- memoryFaults

Links == INSTANCE FormalItems WITH
  Item <- {i1, i2, i3}, Prop <- {}, Round <- {}, Related <- {},
  MaxWithdrawn <- 0, Cmd <- {c1, c2, c3, c4}, MaxVer <- 2,
  edges <- itemEdges, gone <- itemGone, round <- itemRound

Relations == INSTANCE FormalItems WITH
  Item <- {i1, i2, i3}, Prop <- {}, Round <- {}, Related <- {i1},
  MaxVer <- 3, MaxWithdrawn <- 0, Cmd <- {c1, c2, c3}, edges <- itemEdges,
  gone <- itemGone, round <- itemRound

Tools == INSTANCE FormalItems WITH
  Item <- {i1, i2}, Prop <- {}, Round <- {r1, r2}, Related <- {},
  MaxVer <- 2, MaxWithdrawn <- 1, Cmd <- {}, edges <- itemEdges,
  gone <- itemGone, round <- itemRound

Offers == INSTANCE FormalItems WITH
  Prop <- {p1}, Round <- {r1}, Cmd <- {c1, c2}, Related <- {},
  MaxWithdrawn <- 1, Item <- {i1}, MaxVer <- 2, edges <- itemEdges,
  gone <- itemGone, round <- itemRound

Scopes == INSTANCE RetentionScope WITH
  Mem <- {m1, m3, g1}, Round <- {r1, r3}, Global <- {g1}, MaxSteps <- 5,
  Owner <- OwnerIn({m1, m3, g1, r1, r3}), Asst <- {a0, b0},
  made <- scopeMade, gone <- scopeGone, withdrawn <- scopeWithdrawn,
  aside <- scopeAside, edges <- scopeEdges

Plans == INSTANCE RetentionScope WITH
  Asst <- {a0}, Mem <- {m1, m2, g1}, Round <- {r1, r2}, Global <- {g1},
  MaxSteps <- 4, Owner <- OwnerIn({m1, m2, g1, r1, r2}), made <- scopeMade,
  gone <- scopeGone, withdrawn <- scopeWithdrawn, aside <- scopeAside,
  edges <- scopeEdges

Pair == INSTANCE RetentionCleanup WITH
  Mem <- {m1, m2}, Preview <- {p1, p2}, Call <- {k1, k2}, Batch <- 2,
  MaxVersion <- 1, MaxEpoch <- 4, MaxPuts <- 1, MaxStops <- 1,
  MaxFaults <- 1, MaxRetries <- 1,
  Target <- (p1 :> {m1}) @@ (p2 :> {m1, m2}),
  Intent <- [name \in {p1, p2} |-> "empty"],
  PreviewOf <- (k1 :> p1) @@ (k2 :> p2), row <- cleanupRow,
  aside <- cleanupAside, disk <- cleanupDisk, up <- cleanupUp,
  stops <- cleanupStops, faults <- cleanupFaults

Aside == INSTANCE RetentionCleanup WITH
  Mem <- {m1}, Preview <- {p1, p2}, Call <- {k1, k2}, Batch <- 2,
  MaxVersion <- 2, MaxEpoch <- 4, MaxPuts <- 1, MaxStops <- 1,
  MaxFaults <- 1, MaxRetries <- 0,
  Target <- [name \in {p1, p2} |-> {m1}],
  Intent <- (p1 :> "recycle") @@ (p2 :> "restore"),
  PreviewOf <- (k1 :> p1) @@ (k2 :> p2), row <- cleanupRow,
  aside <- cleanupAside, disk <- cleanupDisk, up <- cleanupUp,
  stops <- cleanupStops, faults <- cleanupFaults

Capacity == INSTANCE CapacityAudit WITH
  Mems <- 2, Existing <- {1}, Sizes <- {1, 2}, Limits <- {0, 3}, Batch <- 1,
  MaxTouches <- 1, MaxConfigs <- 1, MaxStops <- 1, MaxEarly <- 1,
  MaxFaults <- 1, MaxMoves <- 1, text <- auditText, row <- auditRow,
  timer <- auditTimer, up <- auditUp, moves <- auditMoves,
  configs <- auditConfigs, stops <- auditStops, faults <- auditFaults

Stagings == INSTANCE StagingExpiry WITH
  Mems <- 2, MaxDays <- 2, Batch <- 2, Asks <- 1, MaxRuns <- 2,
  MaxMoves <- 1, MaxConfigs <- 1, MaxBreaks <- 0, MaxStops <- 0,
  MaxFaults <- 0,
  Settings <- {[on |-> TRUE, days |-> 1], [on |-> TRUE, days |-> 2]},
  MaxEdits <- 0, text <- expiryText, row <- expiryRow,
  previews <- expiryPreviews, last <- expiryLast, timer <- expiryTimer,
  up <- expiryUp, made <- expiryMade, edits <- expiryEdits,
  moves <- expiryMoves, configs <- expiryConfigs, stops <- expiryStops,
  faults <- expiryFaults

Expiries == INSTANCE StagingExpiry WITH
  Mems <- 2, MaxDays <- 1, Batch <- 1, Asks <- 1, MaxRuns <- 2,
  MaxEdits <- 0, MaxMoves <- 1, MaxConfigs <- 0, MaxBreaks <- 1,
  MaxStops <- 1, MaxFaults <- 1,
  Settings <- {[on |-> TRUE, days |-> 1], [on |-> FALSE, days |-> 1]},
  text <- expiryText, row <- expiryRow, previews <- expiryPreviews,
  last <- expiryLast, timer <- expiryTimer, up <- expiryUp,
  made <- expiryMade, edits <- expiryEdits, moves <- expiryMoves,
  configs <- expiryConfigs, stops <- expiryStops, faults <- expiryFaults

Journal == INSTANCE GovernanceJournal WITH
  First <- a0, Copy <- {a0, b0}, Row <- {r1}, Tok <- {1, 2}, Old <- {},
  MaxVer <- 2, MaxFaults <- 2, kept <- journalKept, place <- journalPlace,
  faults <- journalFaults

Copies == INSTANCE GovernanceJournal WITH
  First <- a0, Copy <- {a0, b0, c0}, Row <- {r1}, Tok <- {1, 2}, Old <- {a0},
  MaxVer <- 2, MaxFaults <- 1, kept <- journalKept, place <- journalPlace,
  faults <- journalFaults

Rows == INSTANCE GovernanceJournal WITH
  First <- a0, Copy <- {a0, b0}, Row <- {r1, r2}, Old <- {}, MaxVer <- 2,
  Tok <- {1, 2}, MaxFaults <- 0, kept <- journalKept, place <- journalPlace,
  faults <- journalFaults

KeptTexts == INSTANCE RestoredCopy WITH
  Memories <- {a0,b0}, Private <- {}, Rounds <- {}, Items <- {},
  Proposals <- {}, Reminders <- {}, Grants <- {}, Connections <- {},
  MaxVer <- 2, ItemOf <- <<>>, Refused <- refusal, kept <- copyKept

KeptRounds == INSTANCE RestoredCopy WITH
  Memories <- {a0,b0}, Private <- {}, Rounds <- {r0}, Items <- {},
  Proposals <- {}, Reminders <- {}, Grants <- {}, Connections <- {},
  MaxVer <- 1, ItemOf <- <<>>, Refused <- refusal, kept <- copyKept

KeptItems == INSTANCE RestoredCopy WITH
  Memories <- {}, Private <- {}, Rounds <- {}, Items <- {i0},
  Proposals <- {p0}, Reminders <- {r0}, Grants <- {}, Connections <- {},
  MaxVer <- 2, ItemOf <- (r0 :> i0), Refused <- refusal, kept <- copyKept

KeptGrants == INSTANCE RestoredCopy WITH
  Memories <- {}, Private <- {}, Rounds <- {}, Items <- {}, Proposals <- {},
  Reminders <- {}, Grants <- {g0,h0}, Connections <- {k0}, MaxVer <- 3,
  ItemOf <- <<>>, Refused <- refusal, kept <- copyKept

Session == INSTANCE ProductionSession WITH
  First <- a0, Proc <- {p0}, Conf <- {k0}, Dir <- {a0,b0,d0}, MaxRev <- 1,
  MaxBinds <- 2, MaxFaults <- 1, ConfOf <- (p0 :> k0), last <- sessionLast,
  faults <- sessionFaults

Sessions == INSTANCE ProductionSession WITH
  First <- a0, Proc <- {p0,q0}, Conf <- {k0}, Dir <- {a0,b0}, MaxRev <- 1,
  MaxBinds <- 2, MaxFaults <- 1, ConfOf <- [name \in {p0, q0} |-> k0],
  last <- sessionLast, faults <- sessionFaults

ASSUME Memory!MemoryAssumption
ASSUME Withdrawal!MemoryAssumption
ASSUME Recall!MemoryAssumption
ASSUME Index!MemoryAssumption
ASSUME Links!ItemAssumption
ASSUME Relations!ItemAssumption
ASSUME Tools!ItemAssumption
ASSUME Offers!ItemAssumption
ASSUME Scopes!ScopeAssumption
ASSUME Plans!ScopeAssumption
ASSUME Capacity!CapacityAssumption
ASSUME Stagings!ExpiryAssumption
ASSUME Expiries!ExpiryAssumption
ASSUME Journal!JournalAssumption
ASSUME Copies!JournalAssumption
ASSUME Rows!JournalAssumption
ASSUME KeptTexts!CopyAssumption
ASSUME KeptRounds!CopyAssumption
ASSUME KeptItems!CopyAssumption
ASSUME KeptGrants!CopyAssumption
ASSUME Session!SessionAssumption
ASSUME Sessions!SessionAssumption
-----------------------------------------------------------------------------
(* Outside its own parts a module has no state.                            *)
memoryOff ==
  /\ cmds = None /\ memoryPreviews = None /\ obj = None /\ deps = None
  /\ used = None /\ memoryWithdrawn = None /\ index = None /\ accepted = None
  /\ memoryDisk = None /\ temps = None /\ reload = None /\ grant = None
  /\ full = None /\ run = None /\ memoryPlace = None /\ memoryRound = None
  /\ memoryUp = None /\ effects = None /\ refused = None
  /\ memoryEdits = None /\ memoryStops = None /\ memoryFaults = None
  /\ fills = None

itemOff ==
  /\ item = None /\ dead = None /\ prop = None /\ itemEdges = None
  /\ itemGone = None /\ done = None /\ conf = None /\ itemRound = None
  /\ revived = None

scopeOff ==
  /\ rests = None /\ shown = None /\ scopeMade = None /\ scopeGone = None
  /\ scopeWithdrawn = None /\ scopeAside = None /\ scopeEdges = None
  /\ purged = None /\ allowed = None /\ act = None /\ steps = None

cleanupOff ==
  /\ preview = None /\ job = None /\ items = None /\ known = None
  /\ cleanupRow = None /\ cleanupAside = None /\ epoch = None
  /\ cleanupDisk = None /\ isolated = None /\ call = None /\ work = None
  /\ cleanupUp = None /\ theirs = None /\ backed = None
  /\ cleanupStops = None /\ puts = None /\ cleanupFaults = None
  /\ retries = None

auditOff ==
  /\ auditText = None /\ auditRow = None /\ limit = None /\ file = None
  /\ heard = None /\ audit = None /\ queued = None /\ scan = None
  /\ auditTimer = None /\ auditUp = None /\ touches = None
  /\ auditMoves = None /\ auditConfigs = None /\ auditStops = None
  /\ auditFaults = None /\ early = None

expiryOff ==
  /\ expiryText = None /\ expiryRow = None /\ policy = None
  /\ expiryPreviews = None /\ receipt = None /\ runs = None
  /\ expiryLast = None /\ intact = None /\ batch = None /\ ask = None
  /\ expiryTimer = None /\ expiryUp = None /\ stay = None
  /\ expiryMade = None /\ meanwhile = None /\ expiryEdits = None
  /\ expiryMoves = None /\ expiryConfigs = None /\ breaks = None
  /\ expiryStops = None /\ expiryFaults = None

journalOff ==
  /\ reg = None /\ seed = None /\ jour = None /\ set = None
  /\ journalKept = None /\ journalPlace = None /\ cur = None /\ tx = None
  /\ mine = None /\ lost = None /\ target = None /\ latest = None
  /\ journalFaults = None

copyOff ==
  /\ live = None /\ copyKept = None /\ copy = None

sessionOff ==
  /\ dir = None /\ loc = None /\ lock = None /\ owner = None /\ at = None
  /\ binds = None /\ sessionLast = None /\ hand = None
  /\ sessionFaults = None

Init ==
  /\ part \in {"memory", "withdrawal", "recall", "index", "links",
              "relations", "tools", "offers", "scopes", "plans", "pair",
              "aside", "capacity", "stagings", "expiries", "journal",
              "copies", "rows", "keptTexts", "keptRounds", "keptItems",
              "keptGrants", "session", "sessions"}
  /\ CASE part = "memory" -> Memory!Init
       [] part = "withdrawal" -> Withdrawal!Init
       [] part = "recall" -> Recall!Init
       [] part = "index" -> Index!Init
       [] OTHER -> memoryOff
  /\ CASE part = "links" -> Links!Init
       [] part = "relations" -> Relations!Init
       [] part = "tools" -> Tools!Init
       [] part = "offers" -> Offers!Init
       [] OTHER -> itemOff
  /\ CASE part = "scopes" -> Scopes!Init
       [] part = "plans" -> Plans!Init
       [] OTHER -> scopeOff
  /\ CASE part = "pair" -> Pair!Init
       [] part = "aside" -> Aside!Init
       [] OTHER -> cleanupOff
  /\ CASE part = "capacity" -> Capacity!Init
       [] OTHER -> auditOff
  /\ CASE part = "stagings" -> Stagings!Init
       [] part = "expiries" -> Expiries!Init
       [] OTHER -> expiryOff
  /\ CASE part = "journal" -> Journal!Init
       [] part = "copies" -> Copies!Init
       [] part = "rows" -> Rows!Init
       [] OTHER -> journalOff
  /\ CASE part = "keptTexts" -> KeptTexts!Init
       [] part = "keptRounds" -> KeptRounds!Init
       [] part = "keptItems" -> KeptItems!Init
       [] part = "keptGrants" -> KeptGrants!Init
       [] OTHER -> copyOff
  /\ CASE part = "session" -> Session!Init
       [] part = "sessions" -> Sessions!Init
       [] OTHER -> sessionOff

(* The step of a part leaves the other modules alone.                      *)
memoryOnly == UNCHANGED <<part, itemVars, scopeVars, cleanupVars, auditVars,
    expiryVars, journalVars, copyVars, sessionVars>>
itemOnly == UNCHANGED <<part, memoryVars, scopeVars, cleanupVars, auditVars,
    expiryVars, journalVars, copyVars, sessionVars>>
scopeOnly == UNCHANGED <<part, memoryVars, itemVars, cleanupVars, auditVars,
    expiryVars, journalVars, copyVars, sessionVars>>
cleanupOnly == UNCHANGED <<part, memoryVars, itemVars, scopeVars, auditVars,
    expiryVars, journalVars, copyVars, sessionVars>>
auditOnly == UNCHANGED <<part, memoryVars, itemVars, scopeVars, cleanupVars,
    expiryVars, journalVars, copyVars, sessionVars>>
expiryOnly == UNCHANGED <<part, memoryVars, itemVars, scopeVars, cleanupVars,
    auditVars, journalVars, copyVars, sessionVars>>
journalOnly == UNCHANGED <<part, memoryVars, itemVars, scopeVars,
    cleanupVars, auditVars, expiryVars, copyVars, sessionVars>>
copyOnly == UNCHANGED <<part, memoryVars, itemVars, scopeVars, cleanupVars,
    auditVars, expiryVars, journalVars, sessionVars>>
sessionOnly == UNCHANGED <<part, memoryVars, itemVars, scopeVars,
    cleanupVars, auditVars, expiryVars, journalVars, copyVars>>

Next ==
  \/ part = "memory" /\ Memory!Next /\ memoryOnly
  \/ part = "withdrawal" /\ Withdrawal!Next /\ memoryOnly
  \/ part = "recall" /\ Recall!Next /\ memoryOnly
  \/ part = "index" /\ Index!Next /\ memoryOnly
  \/ part = "links" /\ Links!Next /\ itemOnly
  \/ part = "relations" /\ Relations!Next /\ itemOnly
  \/ part = "tools" /\ Tools!Next /\ itemOnly
  \/ part = "offers" /\ Offers!Next /\ itemOnly
  \/ part = "scopes" /\ Scopes!Next /\ scopeOnly
  \/ part = "plans" /\ Plans!Next /\ scopeOnly
  \/ part = "pair" /\ Pair!Next /\ cleanupOnly
  \/ part = "aside" /\ Aside!Next /\ cleanupOnly
  \/ part = "capacity" /\ Capacity!Next /\ auditOnly
  \/ part = "stagings" /\ Stagings!Next /\ expiryOnly
  \/ part = "expiries" /\ Expiries!Next /\ expiryOnly
  \/ part = "journal" /\ Journal!Next /\ journalOnly
  \/ part = "copies" /\ Copies!Next /\ journalOnly
  \/ part = "rows" /\ Rows!Next /\ journalOnly
  \/ part = "keptTexts" /\ KeptTexts!Next /\ copyOnly
  \/ part = "keptRounds" /\ KeptRounds!Next /\ copyOnly
  \/ part = "keptItems" /\ KeptItems!Next /\ copyOnly
  \/ part = "keptGrants" /\ KeptGrants!Next /\ copyOnly
  \/ part = "session" /\ Session!Next /\ sessionOnly
  \/ part = "sessions" /\ Sessions!Next /\ sessionOnly

vars == <<part, memoryVars, itemVars, scopeVars, cleanupVars, auditVars,
          expiryVars, journalVars, copyVars, sessionVars>>

Spec == Init /\ [][Next]_vars

-----------------------------------------------------------------------------
(* Every module keeps the types of its variables, and without its part it  *)
(* has none.                                                               *)
TypeOK ==
  /\ part = "memory" => Memory!TypeOK
  /\ part = "withdrawal" => Withdrawal!TypeOK
  /\ part = "recall" => Recall!TypeOK
  /\ part = "index" => Index!TypeOK
  /\ part = "links" => Links!TypeOK
  /\ part = "relations" => Relations!TypeOK
  /\ part = "tools" => Tools!TypeOK
  /\ part = "offers" => Offers!TypeOK
  /\ part = "scopes" => Scopes!TypeOK
  /\ part = "plans" => Plans!TypeOK
  /\ part = "pair" => Pair!TypeOK
  /\ part = "aside" => Aside!TypeOK
  /\ part = "capacity" => Capacity!TypeOK
  /\ part = "stagings" => Stagings!TypeOK
  /\ part = "expiries" => Expiries!TypeOK
  /\ part = "journal" => Journal!TypeOK
  /\ part = "copies" => Copies!TypeOK
  /\ part = "rows" => Rows!TypeOK
  /\ part = "keptTexts" => KeptTexts!TypeOK
  /\ part = "keptRounds" => KeptRounds!TypeOK
  /\ part = "keptItems" => KeptItems!TypeOK
  /\ part = "keptGrants" => KeptGrants!TypeOK
  /\ part = "session" => Session!TypeOK
  /\ part = "sessions" => Sessions!TypeOK

(* A command takes effect once, exactly when its receipt says so, however  *)
(* often it is repeated or confirmed and wherever the process died         *)
(* (apply(), confirm(), the constructor).                                  *)
EffectIsReceipt == part = "memory" => Memory!EffectIsReceipt

(* The text of a version is what a command accepted, or an edit that was   *)
(* shown: no file left by a command that failed is taken up (apply(),      *)
(* acceptReload()).                                                        *)
TextIsAccepted == part = "memory" => Memory!TextIsAccepted

(* Reloading a text the user changed in its file accepts the text that was *)
(* shown to the user, or none (previewReload(), acceptReload()).           *)
ReloadAsShown == [][part = "memory" => Memory!ReloadAsShownStep]_vars

(* What was withdrawn is never seen again, whatever is restored, corrected *)
(* or repeated (apply(), visible()).                                       *)
WithdrawnStays == part = "withdrawal" => Withdrawal!WithdrawnStays

(* What rests on something withdrawn stays unseen, too, however its        *)
(* sources and those of the rounds it rests on grow (apply(), closure()).  *)
TaintedStays == [][part = "withdrawal" => Withdrawal!TaintedStaysStep]_vars

(* A confirmed removal hides nothing that was not shown (confirm()).       *)
RemovalAsShown ==
  [][part = "withdrawal" => Withdrawal!RemovalAsShownStep]_vars

(* A round is given, and leaves behind, only what is current and rests on  *)
(* nothing withdrawn (assertSource(), search(), apply()).                  *)
UsedWasWhole == [][part = "recall" => Recall!UsedWasWholeStep]_vars

(* The index is what rebuilding it would give (apply(), rebuildIndex()).   *)
(* It does not hold once a text that rests on a withdrawn one is restored. *)
IndexIsRebuilt == part = "index" => Index!IndexIsRebuilt

(* Links lead to items that are there, and no item is above itself,        *)
(* whatever is deleted, rewritten, accepted late or confirmed late.        *)
LinksAreSound ==
  /\ part = "links" => Links!LinksAreSound
  /\ part = "relations" => Relations!LinksAreSound

(* A confirmed removal changes the items its preview named and no other.   *)
ConfirmedAsShown ==
  [][/\ part = "links" => Links!ConfirmedAsShownStep
     /\ part = "relations" => Relations!ConfirmedAsShownStep]_vars

(* No item rests on a version of itself through others, rounds included:   *)
(* its own changes can always be stored.                                   *)
NoItemRestsOnItself == part = "tools" => Tools!NoItemRestsOnItself

(* Withdrawn text does not spread: no write makes an item or a proposal    *)
(* rest on a withdrawn round, through any chain of others, that did not    *)
(* already; not a round that read it before, nor a confirmation made late. *)
WithdrawnDoesNotSpread ==
  [][/\ part = "tools" => Tools!WithdrawnDoesNotSpreadStep
     /\ part = "offers" => Offers!WithdrawnDoesNotSpreadStep]_vars

(* What is kept when originals are put aside, or an assistant is deleted,  *)
(* stays usable for everyone who could use it (plan(), retainedEdges).     *)
KeptStaysUsable == part = "scopes" => Scopes!KeptStaysUsable

(* What rests on something withdrawn is used by nobody any more, whatever  *)
(* was retained, put aside, restored or remembered before or after.        *)
WithdrawnIsUnused == part = "scopes" => Scopes!WithdrawnIsUnused

(* Clearing never gives: nobody can use what he could not use before       *)
(* (confirm(); only putting originals back may).                           *)
ClearingGivesNothing == part = "scopes" => Scopes!ClearingGivesNothing

(* The passes of plan() end with all that rests on what the user named,    *)
(* and nothing else; withdrawing a text takes its whole basis.             *)
PlanIsClosed == part = "plans" => Plans!PlanIsClosed

(* When the rows of a text are emptied, and its file names with them, the  *)
(* text lies nowhere any more, except where a job that is not over still   *)
(* has it in its list (drain(), cleanFile(), plan()).                      *)
EmptiedIsGone == part = "pair" => Pair!EmptiedIsGone

(* A file somebody else has put under a name is never lost: it lies there, *)
(* or in a quarantine; unless it was shown in the preview (cleanFile()).   *)
TheirsAreKept == part = "pair" => Pair!TheirsAreKept

(* An original is put aside and put back only while the product is as it   *)
(* was shown.                                                              *)
AsideIsBacked == part = "aside" => Aside!AsideIsBacked

(* A text in use that the audit calls known is counted with the size it    *)
(* was accepted with: what usage() adds up is never short of it.           *)
KnownIsCounted == part = "capacity" => Capacity!KnownIsCounted

(* No audit is forgotten: while one is due, it is queued, running or waits *)
(* for its retry, however runs, changes and failures overlap.              *)
AuditIsDue == part = "capacity" => Capacity!AuditIsDue

(* While a limit is set, a text takes more room only if all the texts in   *)
(* use then fit in it and every other one's file is as it was accepted,    *)
(* whatever was edited outside, lost by the watcher or under audit.        *)
GrowthFits == [][part = "capacity" => Capacity!GrowthFitsStep]_vars

(* A receipt of a move is about a stay that is over: a text that came back *)
(* to staging has none, so it is listed and reported anew.                 *)
MovedIsOver == part = "stagings" => Stagings!MovedIsOver

(* A text goes to the trash by itself only under the policy in force then, *)
(* after all of its period since it last came to staging, and as it was    *)
(* when the batch listed it: whatever was edited, moved or configured      *)
(* between the turns of the batch.                                         *)
NeverEarly == [][part = "stagings" => Stagings!NeverEarlyStep]_vars

(* What a run reports to have moved is what it moved, also when it was cut *)
(* off between two texts and settled at the next start.                    *)
RunsAreHonest == part = "expiries" => Expiries!RunsAreHonest

(* Whatever copy is open, restored, migrated, put back by hand or opened   *)
(* after a crash of another: a row that is shown is what was last          *)
(* committed in any of them.                                               *)
NothingOldIsShown ==
  /\ part = "journal" => Journal!NothingOldIsShown
  /\ part = "copies" => Copies!NothingOldIsShown
  /\ part = "rows" => Rows!NothingOldIsShown

(* The journal, settled against the copies' tokens, knows every committed  *)
(* change at every moment: a commit is never ahead of it, and no crash     *)
(* makes it forget or invent one.                                          *)
JournalKnowsAll ==
  /\ part = "journal" => Journal!JournalKnowsAll
  /\ part = "rows" => Rows!JournalKnowsAll

(* A crash at any step leaves a copy that can be opened, unless a record   *)
(* was torn: its instance is enrolled before its file can be reached, and  *)
(* it shows nothing that the journal, once settled, would refuse.          *)
NeverLockedOut ==
  /\ part = "journal" => Journal!NeverLockedOut
  /\ part = "copies" => Copies!NeverLockedOut

(* No memory can be read in a restored copy that could not be read, in the *)
(* same version, in the data it was backed up from: not a withdrawn or     *)
(* corrected text, nor one that rests on such a text (production-          *)
(* governance-apply.ts:55-80).                                             *)
NothingReturns ==
  /\ part = "keptTexts" => KeptTexts!NothingReturns
  /\ part = "keptRounds" => KeptRounds!NothingReturns

(* Whatever text a restored copy keeps rests on texts it keeps too, unless *)
(* an edge was retained: deletions go through to what was made of what was *)
(* made of the deleted (production-governance-dependencies.ts:39-63).      *)
NoOrphanText ==
  /\ part = "keptTexts" => KeptTexts!NoOrphanText
  /\ part = "keptRounds" => KeptRounds!NoOrphanText

(* What nobody touched since the backup is not lost by restoring it: a     *)
(* memory that could be read and can be, with all the memories it rests    *)
(* on, and a reminder that is still due (production-governance-            *)
(* reminders.ts:5, "unchanged healthy schedules remain usable").           *)
HealthyStays ==
  /\ part = "keptTexts" => KeptTexts!HealthyStays
  /\ part = "keptRounds" => KeptRounds!HealthyStays
  /\ part = "keptItems" => KeptItems!HealthyStays

(* Later deletions, corrections and revocations are applied, they do not   *)
(* make a backup useless (user-guide.md:47): a restoration is refused for  *)
(* no other reason than a proposal the backup has open and whose sources   *)
(* were cleaned since.                                                     *)
OnlyCleanedRefuse ==
  /\ part = "keptTexts" => KeptTexts!OnlyCleanedRefuse
  /\ part = "keptRounds" => KeptRounds!OnlyCleanedRefuse
  /\ part = "keptItems" => KeptItems!OnlyCleanedRefuse
  /\ part = "keptGrants" => KeptGrants!OnlyCleanedRefuse

(* A reminder that was shown, handled, cancelled or put off since the      *)
(* backup is not due again in the restored copy, nor is one whose item     *)
(* changed (production-governance-reminders.ts:16-43).                     *)
NotRemindedAgain == part = "keptItems" => KeptItems!NotRemindedAgain

(* A restored copy shows a formal item only with the content it has now: a *)
(* later content that is missing is not made up from the older one         *)
(* (production-governance-apply.ts:208-228).                               *)
ItemsAreCurrent == part = "keptItems" => KeptItems!ItemsAreCurrent

(* Nothing may be sent or done in a restored copy that was forbidden       *)
(* since: no wider permission, no key but the connection's latest, no      *)
(* connection on, no policy at work (production-governance-apply.ts:       *)
(* 240-281, 306-355).                                                      *)
NothingWider == part = "keptGrants" => KeptGrants!NothingWider

(* The pointer never leads to data that are not there whole: a copy that   *)
(* was only begun, a data set still being made, a restored copy to which   *)
(* the later deletions were not yet applied (production-restore.ts:93,     *)
(* production-session.ts:183).                                             *)
PointerIsWhole ==
  /\ part = "session" => Session!PointerIsWhole
  /\ part = "sessions" => Sessions!PointerIsWhole

(* A backup with a receipt that nobody touched holds one state of the data *)
(* set, the files and the database of the same moment (production-backup.  *)
(* ts:298-308); and a copy without a mark is such a state too.             *)
BackupIsWhole == part = "session" => Session!BackupIsWhole

(* A copy without a mark of being made holds such a state as well, however *)
(* its copying was interrupted (production-backup.ts).                     *)
CopyIsWhole == part = "session" => Session!CopyIsWhole

(* What was written to a directory stays there: an upgrade puts back what  *)
(* the database held at that moment, never an earlier state (production-   *)
(* prepare.ts:123, "No older snapshot can overwrite intervening user       *)
(* corrections/deletions").                                                *)
WritesStay == part = "session" => Session!WritesStay

(* A lock that an earlier program left behind stops nobody: a program that *)
(* opens its data finds none when it moves the pointer (production-        *)
(* location-lock.ts:5).                                                    *)
LockIsRecovered ==
  /\ part = "session" => Session!LockIsRecovered
  /\ part = "sessions" => Sessions!LockIsRecovered

(* Two programs never work on the same data, whatever configurations they  *)
(* have, as long as neither has lost a lease; nor is a data set at work    *)
(* while it is copied (production-lease.ts:23).                            *)
OneProgram == part = "sessions" => Sessions!OneProgram

(* The pointer moves only by the program that owns its configuration and   *)
(* the data, to data of the program's schema, and nothing else moved it    *)
(* since that program looked (production-session.ts:131, 215).             *)
MovedByOwner ==
  [][/\ part = "session" => Session!MovedByOwnerStep
     /\ part = "sessions" => Sessions!MovedByOwnerStep]_vars

(* What holds of memories, items and the scopes of cleaning up: a receipt  *)
(* tells what is in the file, a memory accepted keeps its words, what was  *)
(* withdrawn stays so, links have no cycle, a kept memory stays usable and *)
(* what was withdrawn is used by nothing.                                  *)
KeptHolds ==
  /\ EffectIsReceipt
  /\ TextIsAccepted
  /\ WithdrawnStays
  /\ IndexIsRebuilt
  /\ LinksAreSound
  /\ NoItemRestsOnItself
  /\ KeptStaysUsable
  /\ WithdrawnIsUnused
  /\ ClearingGivesNothing
  /\ PlanIsClosed

(* What holds of the data as a whole: everything known is counted, what is *)
(* moved is over, nothing old or deleted returns from a copy or by a torn  *)
(* journal, what was healthy stays, and one program owns a data set whose  *)
(* pointer names a whole copy.                                             *)
DataHold ==
  /\ TypeOK
  /\ EmptiedIsGone
  /\ TheirsAreKept
  /\ AsideIsBacked
  /\ KnownIsCounted
  /\ AuditIsDue
  /\ MovedIsOver
  /\ RunsAreHonest
  /\ NothingOldIsShown
  /\ JournalKnowsAll
  /\ NeverLockedOut
  /\ NothingReturns
  /\ NoOrphanText
  /\ HealthyStays
  /\ OnlyCleanedRefuse
  /\ NotRemindedAgain
  /\ ItemsAreCurrent
  /\ NothingWider
  /\ PointerIsWhole
  /\ BackupIsWhole
  /\ CopyIsWhole
  /\ WritesStay
  /\ LockIsRecovered
  /\ OneProgram

(* What no step of these parts does: apply what the user was not shown,    *)
(* clear a memory of its taint, let a withdrawal spread too far, grow past *)
(* the capacity, move a file before it is due, or move a data set without  *)
(* owning it.                                                              *)
StoringSteps ==
  /\ ReloadAsShown
  /\ TaintedStays
  /\ RemovalAsShown
  /\ UsedWasWhole
  /\ ConfirmedAsShown
  /\ WithdrawnDoesNotSpread
  /\ GrowthFits
  /\ NeverEarly
  /\ MovedByOwner
=============================================================================
