----------------------------- MODULE MCDeciding -----------------------------
(* What becomes of a reminder and of a memory that is broken off.  A       *)
(* behaviour is of one part.                                               *)
EXTENDS Integers, FiniteSets, Sequences, TLC

CONSTANTS None, c1, c2, m1, m2, q1

VARIABLES
  part,      \* the part this behaviour is of
  \* Reminders
  item, reminders, occurrences, settings, now, native, phase, owed, batches,
  lastTick, notices, timers, bound, faulted, shown, halted, reminderStops,
  reminderFaults,
  \* MemoryCommands
  cmds, previews, obj, deps, used, withdrawn, index, accepted, disk, temps,
  reload, grant, full, run, place, round, up, effects, refused, edits,
  memoryStops, memoryFaults, fills

reminderVars ==
  <<item, reminders, occurrences, settings, now, native, phase, owed,
    batches, lastTick, notices, timers, bound, faulted, shown, halted,
    reminderStops, reminderFaults>>
memoryVars ==
  <<cmds, previews, obj, deps, used, withdrawn, index, accepted, disk, temps,
    reload, grant, full, run, place, round, up, effects, refused, edits,
    memoryStops, memoryFaults, fills>>

\* the settings of catching up that matter
Policies ==
  {[mode |-> "EXPLICIT", catchUp |-> 0, merge |-> FALSE],
   [mode |-> "UNCONFIGURED", catchUp |-> 0, merge |-> FALSE]}

Reminding == INSTANCE Reminders WITH
  Item <- {"i1"}, Reminder <- {1}, ItemOf <- <<"i1">>, MaxVersion <- 1,
  MaxTime <- 2, Gap <- 1, DefaultCatchUp <- 1, Policies <- Policies,
  MaxSettings <- 1, MaxStops <- 1, MaxFaults <- 0, stops <- reminderStops,
  faults <- reminderFaults

Memory == INSTANCE MemoryCommands WITH
  Actions <- {"remember", "correct"}, MaxVersion <- 2, MaxEdits <- 0,
  MaxStops <- 1, MaxFaults <- 2, MaxGrants <- 1, MaxFull <- 1,
  Mem <- {m1, m2}, Cmd <- {c1, c2}, Round <- {q1},
  Kind <- (c1 :> "user") @@ (c2 :> "origin"),
  RoundOf <- [c \in {c1, c2} |-> q1], stops <- memoryStops,
  faults <- memoryFaults

ASSUME Memory!MemoryAssumption
-----------------------------------------------------------------------------
(* Outside its own parts a module has no state.                            *)
reminderOff ==
  /\ item = None /\ reminders = None /\ occurrences = None /\ settings = None
  /\ now = None /\ native = None /\ phase = None /\ owed = None
  /\ batches = None /\ lastTick = None /\ notices = None /\ timers = None
  /\ bound = None /\ faulted = None /\ shown = None /\ halted = None
  /\ reminderStops = None /\ reminderFaults = None

memoryOff ==
  /\ cmds = None /\ previews = None /\ obj = None /\ deps = None
  /\ used = None /\ withdrawn = None /\ index = None /\ accepted = None
  /\ disk = None /\ temps = None /\ reload = None /\ grant = None
  /\ full = None /\ run = None /\ place = None /\ round = None /\ up = None
  /\ effects = None /\ refused = None /\ edits = None /\ memoryStops = None
  /\ memoryFaults = None /\ fills = None

Init ==
  /\ part \in {"reminding", "memory"}
  /\ CASE part = "reminding" -> Reminding!Init
       [] OTHER -> reminderOff
  /\ CASE part = "memory" -> Memory!Init
       [] OTHER -> memoryOff

(* The step of a part leaves the other modules alone.                      *)
reminderOnly == UNCHANGED <<part, memoryVars>>
memoryOnly == UNCHANGED <<part, reminderVars>>

Next ==
  \/ part = "reminding" /\ Reminding!Next /\ reminderOnly
  \/ part = "memory" /\ Memory!Next /\ memoryOnly

vars == <<part, reminderVars, memoryVars>>

Spec == Init /\ [][Next]_vars

(* What runs by itself is fair, and the user starts the program again; who *)
(* asked for a memory need not ask again, nor anybody make room.           *)
Fairness ==
  /\ WF_reminderVars(part = "reminding" /\ Reminding!Start)
  /\ WF_reminderVars(part = "reminding" /\ Reminding!Recover)
  /\ WF_reminderVars(part = "reminding" /\ Reminding!OwedTick)
  /\ WF_reminderVars(part = "reminding" /\ Reminding!DispatchStep)
  /\ WF_memoryVars(part = "memory" /\ Memory!Work)
  /\ WF_memoryVars(part = "memory" /\ Memory!Restart)
  /\ SF_reminderVars(part = "reminding" /\ Reminding!Tick(FALSE))
  /\ \A g \in SUBSET Reminding!Identity :
       SF_reminderVars(part = "reminding" /\ Reminding!ObservationTimeout(g))

FairSpec == Spec /\ Fairness

-----------------------------------------------------------------------------
(* A due reminder does not stay SCHEDULED: it is claimed, expired, held,   *)
(* cancelled or rescheduled, unless the clock is set back before it.       *)
DueIsDecided ==
  \A v \in Reminding!Versions :
    (/\ part = "reminding"
     /\ reminders[1].version = v
     /\ reminders[1].state = "SCHEDULED"
     /\ reminders[1].due <= now)
      ~> (\/ part # "reminding"
          \/ reminders[1].version # v
          \/ reminders[1].state # "SCHEDULED"
          \/ reminders[1].due > now)

(* A claimed reminder does not stay DISPATCHING, whether the native call   *)
(* answers, stays silent, or the process dies around it.                   *)
ClaimIsSettled ==
  \A v \in Reminding!Versions :
    (/\ part = "reminding"
     /\ reminders[1].version = v
     /\ reminders[1].state = "DISPATCHING")
      ~> (\/ part # "reminding"
          \/ reminders[1].version # v
          \/ reminders[1].state # "DISPATCHING")

(* What a service asked for does not stay PREPARED, at whichever commit it *)
(* was broken off: it is applied, or marked so that it can be asked again, *)
(* since the same command is refused until then (observationMutation(),    *)
(* the constructor).                                                       *)
BrokenOffIsMarked ==
  (part = "memory" /\ cmds[c2].state = "PREPARED")
    ~> (part # "memory" \/ cmds[c2].state \in {"SUCCEEDED", "NOT_APPLIED"})

(* Once it is asked again, whatever the earlier attempts left behind, it   *)
(* is applied if this attempt meets no failure, no exit and no full disk;  *)
(* but the temporary file of a new version refuses it (apply()).           *)
AskedAgainIsApplied ==
  \A s \in 0..1, f \in 0..2 :
    (/\ part = "memory" /\ run.c = c2
     /\ memoryStops = s /\ memoryFaults = f)
      ~> (\/ part # "memory"
          \/ cmds[c2].state = "SUCCEEDED"
          \/ memoryStops # s \/ memoryFaults # f \/ full
          \/ cmds[c2].mut.m # None /\ \E t \in temps : t[3] = c2)

(* A reminder that is due is decided, and one that was claimed is settled, *)
(* through exits, crashes and observations that never come.                *)
RemindersEnd ==
  /\ DueIsDecided
  /\ ClaimIsSettled

(* What a service asked for is applied or marked, and is applied when it   *)
(* is asked for again.                                                     *)
OriginIsDecided ==
  /\ BrokenOffIsMarked
  /\ AskedAgainIsApplied
=============================================================================
