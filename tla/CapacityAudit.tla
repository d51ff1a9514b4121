----------------------------- MODULE CapacityAudit -----------------------------
(***************************************************************************)
(* The capacity of the persistent zone: retention-policy-service.ts.  The  *)
(* texts are files anyone may edit; what counts is what was accepted, so   *)
(* every text is measured in the background, in batches, and a text may    *)
(* only take more room while every other one is known to be as measured.   *)
(* Watching the files is a hint that may be late or lost.                  *)
(*                                                                         *)
(* Two counters only say whether something was done before the last        *)
(* change: the audit's generation (scan.valid) and the generation of       *)
(* governance (fresh, in a row and in the scan).  A batch is measured and  *)
(* stored in one turn of the event loop.                                   *)
(***************************************************************************)
EXTENDS Integers, FiniteSets, FiniteSetsExt, Functions

CONSTANTS
  Mems,          \* texts are 1..Mems, in the order of their ids
  Existing,      \* texts there at first, measured never
  Sizes,         \* sizes a text may have
  Limits,        \* limits that may be set; 0 turns the limit off
  Batch,
  MaxTouches, MaxMoves, MaxConfigs, MaxStops, MaxFaults, MaxEarly   \* bounds

CapacityAssumption ==
  /\ Mems \in Nat \ {0} /\ Existing \subseteq 1..Mems
  /\ Sizes \subseteq Nat \ {0} /\ Limits \subseteq Nat /\ Batch \in Nat \ {0}
  /\ Sizes # {}

Mem == 1..Mems
Zone == {"persistent", "staging", "trash"}
Null == -1                             \* accepted_bytes is null

VARIABLES
  text,        \* durable: memory_objects: zone ("none": no such text), size, use
  row,         \* durable: retention_policy_objects
  limit,       \* durable: the policy
  file,        \* files: identity of the text's file, and whether it is as accepted
  heard,       \* outside: files whose events have not been delivered
  audit,       \* volatile: audit.state
  queued,      \* volatile: auditScheduled
  scan,        \* volatile: runAudit() under way
  timer,       \* volatile: auditTimer: "none", "again" or "retry"
  up,
  touches, moves, configs, stops, faults, early        \* bounds

durable == <<text, row, limit>>
hints == <<audit, queued, scan, timer>>
bounds == <<touches, moves, configs, stops, faults, early>>
vars == <<durable, file, heard, hints, up, bounds>>

Resting == [on |-> FALSE, valid |-> FALSE, fresh |-> FALSE, next |-> 0]
NoRow == [zone |-> "none", bytes |-> Null, state |-> "EXCLUDED", ident |-> 0,
          fresh |-> FALSE]
NoText == [zone |-> "none", size |-> 0, use |-> "active"]

Present == {m \in Mem : text[m].zone # "none"}
Counted(t) == t.zone = "persistent" /\ t.use = "active"
KnownRows == {m \in Mem : row[m].zone = "persistent" /\ row[m].state = "KNOWN"}
-----------------------------------------------------------------------------
(* retentionMeasurement(): withdrawn texts and texts no longer active are  *)
(* left out; a file that is not what was accepted gives no size.           *)
Measured(m, t, f) ==
  IF t.use # "active" THEN [state |-> "EXCLUDED", bytes |-> Null, ident |-> 0]
  ELSE IF f.intact THEN [state |-> "KNOWN", bytes |-> t.size, ident |-> f.ident]
  ELSE [state |-> "UNKNOWN", bytes |-> Null, ident |-> 0]

RecordedOnce(m, t, f) ==
  LET now == Measured(m, t, f) IN
  [zone |-> t.zone, state |-> now.state, ident |-> now.ident, fresh |-> TRUE,
   bytes |-> IF row[m].bytes # Null THEN row[m].bytes ELSE now.bytes]

StateForZero(m, t, f) ==
  LET now == Measured(m, t, f) IN
  [zone |-> t.zone, state |-> now.state, ident |-> now.ident, fresh |-> TRUE,
   bytes |-> IF now.state = "UNKNOWN" THEN 0 ELSE now.bytes]

(* stateFor(): what was accepted before is kept while nothing is known.    *)
StateFor(m, t, f) ==
  LET now == Measured(m, t, f) IN
  [zone |-> t.zone, state |-> now.state, ident |-> now.ident, fresh |-> TRUE,
   bytes |-> IF now.state = "UNKNOWN" THEN row[m].bytes ELSE now.bytes]

(* recordTransition().                                                     *)
Recorded(m, t, f) ==
  LET now == Measured(m, t, f) IN
  [zone |-> t.zone, state |-> now.state, ident |-> now.ident, fresh |-> TRUE,
   bytes |-> now.bytes]

(* invalidateAudit(): of one file, or of all (files = Mem).                *)
Unknown(rows, files) ==
  [m \in Mem |-> IF text[m].zone = "none" THEN NoRow
                 ELSE IF rows[m].zone = "persistent" /\ m \in files
                 THEN [rows[m] EXCEPT !.state = "UNKNOWN"] ELSE rows[m]]

InvalidateMemory(some) ==
  /\ scan' = [scan EXCEPT !.valid = FALSE]
  /\ audit' = IF some THEN "PENDING" ELSE "COMPLETE"
  /\ queued' = (queued \/ some)
  /\ UNCHANGED timer
-----------------------------------------------------------------------------
(***************************************************************************)
(* assertTransition(): may text m, now `old', become `next'?               *)
(***************************************************************************)
Contribution(m) ==
  IF ~Counted(text[m]) THEN "EXCLUDED"
  ELSE IF row[m].zone = "persistent" /\ row[m].state = "KNOWN" THEN "KNOWN" ELSE "UNKNOWN"

NoRoomAsked(m, next) ==
  \/ limit = 0
  \/ ~Counted(next)
  \/ Contribution(m) = "KNOWN" /\ next.size <= row[m].bytes

ChangedUnchecked(m) == {}

(* verifyKnownIdentities(): rows whose file is not the one measured.       *)
Changed(m) == {n \in KnownRows \ {m} : ~row[n].fresh \/ row[n].ident # file[n].ident}

Used(m) == MapThenSumSet(LAMBDA n : row[n].bytes,
             {n \in Mem \ {m} : row[n].zone = "persistent" /\ row[n].bytes # Null})

SomeUnknown(m) ==
  \E n \in Mem \ {m} : row[n].zone = "persistent" /\ row[n].state = "UNKNOWN"

RoomForAny(m, next) ==
  /\ Contribution(m) # "UNKNOWN" /\ audit = "COMPLETE" /\ Changed(m) = {}
  /\ Used(m) + next.size <= limit

RoomFor(m, next) ==
  /\ Contribution(m) # "UNKNOWN" /\ audit = "COMPLETE" /\ Changed(m) = {}
  /\ ~SomeUnknown(m)
  /\ Used(m) + next.size <= limit

(* A refusal for a changed file: the rows are rolled back with the         *)
(* transaction, the state of the audit in memory is not.                   *)
Refused(m, next) ==
  /\ ~NoRoomAsked(m, next) /\ Contribution(m) # "UNKNOWN" /\ audit = "COMPLETE"
  /\ Changed(m) # {}
  /\ InvalidateMemory(TRUE)
  /\ UNCHANGED <<durable, file, heard, up, bounds>>

Accepted(m, next) == NoRoomAsked(m, next) \/ RoomFor(m, next)
-----------------------------------------------------------------------------
(***************************************************************************)
(* memory-service.ts, apply(): a text is written: a new file.              *)
(***************************************************************************)
Written(m, s) ==
  [zone |-> IF text[m].zone = "none" THEN "persistent" ELSE text[m].zone,
   size |-> s, use |-> "active"]

Write(m, s) ==
  LET next == Written(m, s)
      f == [ident |-> file[m].ident + 1, intact |-> TRUE] IN
  /\ up /\ moves < MaxMoves /\ text[m].use = "active"
  /\ \/ /\ Accepted(m, next)
        /\ text' = [text EXCEPT ![m] = next]
        /\ file' = [file EXCEPT ![m] = f]
        /\ heard' = heard \cup {m}
        /\ row' = [row EXCEPT ![m] = Recorded(m, next, f)]
        /\ moves' = moves + 1
        /\ UNCHANGED <<limit, hints, up, touches, configs, stops, faults, early>>
     \/ Refused(m, next)

(* delete and withdraw; the second invalidates all that was measured.      *)
Delete(m, withdraw) ==
  LET next == [text[m] EXCEPT !.zone = "trash", !.use = IF withdraw THEN "withdrawn"
                                                        ELSE "suppressed"] IN
  /\ up /\ moves < MaxMoves /\ m \in Present /\ text[m].use = "active"
  /\ text' = [text EXCEPT ![m] = next]
  /\ row' = LET new == [row EXCEPT ![m] = Recorded(m, next, file[m])]
            IN IF withdraw THEN Unknown(new, Mem) ELSE new
  /\ IF withdraw THEN InvalidateMemory(TRUE) ELSE UNCHANGED hints
  /\ moves' = moves + 1
  /\ UNCHANGED <<limit, file, heard, up, touches, configs, stops, faults, early>>

(* restore of a deleted text: its old body, read back, in a new file.      *)
RestoreText(m) ==
  LET next == [text[m] EXCEPT !.zone = "persistent", !.use = "active"]
      f == [ident |-> file[m].ident + 1, intact |-> TRUE] IN
  /\ up /\ moves < MaxMoves /\ text[m].use = "suppressed" /\ file[m].intact
  /\ \/ /\ Accepted(m, next)
        /\ text' = [text EXCEPT ![m] = next]
        /\ file' = [file EXCEPT ![m] = f]
        /\ heard' = heard \cup {m}
        /\ row' = [row EXCEPT ![m] = Recorded(m, next, f)]
        /\ moves' = moves + 1
        /\ UNCHANGED <<limit, hints, up, touches, configs, stops, faults, early>>
     \/ Refused(m, next)

(***************************************************************************)
(* retention-service.ts, move(): the transaction, after the file was read; *)
(* the generation moves, so nothing measured before counts any more.       *)
(***************************************************************************)
Move(m, z) ==
  LET next == [text[m] EXCEPT !.zone = z] IN
  /\ up /\ moves < MaxMoves /\ m \in Present /\ text[m].use = "active"
  /\ text[m].zone # z /\ file[m].intact
  /\ \/ /\ Accepted(m, next)
        /\ text' = [text EXCEPT ![m] = next]
        /\ row' = [n \in Mem |-> IF n = m THEN Recorded(m, next, file[m])
                                 ELSE [row[n] EXCEPT !.fresh = FALSE]]
        /\ scan' = [scan EXCEPT !.fresh = FALSE]
        /\ moves' = moves + 1
        /\ UNCHANGED <<limit, file, heard, audit, queued, timer, up,
                       touches, configs, stops, faults, early>>
     \/ Refused(m, next)

(* Rows of a cleared text go, with its file (retention-service.ts,         *)
(* cleanSql() and purge).                                                  *)
Purge(m) ==
  /\ up /\ moves < MaxMoves /\ m \in Present
  /\ text' = [text EXCEPT ![m] = NoText]
  /\ LET left == Present \ {m} IN
     /\ row' = [n \in Mem |-> IF n = m \/ n \notin left THEN NoRow
                  ELSE [row[n] EXCEPT !.fresh = FALSE,
                          !.state = IF row[n].zone = "persistent" THEN "UNKNOWN" ELSE @]]
     /\ scan' = [scan EXCEPT !.valid = FALSE, !.fresh = FALSE]
     /\ audit' = IF left = {} THEN "COMPLETE" ELSE "PENDING"
     /\ queued' = (queued \/ left # {})
  /\ file' = [file EXCEPT ![m] = [ident |-> @.ident + 1, intact |-> FALSE]]
  /\ moves' = moves + 1
  /\ UNCHANGED <<limit, heard, timer, up, touches, configs, stops, faults, early>>

(* configure(): its other effects are in StagingExpiry.                    *)
Configure(l) ==
  /\ up /\ configs < MaxConfigs /\ l # limit
  /\ limit' = l /\ configs' = configs + 1
  /\ UNCHANGED <<text, row, file, heard, hints, up, touches, moves, stops, faults, early>>

(* setPermission() in memory-service.ts invalidates all.                   *)
Permission ==
  /\ up /\ moves < MaxMoves /\ moves' = moves + 1
  /\ row' = Unknown(row, Mem) /\ InvalidateMemory(Present # {})
  /\ UNCHANGED <<text, limit, file, heard, up, touches, configs, stops, faults, early>>
-----------------------------------------------------------------------------
(***************************************************************************)
(* Outside: a file is edited or put back; its event is late, or never.     *)
(***************************************************************************)
Touch(m, same) ==
  /\ touches < MaxTouches /\ m \in Present
  /\ touches' = touches + 1
  /\ file' = [file EXCEPT ![m] = [ident |-> @.ident + 1, intact |-> same]]
  /\ heard' = heard \cup {m}
  /\ UNCHANGED <<durable, hints, up, moves, configs, stops, faults, early>>

Lose(m) ==
  /\ m \in heard /\ heard' = heard \ {m}
  /\ UNCHANGED <<durable, file, hints, up, bounds>>

(* observeFile(): of one file, or of an unnamed one.                       *)
Observe(m) ==
  /\ up /\ m \in heard /\ heard' = heard \ {m}
  /\ IF m \in KnownRows /\ row[m].ident # file[m].ident
     THEN row' = Unknown(row, {m}) /\ InvalidateMemory(TRUE)
     ELSE UNCHANGED <<row, hints>>
  /\ UNCHANGED <<text, limit, file, up, bounds>>

ObserveUnnamed ==
  /\ up /\ heard # {} /\ heard' = {}
  /\ row' = Unknown(row, Mem) /\ InvalidateMemory(Present # {})
  /\ UNCHANGED <<text, limit, file, up, bounds>>
-----------------------------------------------------------------------------
(***************************************************************************)
(* runAudit().                                                             *)
(***************************************************************************)
Start ==
  /\ up /\ queued /\ queued' = FALSE
  /\ IF scan.on \/ audit = "COMPLETE" THEN UNCHANGED <<scan, audit>>
     ELSE /\ scan' = [on |-> TRUE, valid |-> TRUE, fresh |-> TRUE, next |-> 1]
          /\ audit' = "RUNNING"
  /\ UNCHANGED <<durable, file, heard, timer, up, bounds>>

(* A failure between `auditing = true' and the try: no run can start any    *)
(* more in this process.                                                    *)
StartFails ==
  /\ up /\ queued /\ ~scan.on /\ audit # "COMPLETE" /\ early < MaxEarly
  /\ queued' = FALSE /\ early' = early + 1
  /\ scan' = [Resting EXCEPT !.on = TRUE]
  /\ UNCHANGED <<durable, file, heard, audit, timer, up, touches, moves, configs,
                 stops, faults>>

Running == scan.on /\ scan.next > 0

Left == {m \in Present : m >= scan.next}
BatchNow == {m \in Left : Cardinality({n \in Left : n < m}) < Batch}

FinishQuietly(again) == scan' = Resting /\ UNCHANGED queued

(* The finally: another run if this one was overtaken.                     *)
Finish(again) == scan' = Resting /\ queued' = (queued \/ again)

Overtaken ==
  /\ up /\ Running /\ ~scan.valid
  /\ Finish(TRUE)
  /\ UNCHANGED <<durable, file, heard, audit, timer, up, bounds>>

(* The generation of governance moved: all is measured again.              *)
GovernanceMoved ==
  /\ up /\ Running /\ scan.valid /\ ~scan.fresh /\ Left # {}
  /\ row' = Unknown(row, Mem)
  /\ Finish(TRUE) /\ audit' = "PENDING"
  /\ UNCHANGED <<text, limit, file, heard, timer, up, bounds>>

Measure ==
  /\ up /\ Running /\ scan.valid /\ scan.fresh /\ Left # {}
  /\ row' = [m \in Mem |-> IF m \in BatchNow THEN StateFor(m, text[m], file[m])
                           ELSE row[m]]
  /\ scan' = [scan EXCEPT !.next = Max(BatchNow) + 1]
  /\ UNCHANGED <<text, limit, file, heard, audit, queued, timer, up, bounds>>

Complete ==
  /\ up /\ Running /\ scan.valid /\ Left = {}
  /\ row' = [m \in Mem |-> IF m \in Present THEN row[m] ELSE NoRow]
  /\ audit' = "COMPLETE" /\ timer' = "again" /\ Finish(FALSE)
  /\ UNCHANGED <<text, limit, file, heard, up, bounds>>

(* The storage fails: the run ends, and is taken up again a day later.     *)
Fault ==
  /\ up /\ Running /\ scan.valid /\ faults < MaxFaults
  /\ faults' = faults + 1
  /\ audit' = "PENDING" /\ timer' = "retry" /\ Finish(FALSE)
  /\ UNCHANGED <<durable, file, heard, up, touches, moves, configs, stops, early>>

Timer ==
  /\ up /\ timer # "none" /\ timer' = "none"
  /\ IF timer = "again"
     THEN /\ row' = Unknown(row, Mem)
          /\ scan' = [scan EXCEPT !.valid = FALSE]
          /\ audit' = IF Present = {} THEN "COMPLETE" ELSE "PENDING"
          /\ queued' = (queued \/ Present # {})
     ELSE queued' = TRUE /\ UNCHANGED <<row, scan, audit>>
  /\ UNCHANGED <<text, limit, file, heard, up, bounds>>
-----------------------------------------------------------------------------
Halt ==
  /\ up /\ stops < MaxStops
  /\ up' = FALSE /\ stops' = stops + 1
  /\ audit' = "PENDING" /\ queued' = FALSE /\ scan' = Resting /\ timer' = "none"
  /\ UNCHANGED <<durable, file, touches, moves, configs, faults, early>>
  /\ heard' = {}

(* The constructor.                                                        *)
Restart ==
  /\ ~up /\ up' = TRUE
  /\ row' = Unknown(row, Mem)
  /\ audit' = IF Present = {} THEN "COMPLETE" ELSE "PENDING"
  /\ queued' = (Present # {})
  /\ UNCHANGED <<text, limit, file, heard, scan, timer, bounds>>

Init ==
  /\ text \in [Mem -> [zone : {"persistent"}, size : Sizes, use : {"active"}]
                       \cup {NoText}]
  /\ \A m \in Mem : (text[m] # NoText) <=> m \in Existing
  /\ row = [m \in Mem |-> IF m \in Existing THEN [NoRow EXCEPT !.zone = "persistent",
                                                    !.state = "UNKNOWN", !.fresh = TRUE]
                          ELSE NoRow]
  /\ limit \in Limits
  /\ file = [m \in Mem |-> [ident |-> 0, intact |-> m \in Existing]]
  /\ heard = {} /\ scan = Resting /\ timer = "none" /\ up = FALSE
  /\ audit = "PENDING" /\ queued = FALSE
  /\ touches = 0 /\ moves = 0 /\ configs = 0 /\ stops = 0 /\ faults = 0 /\ early = 0

Next ==
  \/ \E m \in Mem : \/ \E s \in Sizes : Write(m, s)
                    \/ \E w \in BOOLEAN : Delete(m, w) \/ Touch(m, w)
                    \/ \E z \in Zone : Move(m, z)
                    \/ RestoreText(m) \/ Purge(m) \/ Lose(m) \/ Observe(m)
  \/ \E l \in Limits : Configure(l)
  \/ Permission \/ ObserveUnnamed
  \/ Start \/ StartFails \/ Overtaken \/ GovernanceMoved \/ Measure \/ Complete \/ Fault \/ Timer
  \/ Halt \/ Restart

Spec == Init /\ [][Next]_vars

(* setImmediate callbacks and timers come; the process, if it died, is     *)
(* started again.                                                          *)
Audited == Start \/ Overtaken \/ GovernanceMoved \/ Measure \/ Complete
FairSpec == Spec /\ WF_vars(Audited) /\ WF_vars(Timer /\ timer = "retry")
                 /\ WF_vars(Restart)
-----------------------------------------------------------------------------
(* The variables have their types.                                         *)
TypeOK ==
  /\ text \in [Mem -> [zone : Zone \cup {"none"}, size : Sizes \cup {0},
                       use : {"active", "suppressed", "withdrawn"}]]
  /\ row \in [Mem -> [zone : Zone \cup {"none"}, bytes : Sizes \cup {Null},
                      state : {"KNOWN", "UNKNOWN", "EXCLUDED"}, ident : Nat,
                      fresh : BOOLEAN]]
  /\ limit \in Limits
  /\ file \in [Mem -> [ident : Nat, intact : BOOLEAN]]
  /\ heard \subseteq Mem
  /\ audit \in {"PENDING", "RUNNING", "COMPLETE"} /\ queued \in BOOLEAN
  /\ scan \in [on : BOOLEAN, valid : BOOLEAN, fresh : BOOLEAN, next : Nat]
  /\ timer \in {"none", "again", "retry"} /\ up \in BOOLEAN
  /\ touches \in Nat /\ moves \in Nat /\ configs \in Nat /\ stops \in Nat /\ faults \in Nat
  /\ early \in Nat

Total(t) == MapThenSumSet(LAMBDA n : t[n].size, {n \in Mem : Counted(t[n])})
Grown(m) == /\ Counted(text'[m])
            /\ ~Counted(text[m]) \/ text'[m].size > text[m].size

(* While a limit is set, a text takes more room only if all the texts in   *)
(* use then fit in it and every other one's file is as it was accepted,    *)
(* whatever was edited outside, lost by the watcher or under audit.        *)
GrowthFitsStep ==
  \A m \in Mem : (limit > 0 /\ Grown(m)) =>
    /\ Total(text') <= limit
    /\ \A n \in Mem \ {m} : Counted(text[n]) => file[n].intact

GrowthFits == [][GrowthFitsStep]_vars

(* A text in use that the audit calls known is counted with the size it    *)
(* was accepted with: what usage() adds up is never short of it.           *)
KnownIsCounted ==
  \A m \in KnownRows : Counted(text[m]) /\ row[m].bytes = text[m].size

(* No audit is forgotten: while one is due, it is queued, running or       *)
(* waits for its retry, however runs, changes and failures overlap.        *)
AuditIsDue ==
  up /\ audit # "COMPLETE" => queued \/ scan.on \/ timer = "retry"

(* Whatever is edited, moved or invalidated while it runs, and if the      *)
(* storage fails inside of it, measurement comes to an end at last.        *)
AuditCompletes == []<>(audit = "COMPLETE")
==============================================================================
