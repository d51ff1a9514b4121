---------------------------- MODULE LoginStartup ----------------------------
(***************************************************************************)
(* The switch "start at login": reminder-service.ts changes it in Windows  *)
(* before it commits the settings, and windows-reminder-platform.ts takes  *)
(* the change back when the settings are not committed.  Windows keeps one *)
(* entry, which the user and other programs may change between any two of  *)
(* the calls below; each call is one step.                                 *)
(***************************************************************************)
EXTENDS Naturals

CONSTANTS
  MaxCalls,  \* how often the settings are configured
  MaxChanges \* how often somebody else changes the entry

(* This program enabled or disabled, with other arguments, or another path.*)
Entries == {"none", "on", "off", "args", "other"}

VARIABLES
  entry,   \* what Windows keeps
  saved,   \* the version of the committed settings
  place,   \* the next call of configure
  asked,   \* the switch of the input
  before, after,    \* snapshots around the program's own change
  answer,  \* of the last configure
  first,   \* history: the entry when configure looked at it first
  looked,  \* history: the entry at the program's last look or write
  faulty,  \* history: Windows refused a call
  calls, changes

vars == <<entry, saved, place, asked, before, after, answer, first, looked,
          faulty, calls, changes>>

(* An entry of another path is not seen.                                   *)
Looks(e) == IF e = "other" THEN "none" ELSE e

IsOn(e) == e = "on"

WrittenUnknown(on) == IF on THEN "enabled" ELSE "none"

Written(on) == IF on THEN "on" ELSE "none"

Quiet == <<saved, asked, before, after, answer, first, calls, changes>>

(* previous = runtimeValue()                                               *)
Configure(on) ==
  /\ place = "idle" /\ calls < MaxCalls /\ calls' = calls + 1
  /\ asked' = on /\ answer' = "none" /\ before' = "none" /\ after' = "none"
  /\ first' = entry /\ looked' = entry /\ faulty' = FALSE
  /\ place' = (IF on = IsOn(entry) THEN "read" ELSE "before")
  /\ UNCHANGED <<entry, saved, changes>>

Fails(told) ==
  /\ place' = "idle" /\ answer' = told /\ faulty' = TRUE
  /\ UNCHANGED <<entry, saved, asked, before, after, first, looked, calls, changes>>

(* Without the pair of snapshots nothing is taken back.                    *)
Refused == place \in {"before", "set", "after"} /\ Fails("unknown")

LookBefore ==
  /\ place = "before" /\ place' = "set" /\ before' = Looks(entry)
  /\ first' = entry /\ looked' = entry
  /\ UNCHANGED <<entry, saved, asked, after, answer, faulty, calls, changes>>

Set ==
  /\ place = "set" /\ place' = "after" /\ entry' = Written(asked)
  /\ looked' = entry' /\ UNCHANGED <<Quiet, faulty>>

LookAfter ==
  /\ place = "after" /\ place' = "read" /\ after' = Looks(entry)
  /\ looked' = entry
  /\ UNCHANGED <<entry, saved, asked, before, answer, first, faulty, calls, changes>>

(* Without a change of its own there is nothing to take back.              *)
Undoes == IF after = before THEN "idle" ELSE "undo"

NotKept ==
  /\ place' = Undoes /\ answer' = "unknown"
  /\ UNCHANGED <<entry, saved, asked, before, after, first, looked, calls, changes>>

ReadsNothing(e) == TRUE

(* getLoginStartup after the change.                                       *)
Reads(e) == IsOn(e) = asked

Read ==
  /\ place = "read"
  /\ \/ /\ Reads(entry) /\ place' = "commit" /\ looked' = entry
        /\ UNCHANGED <<entry, Quiet, faulty>>
     \/ ~Reads(entry) /\ NotKept /\ UNCHANGED faulty
     \/ NotKept /\ faulty' = TRUE

Commit ==
  /\ place = "commit"
  /\ \/ /\ place' = "idle" /\ saved' = saved + 1 /\ answer' = "ok"
        /\ UNCHANGED <<entry, asked, before, after, first, looked, faulty, calls, changes>>
     \/ NotKept /\ UNCHANGED faulty

(* rollbackIfUnchanged                                                     *)
SameAlways == TRUE

Same == Looks(entry) = after

(* An entry that is off, or gone, cannot be told from somebody's change.   *)
OwnAlways == TRUE

Own == after \in {"on", "off"}

Undo ==
  /\ place = "undo"
  /\ place' = (IF Same /\ Own THEN "undoing" ELSE "idle")
  /\ UNCHANGED <<entry, Quiet, looked, faulty>>

BackToOn == "on"

BackNever == after

Back == IF before \in {"on", "off"} THEN before ELSE "none"

UndoWrite ==
  /\ place = "undoing" /\ place' = "verify" /\ entry' = Back
  /\ looked' = entry' /\ UNCHANGED <<Quiet, faulty>>

Verify ==
  /\ place = "verify" /\ place' = "idle"
  /\ answer' = (IF before \in {"on", "off"} /\ Looks(entry) = before
                THEN "restored" ELSE "unknown")
  /\ UNCHANGED <<entry, saved, asked, before, after, first, looked, faulty, calls, changes>>

UndoRefused == place \in {"undo", "undoing", "verify"} /\ Fails("unknown")

(* Between the program's comparison and its write nobody comes: the two    *)
(* are neighbouring calls.                                                 *)
SomebodyChanges ==
  /\ changes < MaxChanges /\ changes' = changes + 1
  /\ place \notin {"after", "undoing"}
  /\ entry' \in Entries \ {entry}
  /\ UNCHANGED <<saved, place, asked, before, after, answer, first, looked, faulty, calls>>

Init ==
  /\ entry \in Entries /\ saved = 0 /\ place = "idle" /\ asked = FALSE
  /\ before = "none" /\ after = "none" /\ answer = "none" /\ first = entry
  /\ looked = entry /\ faulty = FALSE /\ calls = 0 /\ changes = 0

Next ==
  \/ \E on \in BOOLEAN : Configure(on)
  \/ Refused \/ LookBefore \/ Set \/ LookAfter \/ Read \/ Commit
  \/ Undo \/ UndoWrite \/ Verify \/ UndoRefused \/ SomebodyChanges

Spec == Init /\ [][Next]_vars

-----------------------------------------------------------------------------
(* The pieces of the state have their types.                               *)
TypeOK ==
  /\ entry \in Entries /\ {first, looked} \subseteq Entries /\ saved \in 0..MaxCalls
  /\ place \in {"idle", "before", "set", "after", "read", "commit", "undo",
                "undoing", "verify"}
  /\ {asked, faulty} \subseteq BOOLEAN
  /\ {before, after} \subseteq {"none", "on", "off", "args"}
  /\ answer \in {"none", "ok", "restored", "unknown"}
  /\ calls \in 0..MaxCalls /\ changes \in 0..MaxChanges

(* Settings answered as saved say what Windows was doing when last read.   *)
OkIsTrue ==
  (place = "idle" /\ answer = "ok" /\ entry = looked) => (entry = "on") = asked

(* A switch reported as restored is the very entry that was there.         *)
RestoredIsTrue ==
  (place = "idle" /\ answer = "restored" /\ entry = looked) => entry = first

(* Settings that were not saved leave no login start behind that was not   *)
(* there, unless Windows refused a call or somebody changed the entry.     *)
NothingLeft ==
  (place = "idle" /\ answer \in {"restored", "unknown"} /\ ~faulty /\ changes = 0 /\ entry = "on")
    => first = "on"

(* The entry of somebody else, made since the program's own, stays.        *)
UntouchedStep ==
  (place = "undoing" /\ entry' # entry) => entry = looked

Untouched == [][UntouchedStep]_vars

(* What the program removed it does not put back: an entry that is gone    *)
(* may be somebody's move to another path.                                 *)
NotInventedStep ==
  (place = "undoing" /\ entry' # entry) => entry \in {"on", "off"}

NotInvented == [][NotInventedStep]_vars
=============================================================================
