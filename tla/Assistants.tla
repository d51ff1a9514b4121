----------------------------- MODULE Assistants -----------------------------
(***************************************************************************)
(* The durable assistants: assistant-repository.ts, what assistant-service *)
(* makes of its errors, and the purge of an assistant by the retention     *)
(* service.  Each command is one transaction on a state, here a function   *)
(* from a state to the next; a name, a persona and an avatar are left out. *)
(***************************************************************************)
EXTENDS Integers

CONSTANTS
  Assistant,    \* ids of assistants
  MaxRevision,  \* bound: commands stop at this revision of the state
  None

AssistantsAssumption == MaxRevision \in Nat /\ None \notin Assistant

States == [status : [Assistant -> {"absent", "active", "archived", "purged"}],
           version : [Assistant -> 0..MaxRevision],
           primary : Assistant \cup {None}, current : Assistant \cup {None},
           revision : 0..MaxRevision]

Empty == [status |-> [a \in Assistant |-> "absent"],
          version |-> [a \in Assistant |-> 0],
          primary |-> None, current |-> None, revision |-> 0]

Active(d) == {a \in Assistant : d.status[a] = "active"}

(* assertInvariant, with which every transaction ends.                     *)
Consistent(d) ==
  IF Active(d) = {} THEN d.primary = None /\ d.current = None
                    ELSE {d.primary, d.current} \subseteq Active(d)

(***************************************************************************)
(* A command names the state and, where it has one, the assistant's        *)
(* version it was made from.                                               *)
(***************************************************************************)
Listed(d, a) == d.status[a] \in {"active", "archived"}

(* Wrong variant: the revision of the state is not compared.               *)
FreshEnough(d, c) == TRUE

Fresh(d, c) == c.revision = d.revision

(* What refuses a command that is fresh: requireActive, requireVersion and *)
(* the guard of the primary assistant.                                     *)
Refuses(d, c) ==
  CASE c.op = "create"  -> d.status[c.a] # "absent"
    [] c.op = "switch"  -> d.status[c.a] # "active"
    [] c.op = "restore" -> ~Listed(d, c.a)
    [] c.op \in {"rename", "setPrimary"} ->
         d.status[c.a] # "active" \/ d.version[c.a] # c.version
    [] c.op = "archive" ->
         d.status[c.a] # "active" \/ d.version[c.a] # c.version \/ d.primary = c.a

(* Wrong variant: a change of one assistant leaves the state's revision.   *)
TouchedOnly(d, a) == [d EXCEPT !.version[a] = @ + 1]

(* Wrong variant: the revision is raised for the assistant and the state.  *)
TouchedTwice(d, a) == [d EXCEPT !.version[a] = @ + 1, !.revision = @ + 2]

Touched(d, a) == [d EXCEPT !.version[a] = @ + 1, !.revision = @ + 1]

Created(d, a) ==
  LET e == [d EXCEPT !.status[a] = "active", !.version[a] = 1, !.revision = @ + 1]
  IN IF d.primary = None THEN [e EXCEPT !.primary = a, !.current = a] ELSE e

Switched(d, a) == [d EXCEPT !.current = a, !.revision = @ + 1]

Restored(d, a) ==
  IF d.status[a] = "archived"
  THEN Switched([d EXCEPT !.status[a] = "active", !.version[a] = @ + 1], a)
  ELSE Switched(d, a)

(* Wrong variant: the archived assistant stays the current one.            *)
ArchivedInPlace(d, a) == [Touched(d, a) EXCEPT !.status[a] = "archived"]

Archived(d, a) ==
  [Touched(d, a) EXCEPT !.status[a] = "archived",
                        !.current = IF @ = a THEN d.primary ELSE @]

Done(d, c) ==
  CASE c.op = "create"     -> Created(d, c.a)
    [] c.op = "switch"     -> Switched(d, c.a)
    [] c.op = "restore"    -> Restored(d, c.a)
    [] c.op = "rename"     -> Touched(d, c.a)
    [] c.op = "setPrimary" -> [Touched(d, c.a) EXCEPT !.primary = c.a]
    [] c.op = "archive"    -> Archived(d, c.a)

(* A purge puts the replacement of its preview in the place of the         *)
(* assistant; the triggers of the tables refuse one that is not active.    *)
Purged(d, a, r) ==
  [Touched(d, a) EXCEPT !.status[a] = "purged",
                        !.primary = IF @ = a THEN r ELSE @,
                        !.current = IF @ = a THEN r ELSE @]
=============================================================================
