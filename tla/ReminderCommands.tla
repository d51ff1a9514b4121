-------------------------- MODULE ReminderCommands --------------------------
(***************************************************************************)
(* Changes of reminders by the user's commands and by candidates that a    *)
(* chat round prepares and the user confirms: the commands of              *)
(* ReminderService, ReminderToolSession and the branch of startChat that   *)
(* carries out prepare_reminder.  Every command is one transaction, and    *)
(* its answer may be lost, so the user may send it again.  When reminders  *)
(* are due and shown is Reminders' subject.                                *)
(***************************************************************************)
EXTENDS Naturals, FiniteSets

CONSTANTS
  Items,       \* formal items
  Rounds,      \* chat rounds; a round's command has the round's identity
  Commands,    \* identities of the user's own commands
  Dues,        \* times a reminder may be set to
  None,        \* no reminder, no item, no time, nothing
  MaxReminders,\* bound: reminders
  MaxVersion,  \* bound: versions of an item or reminder
  MaxCalls     \* bound: tool calls of a round

CommandsAssumption ==
  /\ None \notin Items \cup Rounds \cup Commands \cup Dues
  /\ Rounds \cap Commands = {}
  /\ {MaxReminders, MaxVersion, MaxCalls} \subseteq Nat

VARIABLES
  items,       \* durable: each item's version, 0 when deleted, and whether it is open
  reminders,   \* durable: the reminders
  commands,    \* durable: commands carried out, with their receipts
  previews,    \* durable: each round's candidate
  ops,         \* durable: the ledger's operations of each round
  allowed,     \* durable: the round's sources and write permission hold
  rounds,      \* each round: its place, its item and the action it asks for
  applied      \* history: the mutations saved under each identity

vars == <<items, reminders, commands, previews, ops, allowed, rounds, applied>>

Ids == 1..MaxReminders
Calls == 1..MaxCalls
Versions == 1..MaxVersion
Identities == Rounds \cup Commands

(* One shape for the three kinds of mutation.                              *)
Create(i, iv, due) ==
  [action |-> "create", item |-> i, id |-> 0, v |-> 0, iv |-> iv, due |-> due]
Reschedule(id, v, iv, due) ==
  [action |-> "reschedule", item |-> None, id |-> id, v |-> v, iv |-> iv, due |-> due]
Ended(id, v) ==
  [action |-> "end", item |-> None, id |-> id, v |-> v, iv |-> 0, due |-> None]
Mutations ==
  {Create(i, iv, due) : i \in Items, iv \in Versions, due \in Dues}
  \cup {Reschedule(id, v, iv, due) : id \in Ids, v \in Versions, iv \in Versions, due \in Dues}
  \cup {Ended(id, v) : id \in Ids, v \in Versions}

NotApplied == [id |-> 0, version |-> 0, state |-> "CONFIRMED_NOT_APPLIED"]
Succeeded(id, v) == [id |-> id, version |-> v, state |-> "SUCCEEDED"]

(***************************************************************************)
(* ReminderService.apply                                                   *)
(***************************************************************************)
ItemOf(mu) == IF mu.action = "create" THEN mu.item ELSE reminders[mu.id].item
Exists(mu) == mu.action # "create" => reminders[mu.id] # None
Unused == {id \in Ids : reminders[id] = None}
Target(mu) ==
  IF mu.action = "create" THEN CHOOSE id \in Unused : \A x \in Unused : id <= x
  ELSE mu.id

Fresh(mu) ==
  IF mu.action = "create" THEN Unused # {}
  ELSE reminders[mu.id].version = mu.v /\ mu.v < MaxVersion
ItemAsSeen(mu) ==
  mu.action # "end" =>
    items[ItemOf(mu)].version = mu.iv /\ items[ItemOf(mu)].open
Accepts(mu) == Exists(mu) /\ Fresh(mu) /\ ItemAsSeen(mu)

BumpedNot(mu) == mu.v

BumpedSet(mu) == IF mu.action = "end" THEN mu.v ELSE mu.v + 1

Bumped(mu) == mu.v + 1

Record(mu) ==
  [item |-> ItemOf(mu), version |-> Bumped(mu),
   state |-> IF mu.action = "end" THEN "OVER" ELSE "SCHEDULED",
   due |-> IF mu.action = "end" THEN reminders[mu.id].due ELSE mu.due]

(* reconcile: reminders of items that were closed or deleted are over.     *)
Reconciled(rs) ==
  [id \in Ids |-> IF rs[id] # None /\ ~items[rs[id].item].open
                  THEN [rs[id] EXCEPT !.state = "OVER"] ELSE rs[id]]

Receipts(c) == {r \in commands : r.c = c}
Free(c) == Receipts(c) = {}

SavedAlone(c, mu) ==
  LET rs == [reminders EXCEPT ![Target(mu)] = Record(mu)] IN
  /\ reminders' \in {rs, Reconciled(rs)}
  /\ UNCHANGED commands
  /\ applied' = [applied EXCEPT ![c] = @ + 1]

(* The reconciliation after the commit may fail: the answer is lost then.  *)
Saved(c, mu) ==
  LET rs == [reminders EXCEPT ![Target(mu)] = Record(mu)] IN
  /\ reminders' \in {rs, Reconciled(rs)}
  /\ commands' = commands
       \cup {[c |-> c, args |-> mu, receipt |-> Succeeded(Target(mu), Bumped(mu))]}
  /\ applied' = [applied EXCEPT ![c] = @ + 1]

OwnsNothing(c) == TRUE

OwnsNoPreview(c) == c \in Rounds => previews[c] = None

Bounded(c) == applied[c] < 2

(* mutate: a repeated command finds its receipt, and the identity of a     *)
(* candidate is refused.                                                   *)
Mutate(c, mu) ==
  /\ Free(c) /\ OwnsNoPreview(c) /\ Accepts(mu) /\ Bounded(c)
  /\ Saved(c, mu)
  /\ UNCHANGED <<items, previews, ops, allowed, rounds>>

(* query reconciles.                                                       *)
Query ==
  /\ reminders' = Reconciled(reminders)
  /\ UNCHANGED <<items, commands, previews, ops, allowed, rounds, applied>>

(***************************************************************************)
(* A round: prepare_reminder                                               *)
(***************************************************************************)
Begin(q, i) ==
  /\ rounds[q].place = "idle" /\ allowed /\ items[i].version > 0
  /\ \E a \in {"set", "cancel"} :
       rounds' = [rounds EXCEPT ![q] = [place |-> "asking", item |-> i,
                    seen |-> items[i].version, action |-> a]]
  /\ UNCHANGED <<items, reminders, commands, previews, ops, allowed, applied>>

Used(q) == Cardinality({n \in Calls : ops[q][n] # None})
Operation(state, p) == [state |-> state, preview |-> p]

(* The ledger has the operation, prepared and then dispatching, before the *)
(* call is carried out.                                                    *)
StartCall(q) ==
  /\ rounds[q].place = "asking" /\ Used(q) < MaxCalls
  /\ rounds' = [rounds EXCEPT ![q].place = "prepared"]
  /\ ops' = [ops EXCEPT ![q][Used(q) + 1] = Operation("PREPARED", None)]
  /\ UNCHANGED <<items, reminders, commands, previews, allowed, applied>>

Dispatch(q) ==
  /\ rounds[q].place = "prepared"
  /\ rounds' = [rounds EXCEPT ![q].place = "calling"]
  /\ ops' = [ops EXCEPT ![q][Used(q)].state = "DISPATCHING"]
  /\ UNCHANGED <<items, reminders, commands, previews, allowed, applied>>

Live(rs, i) ==
  {id \in Ids : rs[id] # None /\ rs[id].item = i /\ rs[id].state = "SCHEDULED"}

(* What the arguments of the call ask for, from the one live reminder.     *)
Proposed(q, rs) ==
  LET r == rounds[q]
      live == Live(rs, r.item)
  IN IF r.action = "cancel" THEN {Ended(id, rs[id].version) : id \in live}
     ELSE IF live = {} THEN {Create(r.item, r.seen, due) : due \in Dues}
     ELSE {Reschedule(id, rs[id].version, r.seen, due) : id \in live, due \in Dues}

Holds(q) == allowed /\ items[rounds[q].item].version = rounds[q].seen

Candidate(q, mu) ==
  [item |-> rounds[q].item, itemVersion |-> items[rounds[q].item].version,
   mutation |-> mu, state |-> "PENDING", receipt |-> NotApplied]

Finishes(q, state, p, place) ==
  /\ ops' = [ops EXCEPT ![q][Used(q)] = Operation(state, p)]
  /\ rounds' = [rounds EXCEPT ![q].place = place]

(* prepare: a repeated call finds the round's candidate.                   *)
Prepare(q, mu) ==
  /\ previews[q] = None => Free(q)
  /\ previews[q] # None => previews[q].mutation = mu
  /\ previews' = (IF previews[q] # None THEN previews
                  ELSE [previews EXCEPT ![q] = Candidate(q, mu)])
  /\ Finishes(q, "SUCCEEDED", previews'[q], "asking")

(* provenNotApplied                                                        *)
ProvenAlways(q) == TRUE

Proven(q) == previews[q] = None /\ Free(q)

Reject(q) ==
  /\ IF Proven(q)
     THEN Finishes(q, "CONFIRMED_NOT_APPLIED", None, "asking")
     ELSE Finishes(q, "RESULT_UNKNOWN", None, "over")
  /\ UNCHANGED previews

(* The call: its guards refuse it, storage fails it, or it is prepared.    *)
CallDone(q) ==
  LET rs == Reconciled(reminders) IN
  /\ rounds[q].place = "calling"
  /\ \/ Reject(q) /\ reminders' \in {reminders, rs}
     \/ /\ Finishes(q, "RESULT_UNKNOWN", None, "over")
        /\ UNCHANGED <<previews, reminders>>
     \/ /\ Holds(q) /\ Cardinality(Live(rs, rounds[q].item)) <= 1
        /\ \E mu \in Proposed(q, rs) : Prepare(q, mu)
        /\ reminders' = rs
  /\ UNCHANGED <<items, commands, allowed, applied>>

EndRound(q) ==
  /\ rounds[q].place = "asking" /\ rounds' = [rounds EXCEPT ![q].place = "over"]
  /\ UNCHANGED <<items, reminders, commands, previews, ops, allowed, applied>>

(***************************************************************************)
(* confirm: the candidate's state, its receipt and every operation that    *)
(* shows it change in one transaction, with the reminder when accepted     *)
(***************************************************************************)
Shows(q, n) == ops[q][n] # None /\ ops[q][n].preview # None

DecidedOne(q, p) ==
  [ops EXCEPT ![q] = [n \in Calls |->
     IF Shows(q, n) /\ \A k \in 1..(n - 1) : ~Shows(q, k) THEN [@[n] EXCEPT !.preview = p]
     ELSE @[n]]]

Decided(q, p) ==
  [ops EXCEPT ![q] = [n \in Calls |->
     IF Shows(q, n) THEN [@[n] EXCEPT !.preview = p] ELSE @[n]]]

Closed(q, state, receipt) ==
  LET p == [previews[q] EXCEPT !.state = state, !.receipt = receipt] IN
  /\ previews' = [previews EXCEPT ![q] = p] /\ ops' = Decided(q, p)

Undecided(q) == previews[q] # None /\ previews[q].state = "PENDING"

Refuse(q) ==
  /\ Undecided(q) /\ Closed(q, "REJECTED", NotApplied)
  /\ UNCHANGED <<items, reminders, commands, allowed, rounds, applied>>

StillHolds(q) ==
  allowed /\ items[previews[q].item].version = previews[q].itemVersion

Accept(q) ==
  /\ Undecided(q) /\ StillHolds(q)
  /\ LET mu == previews[q].mutation IN
     /\ Free(q) /\ Accepts(mu) /\ Saved(q, mu)
     /\ Closed(q, "ACCEPTED", Succeeded(Target(mu), Bumped(mu)))
  /\ UNCHANGED <<items, allowed, rounds>>

(***************************************************************************)
(* What happens around it                                                  *)
(***************************************************************************)
Around == UNCHANGED <<commands, previews, applied>>

(* Closing an item ends its reminders in the same transaction.             *)
Stopped(i) ==
  [id \in Ids |-> IF reminders[id] # None /\ reminders[id].item = i
                  THEN [reminders[id] EXCEPT !.state = "OVER"] ELSE reminders[id]]

EditItem(i) ==
  /\ items[i].version \in 1..(MaxVersion - 1)
  /\ \E open \in BOOLEAN :
       /\ items' = [items EXCEPT ![i] = [version |-> @.version + 1, open |-> open]]
       /\ reminders' = IF open THEN reminders ELSE Stopped(i)
  /\ Around /\ UNCHANGED <<ops, allowed, rounds>>

(* Deleting it leaves them to the next reconciliation.                     *)
DeleteItem(i) ==
  /\ items[i].version > 0
  /\ items' = [items EXCEPT ![i] = [version |-> 0, open |-> FALSE]]
  /\ Around /\ UNCHANGED <<reminders, ops, allowed, rounds>>

SetAllowed ==
  /\ allowed' = ~allowed /\ Around /\ UNCHANGED <<items, reminders, ops, rounds>>

(* The program ends, and on its next start the ledger's open operations    *)
(* have no known outcome.                                                  *)
Restart ==
  /\ \E q \in Rounds : rounds[q].place \in {"asking", "prepared", "calling"}
  /\ rounds' = [q \in Rounds |-> IF rounds[q].place = "idle" THEN rounds[q]
                                 ELSE [rounds[q] EXCEPT !.place = "over"]]
  /\ ops' = [q \in Rounds |-> [n \in Calls |-> IF ops[q][n] = None THEN None
       ELSE CASE ops[q][n].state = "PREPARED" -> Operation("CONFIRMED_NOT_APPLIED", None)
              [] ops[q][n].state = "DISPATCHING" -> Operation("RESULT_UNKNOWN", None)
              [] OTHER -> ops[q][n]]]
  /\ Around /\ UNCHANGED <<items, reminders, allowed>>

Idle == [place |-> "idle", item |-> None, seen |-> 0, action |-> "none"]

Init ==
  /\ items = [i \in Items |-> [version |-> 1, open |-> TRUE]]
  /\ reminders = [id \in Ids |-> None] /\ commands = {}
  /\ previews = [q \in Rounds |-> None]
  /\ ops = [q \in Rounds |-> [n \in Calls |-> None]]
  /\ allowed = TRUE /\ rounds = [q \in Rounds |-> Idle]
  /\ applied = [c \in Identities |-> 0]

(* Identities the user may send: his own, and those a candidate showed him. *)
Known == Commands \cup {q \in Rounds : previews[q] # None}

Next ==
  \/ \E c \in Known, mu \in Mutations : Mutate(c, mu)
  \/ Query
  \/ \E q \in Rounds :
       \/ \E i \in Items : Begin(q, i)
       \/ StartCall(q) \/ Dispatch(q) \/ CallDone(q) \/ EndRound(q)
       \/ Refuse(q) \/ Accept(q)
  \/ \E i \in Items : EditItem(i) \/ DeleteItem(i)
  \/ SetAllowed \/ Restart

Spec == Init /\ [][Next]_vars

-----------------------------------------------------------------------------
(* The pieces of the state have their types.                               *)
ReminderRecords ==
  [item : Items, version : Versions, state : {"SCHEDULED", "OVER"}, due : Dues]
OpStates == {"PREPARED", "DISPATCHING", "SUCCEEDED", "CONFIRMED_NOT_APPLIED", "RESULT_UNKNOWN"}
TypeOK ==
  /\ items \in [Items -> [version : 0..MaxVersion, open : BOOLEAN]]
  /\ reminders \in [Ids -> ReminderRecords \cup {None}]
  /\ \A r \in commands : r.c \in Identities /\ r.args \in Mutations
  /\ \A q \in Rounds, n \in Calls : ops[q][n] = None \/ ops[q][n].state \in OpStates
  /\ allowed \in BOOLEAN

(* However often a command is sent or a candidate confirmed, it changes a  *)
(* reminder at most once.                                                  *)
AppliedOnce == \A c \in Identities : applied[c] <= 1

(* Every version of every reminder, the present one and those before it,   *)
(* is the outcome of exactly one command: no two commands are told that    *)
(* they made the same change, and nothing else changes a version.          *)
Makers(id, v) ==
  {r \in commands : r.receipt.id = id /\ r.receipt.version = v}
EveryVersionOnce ==
  \A id \in Ids : reminders[id] # None =>
    \A v \in 1..reminders[id].version : Cardinality(Makers(id, v)) = 1

(* A round changes a reminder only when the user has accepted its          *)
(* candidate, and then as the candidate says; a rejected one never does.   *)
AcceptedIsApplied ==
  \A q \in Rounds :
    /\ applied[q] = 1 <=> (previews[q] # None /\ previews[q].state = "ACCEPTED")
    /\ applied[q] = 1 => \E r \in commands :
         r.c = q /\ r.args = previews[q].mutation /\ r.receipt = previews[q].receipt

(* Every operation of the ledger that shows a candidate shows it as it is  *)
(* now, however many calls of the round showed it.                         *)
LedgerAgrees ==
  \A q \in Rounds, n \in Calls : Shows(q, n) => ops[q][n].preview = previews[q]

(* A call that was carried out is reported as not applied only when the    *)
(* round has neither a candidate nor a change.                             *)
KnownNotAppliedStep ==
  \A q \in Rounds, n \in Calls :
    (/\ ops[q][n] # None /\ ops[q][n].state = "DISPATCHING"
     /\ ops'[q][n].state = "CONFIRMED_NOT_APPLIED")
    => previews[q] = None /\ applied[q] = 0

KnownNotApplied == [][KnownNotAppliedStep]_vars
=============================================================================
