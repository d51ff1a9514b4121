--------------------------- MODULE GovernanceJournal ---------------------------
(***************************************************************************)
(* The governance journal of a data set: production-governance-journal.ts, *)
(* -database.ts, -connection.ts, -index.ts, -lifecycle.ts, -migration.ts,  *)
(* -restore.ts.  Every change of a governed row is noted in the journal,   *)
(* which lies outside the data, before its transaction can commit; the     *)
(* transaction writes a token of the note; afterwards, or at the next      *)
(* start, the notes whose tokens are found are kept and the others are     *)
(* struck out.  A backup that is restored gets what the journal knows, and *)
(* a copy is opened only if the journal knows the file and nothing later   *)
(* than what the copy shows.                                               *)
(*                                                                         *)
(* A copy is a directory with a database.  A row is not there (0), was     *)
(* deleted (-1) or has a version; a barred row shows nothing any more.     *)
(* Appending to the journal, committing, replacing a file and removing the *)
(* mark of an unfinished restoration are one durable step each, and the    *)
(* process may die between any two, or within an append.                   *)
(***************************************************************************)
EXTENDS Integers, Sequences, FiniteSets, SequencesExt

CONSTANTS
  Copy, Row, Tok,         \* directories, governed rows, tokens
  First,                  \* the copy there is at first
  Old,                    \* copies a later version of the program migrates
  MaxVer, MaxFaults,      \* bounds
  None

JournalAssumption ==
  /\ First \in Copy /\ Old \subseteq Copy /\ IsFiniteSet(Copy)
  /\ MaxVer \in Nat \ {0} /\ MaxFaults \in Nat

Value == [ver : -1..MaxVer, barred : BOOLEAN]
Inst == Copy \X {0, 1}     \* instance_id: of the copy, again once migrated

VARIABLES
  reg,       \* durable: registry entry: none, PREPARING or READY
  seed,      \* durable: the rows and instance the registry entry was made from
  jour,      \* durable: the journal's file
  set,       \* durable: the copies
  kept,      \* durable: the rows in a backup
  place,     \* volatile: off, or where the opening or the session is
  cur,       \* volatile: the copy opened
  tx,        \* volatile: rows written by the transaction, with tokens
  mine,      \* volatile: tokens noted and not settled
  lost,      \* volatile: the journal failed (onUncertain)
  target,    \* volatile: the copy a restoration makes
  latest,    \* history: what was last committed, in whatever copy
  faults     \* bound

vars == <<reg, seed, jour, set, kept, place, cur, tx, mine, lost, target, latest, faults>>

AbsentLow == [ver |-> -2, barred |-> FALSE]

Absent == [ver |-> 0, barred |-> FALSE]

Blank == [r \in Row |-> Absent]
NoCopy == [state |-> "none", inst |-> <<First, 0>>, file |-> None, old |-> FALSE,
           rows |-> Blank, toks |-> {}]
NoJournal == [state |-> "none", proj |-> Blank, pend |-> <<>>, insts |-> {}]
-----------------------------------------------------------------------------
(* The latest note of a row wins.                                          *)
Applied(rows, notes) == FoldLeft(LAMBDA p, e : [p EXCEPT ![e.row] = e.val], rows, notes)

(* assertAnchor(): the instance is enrolled, and it is in its own file.    *)
AnchoredByName(c) == set[c].inst \in jour.insts

Anchored(c) == set[c].inst \in jour.insts /\ set[c].file = set[c].inst

(* resolveTokens(): notes are kept or struck out by their tokens.          *)
Found(e, c) == e.tok \in set[c].toks

SettledNone(j, c, toks) ==
  [j EXCEPT !.pend = SelectSeq(@, LAMBDA e : e.tok \notin toks)]

Settled(j, c, toks) ==
  [j EXCEPT
     !.proj = Applied(@, SelectSeq(j.pend, LAMBDA e : e.tok \in toks /\ Found(e, c))),
     !.pend = SelectSeq(@, LAMBDA e : e.tok \notin toks)]

TokensOf(inst) == {e.tok : e \in {x \in ToSet(jour.pend) : x.inst = inst}}

(* snapshot(): of a journal that can be read and has nothing open.         *)
CertainAny == jour.state = "ready"

Certain == jour.state = "ready" /\ jour.pend = <<>>

(* assertGovernanceDominance().                                            *)
DominatedMissing(rows) ==
  \A r \in Row : jour.proj[r].ver = 0 \/ jour.proj[r].ver = -1 \/ rows[r].ver <= 0
                 \/ rows[r].ver >= jour.proj[r].ver

Dominated(rows) ==
  \A r \in Row : LET prior == jour.proj[r] IN
    \/ prior.ver = 0 \/ rows[r].ver <= 0 \/ rows[r] = prior
    \/ rows[r].barred /\ rows[r].ver >= prior.ver

(* applyProductionGovernance(): a row known to be later is barred.         *)
Governed(rows) ==
  [r \in Row |->
     IF rows[r].ver <= 0 \/ jour.proj[r].ver = 0 \/ rows[r] = jour.proj[r] THEN rows[r]
     ELSE [ver |-> IF jour.proj[r].ver > rows[r].ver THEN jour.proj[r].ver ELSE rows[r].ver,
           barred |-> TRUE]]

Wiped(c) == [set EXCEPT ![c].toks = {}]
-----------------------------------------------------------------------------
(***************************************************************************)
(* Opening a copy.                                                         *)
(***************************************************************************)
Start(c) ==
  /\ place = "off" /\ set[c].state = "ready"
  /\ place' = "settling" /\ cur' = c
  /\ UNCHANGED <<reg, seed, jour, set, kept, tx, mine, lost, target, latest, faults>>

(* known(): before READY the journal is made again from the seed; a READY  *)
(* one that cannot be read is an error.                                    *)
RecreatableAny == reg # "none" /\ jour.state # "ready"

Recreatable == reg = "PREPARING" /\ jour.state # "ready"

Recreate ==
  /\ place \in {"settling", "registering"} /\ Recreatable
  /\ jour' = [state |-> "ready", proj |-> seed.rows, pend |-> <<>>, insts |-> {seed.inst}]
  /\ UNCHANGED <<reg, seed, set, kept, place, cur, tx, mine, lost, target, latest, faults>>

MarkReady ==
  /\ place \in {"settling", "registering"} /\ reg = "PREPARING" /\ Certain
  /\ reg' = "READY"
  /\ UNCHANGED <<seed, jour, set, kept, place, cur, tx, mine, lost, target, latest, faults>>

(* settleProductionGovernance().                                           *)
Settle ==
  LET j == Settled(jour, cur, TokensOf(set[cur].inst)) IN
  /\ place = "settling"
  /\ IF reg = "none" THEN UNCHANGED jour
     ELSE reg = "READY" /\ jour.state = "ready" /\ Anchored(cur) /\ jour' = j
  /\ place' = "settled"
  /\ UNCHANGED <<reg, seed, set, kept, cur, tx, mine, lost, target, latest, faults>>

(* A version of the program with a later schema is installed.              *)
NewVersion(c) ==
  /\ place = "off" /\ c \in Old /\ set[c].state = "ready" /\ set[c].file = <<c, 0>>
  /\ ~set[c].old /\ set' = [set EXCEPT ![c].old = TRUE]
  /\ UNCHANGED <<reg, seed, jour, kept, place, cur, tx, mine, lost, target, latest, faults>>

(* prepareExisting(): the new file is enrolled, then renamed over the old. *)
PrepareLate ==
  /\ place = "settled" /\ (reg = "none" \/ Certain)
  /\ place' = IF set[cur].old THEN "renaming" ELSE "registering"
  /\ UNCHANGED <<reg, seed, jour, set, kept, cur, tx, mine, lost, target, latest, faults>>

Prepare ==
  /\ place = "settled" /\ (reg = "none" \/ Certain)
  /\ IF set[cur].old
     THEN /\ place' = "renaming"
          /\ jour' = IF reg = "none" THEN jour ELSE [jour EXCEPT !.insts = @ \cup {<<cur, 1>>}]
     ELSE place' = "registering" /\ UNCHANGED jour
  /\ UNCHANGED <<reg, seed, set, kept, cur, tx, mine, lost, target, latest, faults>>

Rename ==
  /\ place = "renaming" /\ place' = "registering"
  /\ set' = [set EXCEPT ![cur].inst = <<cur, 1>>, ![cur].file = <<cur, 1>>,
                        ![cur].old = FALSE, ![cur].toks = {}]
  /\ UNCHANGED <<reg, seed, jour, kept, cur, tx, mine, lost, target, latest, faults>>

(* initialize(): the seed and PREPARING are durable before the journal is. *)
Initialize ==
  /\ place = "registering" /\ reg = "none"
  /\ reg' = "PREPARING" /\ seed' = [rows |-> set[cur].rows, inst |-> set[cur].inst]
  /\ UNCHANGED <<jour, set, kept, place, cur, tx, mine, lost, target, latest, faults>>

(* registerPreparedProductionGovernance().                                 *)
Register ==
  /\ place = "registering" /\ reg = "READY" /\ Anchored(cur) /\ Certain
  /\ Dominated(set[cur].rows)
  /\ place' = "up"
  /\ UNCHANGED <<reg, seed, jour, set, kept, cur, tx, mine, lost, target, latest, faults>>

Refuse ==
  /\ place \in {"settling", "settled", "renaming", "registering"}
  /\ place' = "off" /\ cur' = None
  /\ UNCHANGED <<reg, seed, jour, set, kept, tx, mine, lost, target, latest, faults>>
-----------------------------------------------------------------------------
(***************************************************************************)
(* Writing.  A statement in a transaction runs its trigger, which notes    *)
(* the change; the row and the token are written with the transaction.     *)
(***************************************************************************)
Seen(r) == Applied(set[cur].rows, tx)[r]
Note(t, r, v) == [tok |-> t, inst |-> set[cur].inst, row |-> r, val |-> v]
Fresh == Tok \ ({e.tok : e \in ToSet(jour.pend)} \cup UNION {set[c].toks : c \in Copy})
Working == place = "up" /\ ~lost /\ target = None /\ (tx # <<>> \/ mine = {})

(* A new row, the next version of one, or its deletion.                    *)
Change(r) ==
  (IF Seen(r).ver > 0 THEN {[ver |-> -1, barred |-> FALSE]} ELSE {})
  \cup {[ver |-> v, barred |-> FALSE] :
          v \in {v \in {Seen(r).ver + 1} : v <= MaxVer /\ ~Seen(r).barred
                   /\ (v > 1 \/ (v = 1 /\ latest[r].ver = 0))}}

Write(r, v) ==
  \E t \in {CHOOSE t \in Fresh : TRUE} :
    /\ jour' = [jour EXCEPT !.pend = Append(@, Note(t, r, v))]
    /\ tx' = Append(tx, [row |-> r, val |-> v, tok |-> t])
    /\ mine' = mine \cup {t}
    /\ UNCHANGED <<reg, seed, set, kept, place, cur, lost, target, latest, faults>>

(* The statement fails after its trigger, or the record is all that was    *)
(* written when the file failed.                                           *)
NoteOnly(r, v, failed) ==
  \E t \in {CHOOSE t \in Fresh : TRUE} :
    /\ faults < MaxFaults
    /\ jour' = [jour EXCEPT !.pend = Append(@, Note(t, r, v))]
    /\ mine' = mine \cup {t} /\ lost' = failed /\ faults' = faults + 1
    /\ UNCHANGED <<reg, seed, set, kept, place, cur, tx, target, latest>>

(* Nothing was written: from now on every note is refused.                 *)
AppendFails ==
  /\ place = "up" /\ ~lost /\ faults < MaxFaults
  /\ lost' = TRUE /\ faults' = faults + 1
  /\ UNCHANGED <<reg, seed, jour, set, kept, place, cur, tx, mine, target, latest>>

Commit ==
  /\ place = "up" /\ tx # <<>>
  /\ set' = [set EXCEPT ![cur].rows = Applied(@, tx),
                        ![cur].toks = @ \cup {e.tok : e \in ToSet(tx)}]
  /\ latest' = Applied(latest, tx) /\ tx' = <<>>
  /\ UNCHANGED <<reg, seed, jour, kept, place, cur, mine, lost, target, faults>>

Rollback ==
  /\ place = "up" /\ tx # <<>> /\ tx' = <<>>
  /\ UNCHANGED <<reg, seed, jour, set, kept, place, cur, mine, lost, target, latest, faults>>

(* settle() of the guarded connection.  Tokens of settled notes are never  *)
(* looked for again.                                                       *)
Resolve ==
  /\ place = "up" /\ ~lost /\ tx = <<>> /\ mine # {}
  /\ jour' = Settled(jour, cur, mine) /\ mine' = {} /\ set' = Wiped(cur)
  /\ UNCHANGED <<reg, seed, kept, place, cur, tx, lost, target, latest, faults>>
-----------------------------------------------------------------------------
(***************************************************************************)
(* Backups, restorations, copies made by hand.                             *)
(***************************************************************************)
Quiet == place = "up" /\ ~lost /\ tx = <<>> /\ mine = {}

Backup ==
  /\ Quiet /\ Certain /\ kept # set[cur].rows
  /\ kept' = set[cur].rows
  /\ UNCHANGED <<reg, seed, jour, set, place, cur, tx, mine, lost, target, latest, faults>>

(* restoreProductionBackup() up to governCopy().                           *)
Restore(c) ==
  /\ Quiet \/ place = "off"
  /\ target = None /\ kept # Blank /\ set[c].state = "none" /\ reg = "READY"
  /\ set' = [set EXCEPT ![c] = [NoCopy EXCEPT !.state = "marked", !.rows = kept,
                                              !.file = <<c, 0>>]]
  /\ target' = c
  /\ UNCHANGED <<reg, seed, jour, kept, place, cur, tx, mine, lost, latest, faults>>

(* governRestoredProductionCopy(): applied, checked and given an instance. *)
Govern ==
  LET rows == Governed(set[target].rows) IN
  /\ target # None /\ set[target].state = "marked" /\ set[target].inst # <<target, 0>>
  /\ Certain /\ Dominated(rows)
  /\ set' = [set EXCEPT ![target].rows = rows, ![target].inst = <<target, 0>>]
  /\ UNCHANGED <<reg, seed, jour, kept, place, cur, tx, mine, lost, target, latest, faults>>

Enroll ==
  /\ target # None /\ set[target].inst = <<target, 0>>
  /\ <<target, 0>> \notin jour.insts /\ Certain
  /\ jour' = [jour EXCEPT !.insts = @ \cup {<<target, 0>>}]
  /\ UNCHANGED <<reg, seed, set, kept, place, cur, tx, mine, lost, target, latest, faults>>

Unmark ==
  /\ target # None /\ set[target].inst = <<target, 0>> /\ <<target, 0>> \in jour.insts
  /\ set' = [set EXCEPT ![target].state = "ready"] /\ target' = None
  /\ UNCHANGED <<reg, seed, jour, kept, place, cur, tx, mine, lost, latest, faults>>

(* The user copies a folder while the program is off.  Of copies made      *)
(* before there is a journal, the first one opened is the data set.        *)
CopyByHand(c, d) ==
  /\ place = "off" /\ reg = "READY" /\ set[c].state = "ready" /\ set[d].state = "none"
  /\ set' = [set EXCEPT ![d] = [set[c] EXCEPT !.file = None]]
  /\ UNCHANGED <<reg, seed, jour, kept, place, cur, tx, mine, lost, target, latest, faults>>
-----------------------------------------------------------------------------
Down ==
  /\ place' = "off" /\ cur' = None /\ tx' = <<>> /\ mine' = {} /\ lost' = FALSE /\ target' = None

Close ==
  /\ place = "up" /\ tx = <<>> /\ target = None /\ (mine = {} \/ lost)
  /\ Down /\ UNCHANGED <<reg, seed, jour, set, kept, latest, faults>>

(* The process dies; within an append, a part of a record may be left, or  *)
(* a whole one that nobody has seen.                                       *)
Halt ==
  /\ (place # "off" \/ target # None) /\ faults < MaxFaults
  /\ Down /\ faults' = faults + 1
  /\ jour' \in {jour}
       \cup (IF place = "up" /\ jour.state = "ready" THEN {[jour EXCEPT !.state = "torn"]} ELSE {})
       \cup (IF place = "up" /\ tx = <<>> /\ mine # {} THEN {Settled(jour, cur, mine)} ELSE {})
       \cup (IF Recreatable THEN {[NoJournal EXCEPT !.state = "partial"]} ELSE {})
  /\ UNCHANGED <<reg, seed, set, kept, latest>>

Init ==
  /\ reg = "none" /\ jour = NoJournal /\ seed = [rows |-> Blank, inst |-> <<First, 0>>]
  /\ set = [c \in Copy |->
       IF c = First THEN [NoCopy EXCEPT !.state = "ready", !.file = <<c, 0>>]
       ELSE NoCopy]
  /\ kept = Blank /\ place = "off" /\ cur = None /\ tx = <<>> /\ mine = {} /\ lost = FALSE
  /\ target = None /\ latest = Blank /\ faults = 0

Next ==
  \/ \E c \in Copy : Start(c) \/ NewVersion(c) \/ Restore(c) \/ \E d \in Copy : CopyByHand(c, d)
  \/ Recreate \/ MarkReady \/ Settle \/ Prepare \/ Rename \/ Initialize \/ Register \/ Refuse
  \/ Working /\ Fresh # {} /\ \E r \in Row : \E v \in Change(r) :
       Write(r, v) \/ \E failed \in BOOLEAN : NoteOnly(r, v, failed)
  \/ AppendFails \/ Commit \/ Rollback \/ Resolve
  \/ Backup \/ Govern \/ Enroll \/ Unmark
  \/ Close \/ Halt

Spec == Init /\ [][Next]_vars
-----------------------------------------------------------------------------
(* The variables have their types.                                         *)
TypeOK ==
  /\ reg \in {"none", "PREPARING", "READY"} /\ jour.state \in {"none", "partial", "ready", "torn"}
  /\ jour.proj \in [Row -> Value] /\ jour.insts \subseteq Inst
  /\ \A c \in Copy : set[c].state \in {"none", "marked", "ready"} /\ set[c].rows \in [Row -> Value]
                     /\ set[c].inst \in Inst /\ set[c].toks \subseteq Tok
  /\ place \in {"off", "settling", "settled", "renaming", "registering", "up"}
  /\ cur \in Copy \cup {None} /\ target \in Copy \cup {None} /\ mine \subseteq Tok /\ lost \in BOOLEAN
  /\ latest \in [Row -> Value] /\ faults \in 0..MaxFaults

(* Whatever copy is open, restored, migrated, put back by hand or opened   *)
(* after a crash of another: a row that is shown is what was last          *)
(* committed in any of them.                                               *)
NothingOldIsShown ==
  place = "up" =>
    \A r \in Row : LET x == set[cur].rows[r] IN x.ver <= 0 \/ x.barred \/ x = latest[r]

(* The records that stay when the journal is settled.                      *)
Kept == SelectSeq(jour.pend, LAMBDA e : \E c \in Copy : set[c].inst = e.inst /\ Found(e, c))

(* The journal, settled against the copies' tokens, knows every committed  *)
(* change at every moment: a commit is never ahead of it, and no crash     *)
(* makes it forget or invent one.                                          *)
JournalKnowsAll ==
  (reg = "READY" /\ jour.state = "ready") =>
    \A r \in Row : Applied(jour.proj, Kept)[r] = latest[r]

(* A crash at any step leaves a copy that can be opened, unless a record   *)
(* was torn: its instance is enrolled before its file can be reached, and  *)
(* it shows nothing that the journal, once settled, would refuse.          *)
NeverLockedOut ==
  (reg = "READY" /\ jour.state = "ready") =>
    /\ \A c \in Copy : set[c].state = "ready" /\ set[c].file # None => Anchored(c)
    /\ \E c \in Copy :
      /\ set[c].state = "ready" /\ Anchored(c)
      /\ \A e \in ToSet(jour.pend) : e.inst = set[c].inst
      /\ \A r \in Row : set[c].rows[r].ver > 0 =>
           \/ set[c].rows[r] = Applied(jour.proj, Kept)[r] \/ set[c].rows[r].barred
==============================================================================
