--------------------------- MODULE ProductionSession ---------------------------
(***************************************************************************)
(* Who has which data: production-session.ts, -location.ts, -lease.ts,     *)
(* -location-lock.ts, -initialize.ts, -prepare.ts, -backup.ts, -restore.ts,*)
(* -startup-restore.ts.  A configuration points to a directory with a data *)
(* set.  A program owns the configuration and the data by leases of the    *)
(* operating system, brings the data up to its schema, and only then moves *)
(* the pointer; it makes and restores backups while nobody writes.         *)
(*                                                                         *)
(* A step is what runs between two awaits, or between two durable writes,  *)
(* since the program may end between any two.  The content of a data set   *)
(* is a number in the database and a number in its memory files, equal in  *)
(* a whole set (validateDatabase); a backup is a directory with a marked   *)
(* payload and, once complete, a receipt.                                  *)
(***************************************************************************)
EXTENDS Integers, FiniteSets

CONSTANTS
  Proc, Conf, ConfOf,   \* programs, configurations, whose is whose
  Dir, First,           \* directories; the one with data at first
  MaxRev, MaxBinds, MaxFaults,   \* bounds
  None

SessionAssumption ==
  /\ ConfOf \in [Proc -> Conf] /\ First \in Dir /\ IsFiniteSet(Dir)
  /\ Conf \cap Dir = {} /\ None \notin Proc \cup Dir
  /\ MaxRev \in Nat /\ MaxBinds \in Nat /\ MaxFaults \in Nat

VARIABLES
  dir,     \* durable: what is in each directory
  loc,     \* durable: location.json of each configuration
  lock,    \* durable: its .location-write-lock
  owner,   \* world: the leases
  at,      \* volatile: where each program is
  binds,   \* history, bound: revisions of locations
  last,    \* history: the content last written to each directory
  hand,    \* history: directories changed by hand
  faults   \* bound

vars == <<dir, loc, lock, owner, at, binds, last, hand, faults>>

NoDir == [man |-> "none", id |-> None, mark |-> FALSE, db |-> -1, body |-> -1,
          old |-> FALSE, receipt |-> None]
Idle == [place |-> "off", fp |-> 0, ready |-> FALSE, how |-> None, data |-> None, tgt |-> None,
         src |-> None, dst |-> None, want |-> None, lost |-> FALSE]

(* inspectProductionDataSet()                                              *)
OpenableMarked(d, id) ==
  dir[d].man = "READY" /\ dir[d].db >= 0 /\ (id # None => dir[d].id = id)

Openable(d, id) ==
  dir[d].man = "READY" /\ ~dir[d].mark /\ dir[d].db >= 0 /\ (id # None => dir[d].id = id)

Content(d) == [id |-> dir[d].id, db |-> dir[d].db, body |-> dir[d].body]
Ready(c) == loc[c].dir # None /\ Openable(loc[c].dir, loc[c].id)
FreeAlways(x) == TRUE

Free(x) == owner[x] = None

Mine(p) == {x \in Conf \cup Dir : owner[x] = p}
Give(p, kept) == [x \in Conf \cup Dir |-> IF x \in Mine(p) \ kept THEN None ELSE owner[x]]
Take(p, S) == [x \in Conf \cup Dir |-> IF x \in S THEN p ELSE owner[x]]

(* assertHeld(), assertCurrent(): loss is noticed before anything is done. *)
HeldOnce(p, place) == at[p].place = place

Held(p, place) == at[p].place = place /\ ~at[p].lost

Same(p) == loc[ConfOf[p]].fp = at[p].fp
Go(p, place) == at' = [at EXCEPT ![p].place = place]
-----------------------------------------------------------------------------
(* openProductionSession(): leave.                                         *)
LeaveHolding(p) ==
  /\ UNCHANGED owner
  /\ at' = [at EXCEPT ![p] = Idle]

Leave(p) ==
  /\ owner' = Give(p, {})
  /\ at' = [at EXCEPT ![p] = Idle]

RecoveredNever(c) == lock[c]

Recovered(c) == FALSE

Start(p) ==
  /\ at[p].place = "off" /\ Free(ConfOf[p])
  /\ owner' = Take(p, {ConfOf[p]})
  /\ lock' = [lock EXCEPT ![ConfOf[p]] = Recovered(ConfOf[p])]
  /\ at' = [at EXCEPT ![p] = [Idle EXCEPT !.place = "choose", !.fp = loc[ConfOf[p]].fp,
                                          !.ready = Ready(ConfOf[p])]]
  /\ UNCHANGED <<dir, loc, binds, last, hand, faults>>

Cancel(p) == at[p].place = "choose" /\ Leave(p) /\ UNCHANGED <<dir, loc, lock, binds, last, hand, faults>>

(* The data pointed to, or (forceSelection, recovery) other data.          *)
OpenCurrent(p) ==
  /\ Held(p, "choose") /\ at[p].ready /\ Same(p)
  /\ LET l == loc[ConfOf[p]] IN
     /\ Free(l.dir) /\ Openable(l.dir, l.id)
     /\ owner' = Take(p, {l.dir})
     /\ at' = [at EXCEPT ![p].place = "prepare", ![p].how = "open", ![p].tgt = l.dir]
  /\ UNCHANGED <<dir, loc, lock, binds, last, hand, faults>>

OpenOther(p, d, relocate) ==
  /\ Held(p, "choose") /\ Same(p)
  /\ Free(d)
  /\ relocate => loc[ConfOf[p]].id # None
  /\ Openable(d, IF relocate THEN loc[ConfOf[p]].id ELSE None)
  /\ owner' = Take(p, {d})
  /\ at' = [at EXCEPT ![p].place = "prepare", ![p].how = "open", ![p].tgt = d, ![p].ready = FALSE]
  /\ UNCHANGED <<dir, loc, lock, binds, last, hand, faults>>
-----------------------------------------------------------------------------
(* initializeProductionDataSet(): a directory, its database, its manifest. *)
Maintaining(p) == Held(p, "quiet") /\ Same(p)

Create(p, d) ==
  /\ (Held(p, "choose") /\ Same(p)) \/ Maintaining(p)
  /\ Free(d) /\ dir[d] = NoDir
  /\ owner' = Take(p, {d})
  /\ dir' = [dir EXCEPT ![d].man = "PREPARING", ![d].id = d]
  /\ at' = [at EXCEPT ![p].place = "create", ![p].tgt = d, ![p].ready = FALSE,
                      ![p].how = IF at[p].place = "quiet" THEN "switch" ELSE "open"]
  /\ UNCHANGED <<loc, lock, binds, last, hand, faults>>

CreateDatabase(p) ==
  /\ Held(p, "create") /\ dir[at[p].tgt].db = -1
  /\ dir' = [dir EXCEPT ![at[p].tgt].db = 0, ![at[p].tgt].body = 0]
  /\ last' = [last EXCEPT ![at[p].tgt] = 0]
  /\ UNCHANGED <<loc, lock, owner, at, binds, hand, faults>>

CreateReady(p) ==
  /\ Held(p, "create") /\ dir[at[p].tgt].db >= 0
  /\ dir' = [dir EXCEPT ![at[p].tgt].man = "READY"]
  /\ Go(p, "bind")
  /\ UNCHANGED <<loc, lock, owner, binds, last, hand, faults>>
-----------------------------------------------------------------------------
(* createProductionBackup() of src into dst: the marker, the database, the *)
(* files, the receipt.                                                     *)
WholeUnchecked(c) == TRUE

Whole(c) == c.db = c.body

(* verifyProductionBackup()                                                *)
VerifiedReceipt(b) == dir[b].receipt # None

Verified(b) ==
  /\ dir[b].receipt # None /\ Content(b) = dir[b].receipt /\ Whole(Content(b))

BackupBegin(p, from, src, dst, then) ==
  /\ Held(p, from) /\ Free(dst) /\ dir[dst] = NoDir /\ Openable(src, None) /\ Whole(Content(src))
  /\ owner' = Take(p, {dst})
  /\ dir' = [dir EXCEPT ![dst].mark = TRUE, ![dst].man = "READY", ![dst].id = dir[src].id]
  /\ at' = [at EXCEPT ![p].place = "copy", ![p].src = src, ![p].dst = dst,
                      ![p].want = [what |-> Content(src), then |-> then, old |-> dir[src].old]]
  /\ UNCHANGED <<loc, lock, binds, last, hand, faults>>

CopyDatabase(p) ==
  /\ Held(p, "copy") /\ dir[at[p].dst].db = -1
  /\ at[p].want.then # "restored" => dir[at[p].src].db = at[p].want.what.db
  /\ dir' = [dir EXCEPT ![at[p].dst].db = dir[at[p].src].db, ![at[p].dst].old = at[p].want.old]
  /\ last' = [last EXCEPT ![at[p].dst] = dir[at[p].src].db]
  /\ UNCHANGED <<loc, lock, owner, at, binds, hand, faults>>

CopyBodies(p) ==
  /\ Held(p, "copy") /\ dir[at[p].dst].db >= 0 /\ dir[at[p].dst].body = -1
  /\ at[p].want.then # "restored" => dir[at[p].src].body = at[p].want.what.body
  /\ dir' = [dir EXCEPT ![at[p].dst].body = dir[at[p].src].body]
  /\ UNCHANGED <<loc, lock, owner, at, binds, last, hand, faults>>

CopiedUnchecked(p) == TRUE

Copied(p) ==
  /\ Content(at[p].src) = at[p].want.what
  /\ Content(at[p].dst) = at[p].want.what

BackupEnd(p) ==
  /\ Held(p, "copy") /\ at[p].want.then # "restored" /\ dir[at[p].dst].body >= 0 /\ Copied(p)
  /\ dir' = [dir EXCEPT ![at[p].dst].receipt = at[p].want.what]
  /\ owner' = [owner EXCEPT ![at[p].dst] = None]
  /\ at' = [at EXCEPT ![p].place = at[p].want.then]
  /\ UNCHANGED <<loc, lock, binds, last, hand, faults>>
-----------------------------------------------------------------------------
(* prepareProductionData(): up to date, or brought up to date by way of a  *)
(* backup, whose migrated copy replaces the database.                      *)
Prepared(p) ==
  /\ Held(p, "prepare") /\ ~dir[at[p].tgt].old
  /\ Openable(at[p].tgt, None) /\ Same(p)
  /\ IF at[p].ready
       THEN at' = [at EXCEPT ![p].place = "session", ![p].data = at[p].tgt]
       ELSE Go(p, "bind")
  /\ UNCHANGED <<dir, loc, lock, owner, binds, last, hand, faults>>

UpgradeBackup(p, b) ==
  /\ at[p].place = "prepare" /\ dir[at[p].tgt].old
  /\ BackupBegin(p, "prepare", at[p].tgt, b, "replace")

UnchangedSinceAny(p) == TRUE

UnchangedSince(p) == Content(at[p].tgt) = dir[at[p].dst].receipt

Replace(p) ==
  /\ Held(p, "replace") /\ Verified(at[p].dst) /\ UnchangedSince(p)
  /\ dir' = [dir EXCEPT ![at[p].tgt].db = dir[at[p].dst].db, ![at[p].tgt].old = FALSE]
  /\ Go(p, "prepare")
  /\ UNCHANGED <<loc, lock, owner, binds, last, hand, faults>>
-----------------------------------------------------------------------------
(* bind(): under the lock, the pointer is replaced if it is still the one  *)
(* that was read.                                                          *)
BindLock(p) ==
  /\ Held(p, "bind") /\ ~lock[ConfOf[p]]
  /\ lock' = [lock EXCEPT ![ConfOf[p]] = TRUE]
  /\ Go(p, "locked")
  /\ UNCHANGED <<dir, loc, owner, binds, last, hand, faults>>

Bind(p) ==
  /\ Held(p, "locked") /\ Same(p) /\ Openable(at[p].tgt, None) /\ binds < MaxBinds
  /\ loc' = [loc EXCEPT ![ConfOf[p]] =
       [dir |-> at[p].tgt, id |-> dir[at[p].tgt].id, fp |-> binds + 1]]
  /\ binds' = binds + 1
  /\ Go(p, "bound")
  /\ UNCHANGED <<dir, lock, owner, last, hand, faults>>

(* The lock is removed, or stays if that fails: the pointer has moved.     *)
BindEnd(p) ==
  /\ at[p].place = "bound"
  /\ lock' \in {[lock EXCEPT ![ConfOf[p]] = FALSE], lock}
  /\ at' = IF at[p].how = "open"
             THEN [at EXCEPT ![p].place = "session", ![p].data = at[p].tgt, ![p].fp = loc[ConfOf[p]].fp]
             ELSE [at EXCEPT ![p].place = "done"]
  /\ UNCHANGED <<dir, loc, owner, binds, last, hand, faults>>
-----------------------------------------------------------------------------
(* The session: the application writes; for maintenance it stops, and the  *)
(* program ends afterwards.                                                *)
Write(p) ==
  /\ Held(p, "session") /\ dir[at[p].data].db < MaxRev /\ Whole(Content(at[p].data))
  /\ dir' = [dir EXCEPT ![at[p].data].db = @ + 1, ![at[p].data].body = @ + 1]
  /\ last' = [last EXCEPT ![at[p].data] = @ + 1]
  /\ UNCHANGED <<loc, lock, owner, at, binds, hand, faults>>

Quiesce(p) ==
  /\ Held(p, "session") /\ Go(p, "quiet")
  /\ UNCHANGED <<dir, loc, lock, owner, binds, last, hand, faults>>

Backup(p, b, then) == Maintaining(p) /\ BackupBegin(p, "quiet", at[p].data, b, then)

(* restoreProductionBackup(): a marked copy of the approved backup, which  *)
(* is verified before and after; then what the journal knows is applied    *)
(* (RestoredCopy) and the mark removed.                                    *)
RestoreBegin(p, from, b, d, how) ==
  /\ Held(p, from) /\ Free(b) /\ Free(d) /\ b # d /\ dir[d] = NoDir /\ Verified(b)
  /\ owner' = Take(p, {b, d, ConfOf[p]})
  /\ dir' = [dir EXCEPT ![d].mark = TRUE, ![d].man = "READY", ![d].id = dir[b].id]
  /\ at' = [at EXCEPT ![p].place = "copy", ![p].src = b, ![p].dst = d, ![p].how = how,
                      ![p].want = [what |-> Content(b), then |-> "restored", old |-> dir[b].old]]
  /\ UNCHANGED <<loc, lock, binds, last, hand, faults>>

Restore(p, b, d) == at[p].place = "quiet" /\ Same(p) /\ RestoreBegin(p, "quiet", b, d, "switch")

(* Relocation goes on with the backup just made.                           *)
Relocate(p, d) ==
  /\ at[p].place = "relocate" /\ Same(p)
  /\ RestoreBegin(p, "relocate", at[p].dst, d, "switch")

RestoreAtStartup(p, b, d) == Free(ConfOf[p]) /\ RestoreBegin(p, "off", b, d, "open")

RestoreEnd(p) ==
  /\ Held(p, "copy") /\ at[p].want.then = "restored" /\ Copied(p) /\ Verified(at[p].src)
  /\ at[p].how = "switch" => Same(p)
  /\ dir' = [dir EXCEPT ![at[p].dst].mark = FALSE]
  /\ IF at[p].how = "switch"
       THEN /\ owner' = [owner EXCEPT ![at[p].src] = None, ![at[p].dst] = None]
            /\ at' = [at EXCEPT ![p].place = "restored"]
       ELSE Leave(p)
  /\ UNCHANGED <<loc, lock, binds, last, hand, faults>>

(* select(): other data, or the copy just made.                            *)
Select(p, d) ==
  /\ Maintaining(p) \/ (Held(p, "restored") /\ Same(p) /\ d = at[p].dst)
  /\ Free(d) /\ Openable(d, None)
  /\ owner' = Take(p, {d})
  /\ at' = [at EXCEPT ![p].place = "prepare", ![p].how = "switch", ![p].tgt = d, ![p].ready = FALSE]
  /\ UNCHANGED <<dir, loc, lock, binds, last, hand, faults>>

Release(p) ==
  /\ at[p].place \in {"session", "quiet", "done"} /\ Leave(p)
  /\ UNCHANGED <<dir, loc, lock, binds, last, hand, faults>>
-----------------------------------------------------------------------------
(* A step fails: what was begun stays where it is, marked or preparing;    *)
(* the lock is removed if it was taken; leases are given back.             *)
Fail(p) ==
  /\ at[p].place \notin {"off", "session", "quiet", "done", "bound"}
  /\ at[p].lost \/ faults < MaxFaults
  /\ faults' = IF at[p].lost THEN faults ELSE faults + 1
  /\ lock' = IF at[p].place = "locked" THEN [lock EXCEPT ![ConfOf[p]] = FALSE] ELSE lock
  /\ IF at[p].data = None
       THEN Leave(p)
       ELSE /\ owner' = Give(p, {ConfOf[p], at[p].data})
            /\ at' = [at EXCEPT ![p] = [Idle EXCEPT !.place = "failed", !.data = at[p].data,
                                                    !.fp = at[p].fp, !.lost = at[p].lost]]
  /\ UNCHANGED <<dir, loc, binds, last, hand>>

Failed(p) ==
  /\ at[p].place = "failed" /\ Leave(p)
  /\ UNCHANGED <<dir, loc, lock, binds, last, hand, faults>>

(* The program ends, or the system takes a lease from it.                  *)
Crash(p) ==
  /\ at[p].place # "off" /\ faults < MaxFaults
  /\ faults' = faults + 1
  /\ Leave(p)
  /\ UNCHANGED <<dir, loc, lock, binds, last, hand>>

Lose(p, x) ==
  /\ x \in Mine(p) /\ faults < MaxFaults /\ at[p].place # "bound"
  /\ faults' = faults + 1
  /\ owner' = [owner EXCEPT ![x] = None]
  /\ at' = [at EXCEPT ![p].lost = TRUE]
  /\ UNCHANGED <<dir, loc, lock, binds, last, hand>>

Quit(p) ==
  /\ at[p].lost /\ at[p].place \in {"choose", "session", "quiet", "done"} /\ Leave(p)
  /\ UNCHANGED <<dir, loc, lock, binds, last, hand, faults>>

(* A file is changed by hand or by another tool (a database that is being  *)
(* copied is locked), and a new version of the program wants another       *)
(* schema.                                                                 *)
Locked(d) == \E p \in Proc : at[p].place = "copy" /\ at[p].src = d /\ at[p].want.then # "restored"

Touch(d) ==
  /\ faults < MaxFaults /\ dir[d].db >= 0 /\ dir[d].body >= 0
  /\ faults' = faults + 1 /\ hand' = hand \cup {d}
  /\ \/ ~Locked(d) /\ dir[d].db < MaxRev
        /\ dir' = [dir EXCEPT ![d].db = @ + 1] /\ last' = [last EXCEPT ![d] = dir[d].db + 1]
     \/ dir[d].body < MaxRev /\ dir' = [dir EXCEPT ![d].body = @ + 1] /\ UNCHANGED last
  /\ UNCHANGED <<loc, lock, owner, at, binds>>

NewVersion ==
  /\ \A p \in Proc : at[p].place = "off"
  /\ \A d \in Dir : ~dir[d].old
  /\ faults < MaxFaults /\ faults' = faults + 1
  /\ dir' = [d \in Dir |-> [dir[d] EXCEPT !.old = dir[d].db >= 0]]
  /\ UNCHANGED <<loc, lock, owner, at, binds, last, hand>>

Init ==
  /\ dir = [d \in Dir |-> IF d # First THEN NoDir
             ELSE [NoDir EXCEPT !.man = "READY", !.id = First, !.db = 0, !.body = 0]]
  /\ loc = [c \in Conf |-> [dir |-> None, id |-> None, fp |-> 0]]
  /\ lock = [c \in Conf |-> FALSE]
  /\ owner = [x \in Conf \cup Dir |-> None]
  /\ at = [p \in Proc |-> Idle]
  /\ binds = 0 /\ last = [d \in Dir |-> 0] /\ hand = {} /\ faults = 0

Opening(p) ==
  \/ Start(p) \/ Cancel(p) \/ OpenCurrent(p) \/ Prepared(p) \/ Replace(p)
  \/ \E d \in Dir : Create(p, d) \/ UpgradeBackup(p, d) \/ \E r \in BOOLEAN : OpenOther(p, d, r)
  \/ CreateDatabase(p) \/ CreateReady(p) \/ BindLock(p) \/ Bind(p) \/ BindEnd(p)

Maintenance(p) ==
  \/ Write(p) \/ Quiesce(p) \/ Release(p)
  \/ CopyDatabase(p) \/ CopyBodies(p) \/ BackupEnd(p) \/ RestoreEnd(p)
  \/ \E d \in Dir : Select(p, d) \/ Relocate(p, d)
  \/ \E b \in Dir, then \in {"quiet", "relocate"} : Backup(p, b, then)
  \/ \E b, d \in Dir : Restore(p, b, d) \/ RestoreAtStartup(p, b, d)

Trouble(p) ==
  \/ Fail(p) \/ Failed(p) \/ Crash(p) \/ Quit(p)
  \/ \E x \in Conf \cup Dir : Lose(p, x)

Next ==
  \/ \E p \in Proc : Opening(p) \/ Maintenance(p) \/ Trouble(p)
  \/ \E d \in Dir : Touch(d)
  \/ NewVersion

Spec == Init /\ [][Next]_vars
-----------------------------------------------------------------------------
(* What is in the directories and the shape of the programs' places.       *)
TypeOK ==
  /\ \A d \in Dir : dir[d].db \in -1..MaxRev /\ dir[d].body \in -1..MaxRev
  /\ \A d \in Dir : dir[d].man # "none" <=> dir[d].id # None
  /\ \A p \in Proc : at[p].place = "off" => Mine(p) = {} /\ at[p] = Idle
  /\ \A c \in Conf : loc[c].fp <= binds

(* The pointer never leads to data that are not there whole: a copy that   *)
(* was only begun, a data set still being made, a restored copy to which   *)
(* the later deletions were not yet applied (production-restore.ts:93,     *)
(* production-session.ts:183).                                             *)
PointerIsWhole ==
  \A c \in Conf : loc[c].dir # None =>
    /\ dir[loc[c].dir].man = "READY" /\ ~dir[loc[c].dir].mark /\ dir[loc[c].dir].id = loc[c].id
    /\ loc[c].dir \in hand \/ dir[loc[c].dir].db = dir[loc[c].dir].body

(* Two programs never work on the same data, whatever configurations they  *)
(* have, as long as neither has lost a lease; nor is a data set at work    *)
(* while it is copied (production-lease.ts:23).                            *)
OneProgram ==
  \A p, q \in Proc : p # q /\ ~at[p].lost /\ ~at[q].lost /\ at[p].data # None =>
    /\ at[q].data # at[p].data
    /\ at[q].place \in {"prepare", "replace", "bind", "locked"} => at[q].tgt # at[p].data
    /\ at[q].place = "copy" => at[p].data \notin {at[q].src, at[q].dst}

(* A backup with a receipt that nobody touched holds one state of the data *)
(* set, the files and the database of the same moment (production-backup.  *)
(* ts:298-308); and a copy without a mark is such a state too.             *)
BackupIsWhole ==
  \A d \in Dir \ hand :
    dir[d].receipt # None =>
      dir[d].mark /\ Content(d) = dir[d].receipt /\ dir[d].db = dir[d].body

(* A copy without a mark of being made holds such a state as well, however *)
(* its copying was interrupted (production-backup.ts).                     *)
CopyIsWhole ==
  \A d \in Dir \ hand :
    dir[d].man = "READY" /\ ~dir[d].mark => dir[d].db = dir[d].body

(* What was written to a directory stays there: an upgrade puts back what  *)
(* the database held at that moment, never an earlier state                *)
(* (production-prepare.ts:123, "No older snapshot can overwrite            *)
(* intervening user corrections/deletions").                               *)
WritesStay == \A d \in Dir : dir[d].db >= 0 => dir[d].db = last[d]

(* A lock that an earlier program left behind stops nobody: a program that *)
(* opens its data finds none when it moves the pointer                     *)
(* (production-location-lock.ts:5).                                        *)
LockIsRecovered ==
  \A p \in Proc : at[p].place = "bind" /\ at[p].how = "open" /\ ~at[p].lost => ~lock[ConfOf[p]]

(* The pointer moves only by the program that owns its configuration and   *)
(* the data, to data of the program's schema, and nothing else moved it    *)
(* since that program looked (production-session.ts:131, 215).             *)
MovedByOwnerStep ==
  \A c \in Conf : loc'[c] # loc[c] =>
    \E p \in Proc : /\ ConfOf[p] = c /\ owner[c] = p /\ owner[loc'[c].dir] = p
                    /\ ~dir[loc'[c].dir].old /\ at[p].fp = loc[c].fp

MovedByOwner == [][MovedByOwnerStep]_vars
=============================================================================
