------------------------ MODULE ProductionSessionProofs ------------------------
(***************************************************************************)
(* Proofs about ProductionSession, for every number of programs,           *)
(* configurations, directories and faults: who may write to a data set,    *)
(* where a pointer may lead, and what is in a backup.                      *)
(***************************************************************************)
EXTENDS ProductionSession, TLAPS

(***************************************************************************)
(* The inductive invariant.                                                *)
(***************************************************************************)
(* The shapes of a directory, of a pointer and of where a program is.      *)
Contents == [id : Dir \cup {None}, db : -1..MaxRev, body : -1..MaxRev]
DirRow ==
  [man : {"none", "PREPARING", "READY"}, id : Dir \cup {None}, mark : BOOLEAN,
   db : -1..MaxRev, body : -1..MaxRev, old : BOOLEAN, receipt : Contents \cup {None}]
LocRow == [dir : Dir \cup {None}, id : Dir \cup {None}, fp : Nat]
Wanted == [what : Contents, then : {"quiet", "relocate", "replace", "restored"}, old : BOOLEAN]
AtRow ==
  [place : {"off", "choose", "prepare", "create", "copy", "replace", "bind", "locked", "bound",
            "session", "quiet", "relocate", "restored", "done", "failed"},
   fp : Nat, ready : BOOLEAN, how : {None, "open", "switch"}, data : Dir \cup {None},
   tgt : Dir \cup {None}, src : Dir \cup {None}, dst : Dir \cup {None},
   want : Wanted \cup {None}, lost : BOOLEAN]

Shapes ==
  /\ dir \in [Dir -> DirRow] /\ loc \in [Conf -> LocRow] /\ lock \in [Conf -> BOOLEAN]
  /\ owner \in [Conf \cup Dir -> Proc \cup {None}] /\ at \in [Proc -> AtRow]
  /\ binds \in Nat /\ last \in [Dir -> -1..MaxRev] /\ hand \subseteq Dir

(* A program that lost nothing has the leases of what it works on.         *)
Owns(p) ==
  LET a == at[p] IN
  /\ a.place # "off" => owner[ConfOf[p]] = p
  /\ a.data # None => owner[a.data] = p
  /\ (a.place \in {"prepare", "create", "replace", "bind", "locked", "bound"}
      \/ (a.place = "copy" /\ a.want.then = "replace"))
       => a.tgt # None /\ owner[a.tgt] = p
  /\ a.place = "copy" =>
       /\ a.src # None /\ owner[a.src] = p /\ a.dst # None /\ owner[a.dst] = p
       /\ a.src # a.dst /\ a.want \in Wanted
       /\ a.want.then = "restored" => a.src # a.data
  /\ (a.place \in {"session", "quiet", "relocate", "restored"}
      \/ (a.place = "copy" /\ a.want.then \in {"quiet", "relocate"})
      \/ (a.place = "copy" /\ a.want.then = "restored" /\ a.how = "switch"))
       => a.data # None
  /\ a.place \in {"replace", "relocate", "restored"} => a.dst # None

(* What it finds in the directories it works on, since nobody else changes *)
(* what it has leased.                                                     *)
Finds(p) ==
  LET a == at[p] IN
  /\ a.data # None => dir[a.data].man = "READY" /\ ~dir[a.data].mark
  /\ (a.place \in {"replace", "bind", "locked", "bound"}
      \/ (a.place = "copy" /\ a.want.then = "replace"))
       => dir[a.tgt].man = "READY" /\ ~dir[a.tgt].mark
  /\ a.place \in {"create", "bind", "locked", "bound"} => ~dir[a.tgt].old
  /\ a.place = "create" => dir[a.tgt].man = "PREPARING" /\ ~dir[a.tgt].mark
  /\ a.place = "copy" =>
       /\ dir[a.dst].man = "READY" /\ dir[a.dst].mark /\ dir[a.dst].receipt = None
       /\ Whole(a.want.what)

(* The lock of its configuration is gone since it started, until it takes  *)
(* it itself.                                                              *)
Unlocked(p) ==
  LET a == at[p] IN
  (\/ a.place = "choose"
   \/ a.how = "open" /\ a.place \in {"prepare", "create", "replace", "bind"}
   \/ a.how = "open" /\ a.place = "copy" /\ a.want.then = "replace")
     => ~lock[ConfOf[p]]

Working == \A p \in Proc : ~at[p].lost => Owns(p) /\ Finds(p) /\ Unlocked(p)

(* A program that is off has nothing; one that moved the pointer has lost  *)
(* nothing; one that found data to open has a pointer.                     *)
Resting ==
  \A p \in Proc :
    /\ at[p].place = "off" => at[p] = Idle /\ Mine(p) = {}
    /\ at[p].place = "bound" => ~at[p].lost
    /\ at[p].ready => loc[ConfOf[p]].dir # None

(* What is in the directories: a data set or a copy has the name of a data *)
(* set, what has no mark is whole, a backup is what its receipt says, and  *)
(* a pointer leads to a data set without a mark.                           *)
Kept ==
  /\ \A d \in Dir : dir[d].man # "none" <=> dir[d].id # None
  /\ \A d \in Dir \ hand : ~dir[d].mark => dir[d].db = dir[d].body
  /\ \A d \in Dir : dir[d].receipt # None => dir[d].man = "READY"
  /\ \A d \in Dir : dir[d].receipt # None \/ (dir[d].man = "READY" /\ ~dir[d].mark) => dir[d].db >= 0
  /\ BackupIsWhole /\ WritesStay
  /\ \A c \in Conf : loc[c].dir # None =>
       dir[loc[c].dir].man = "READY" /\ ~dir[loc[c].dir].mark /\ dir[loc[c].dir].id = loc[c].id
  /\ \A c \in Conf : loc[c].fp <= binds

SessionInv == Shapes /\ Working /\ Resting /\ Kept

(***************************************************************************)
(* A step of one program.                                                  *)
(***************************************************************************)
Acts(p) == Opening(p) \/ Maintenance(p) \/ Trouble(p)

(* What it leaves to another program: its place, its leases, what is in    *)
(* the directories it has leased; its lock is not taken.                   *)
Leaves(p, q) ==
  /\ at'[q] = at[q]
  /\ \A x \in Conf \cup Dir : owner[x] = q => owner'[x] = q
  /\ \A x \in Conf \cup Dir : owner'[x] = q => owner[x] = q
  /\ \A d \in Dir : owner[d] = q => dir'[d] = dir[d]
  /\ \A c \in Conf : owner[c] = q /\ ~lock[c] => ~lock'[c]

(* A program takes only what is free and changes only what it has leased.  *)
LEMMA OthersKeep ==
  ASSUME SessionAssumption, SessionInv, NEW p \in Proc, NEW q \in Proc, p # q, Acts(p)
  PROVE  Leaves(p, q)
<1>0. /\ dir \in [Dir -> DirRow] /\ lock \in [Conf -> BOOLEAN] /\ loc \in [Conf -> LocRow]
      /\ owner \in [Conf \cup Dir -> Proc \cup {None}] /\ at \in [Proc -> AtRow]
      /\ ConfOf \in [Proc -> Conf] /\ Conf \cap Dir = {} /\ None \notin Proc \cup Dir
      /\ p \in Proc /\ q \in Proc /\ p # q
      /\ at[p].ready => loc[ConfOf[p]].dir # None
      /\ at[p].place = "bound" => ~at[p].lost
  BY DEF SessionAssumption, SessionInv, Shapes, Resting
<1>a. ~at[p].lost => Owns(p)
  BY DEF SessionInv, Working
<1> USE DEF Leaves, Owns, Free, Mine, DirRow, LocRow, AtRow
<1>1. ASSUME Start(p) PROVE Leaves(p, q)
  BY <1>1, <1>0, <1>a DEF Start, Take, Idle
<1>2. ASSUME Cancel(p) PROVE Leaves(p, q)
  BY <1>2, <1>0, <1>a DEF Cancel, Leave, Give, Idle
<1>3. ASSUME OpenCurrent(p) PROVE Leaves(p, q)
  BY <1>3, <1>0, <1>a DEF OpenCurrent, Held, Take, Same
<1>4. ASSUME NEW d \in Dir, NEW r \in BOOLEAN, OpenOther(p, d, r) PROVE Leaves(p, q)
  BY <1>4, <1>0, <1>a DEF OpenOther, Held, Take
<1>5. ASSUME NEW d \in Dir, Create(p, d) PROVE Leaves(p, q)
  BY <1>5, <1>0, <1>a DEF Create, Maintaining, Held, Take
<1>6. ASSUME CreateDatabase(p) PROVE Leaves(p, q)
  BY <1>6, <1>0, <1>a DEF CreateDatabase, Held
<1>7. ASSUME CreateReady(p) PROVE Leaves(p, q)
  BY <1>7, <1>0, <1>a DEF CreateReady, Held, Go
<1>8. ASSUME Prepared(p) PROVE Leaves(p, q)
  BY <1>8, <1>0, <1>a DEF Prepared, Held, Go
<1>9. ASSUME NEW d \in Dir, UpgradeBackup(p, d) PROVE Leaves(p, q)
  BY <1>9, <1>0, <1>a DEF UpgradeBackup, BackupBegin, Held, Take
<1>10. ASSUME Replace(p) PROVE Leaves(p, q)
  BY <1>10, <1>0, <1>a DEF Replace, Held, Go
<1>11. ASSUME BindLock(p) PROVE Leaves(p, q)
  BY <1>11, <1>0, <1>a DEF BindLock, Held, Go
<1>12. ASSUME Bind(p) PROVE Leaves(p, q)
  BY <1>12, <1>0, <1>a DEF Bind, Held, Go
<1>13. ASSUME BindEnd(p) PROVE Leaves(p, q)
  BY <1>13, <1>0, <1>a DEF BindEnd
<1>14. ASSUME Write(p) PROVE Leaves(p, q)
  BY <1>14, <1>0, <1>a DEF Write, Held
<1>15. ASSUME Quiesce(p) PROVE Leaves(p, q)
  BY <1>15, <1>0, <1>a DEF Quiesce, Held, Go
<1>16. ASSUME Release(p) PROVE Leaves(p, q)
  BY <1>16, <1>0, <1>a DEF Release, Leave, Give, Idle
<1>17. ASSUME CopyDatabase(p) PROVE Leaves(p, q)
  BY <1>17, <1>0, <1>a DEF CopyDatabase, Held
<1>18. ASSUME CopyBodies(p) PROVE Leaves(p, q)
  BY <1>18, <1>0, <1>a DEF CopyBodies, Held
<1>19. ASSUME BackupEnd(p) PROVE Leaves(p, q)
  BY <1>19, <1>0, <1>a DEF BackupEnd, Held
<1>20. ASSUME RestoreEnd(p) PROVE Leaves(p, q)
  <2>1. /\ at[p].dst \in Dir /\ owner[at[p].dst] = p /\ owner[at[p].src] = p /\ at[p].src \in Dir
        /\ dir' = [dir EXCEPT ![at[p].dst].mark = FALSE] /\ lock' = lock
    BY <1>20, <1>0, <1>a DEF RestoreEnd, Held
  <2>2. \A d \in Dir : owner[d] = q => dir'[d] = dir[d]
    BY <2>1, <1>0
  <2>3. CASE at[p].how = "switch"
    BY <1>20, <1>0, <2>1, <2>2, <2>3 DEF RestoreEnd
  <2>4. CASE at[p].how # "switch"
    BY <1>20, <1>0, <2>1, <2>2, <2>4 DEF RestoreEnd, Leave, Give, Idle
  <2>5. QED
    BY <2>3, <2>4
<1>21. ASSUME NEW d \in Dir, Select(p, d) PROVE Leaves(p, q)
  BY <1>21, <1>0, <1>a DEF Select, Maintaining, Held, Take
<1>22. ASSUME NEW d \in Dir, Relocate(p, d) PROVE Leaves(p, q)
  BY <1>22, <1>0, <1>a DEF Relocate, RestoreBegin, Held, Take
<1>23. ASSUME NEW b \in Dir, NEW then \in {"quiet", "relocate"}, Backup(p, b, then)
       PROVE  Leaves(p, q)
  BY <1>23, <1>0, <1>a DEF Backup, BackupBegin, Maintaining, Held, Take
<1>24. ASSUME NEW b \in Dir, NEW d \in Dir, Restore(p, b, d) PROVE Leaves(p, q)
  BY <1>24, <1>0, <1>a DEF Restore, RestoreBegin, Held, Take
<1>25. ASSUME NEW b \in Dir, NEW d \in Dir, RestoreAtStartup(p, b, d) PROVE Leaves(p, q)
  BY <1>25, <1>0, <1>a DEF RestoreAtStartup, RestoreBegin, Held, Take
<1>26. ASSUME Fail(p) PROVE Leaves(p, q)
  BY <1>26, <1>0, <1>a DEF Fail, Leave, Give, Idle
<1>27. ASSUME Failed(p) PROVE Leaves(p, q)
  BY <1>27, <1>0, <1>a DEF Failed, Leave, Give, Idle
<1>28. ASSUME Crash(p) PROVE Leaves(p, q)
  BY <1>28, <1>0, <1>a DEF Crash, Leave, Give, Idle
<1>29. ASSUME Quit(p) PROVE Leaves(p, q)
  BY <1>29, <1>0, <1>a DEF Quit, Leave, Give, Idle
<1>30. ASSUME NEW x \in Conf \cup Dir, Lose(p, x) PROVE Leaves(p, q)
  BY <1>30, <1>0, <1>a DEF Lose
<1>31. QED
  BY <1>1, <1>2, <1>3, <1>4, <1>5, <1>6, <1>7, <1>8, <1>9, <1>10, <1>11, <1>12, <1>13, <1>14,
     <1>15, <1>16, <1>17, <1>18, <1>19, <1>20, <1>21, <1>22, <1>23, <1>24, <1>25, <1>26, <1>27,
     <1>28, <1>29, <1>30 DEF Acts, Opening, Maintenance, Trouble

(* So what another program owns, finds and has unlocked stays.             *)
LEMMA OthersStay ==
  ASSUME SessionAssumption, SessionInv, NEW p \in Proc, NEW q \in Proc, p # q, Acts(p)
  PROVE  ~at'[q].lost => Owns(q)' /\ Finds(q)' /\ Unlocked(q)'
<1>1. Leaves(p, q)
  BY OthersKeep
<1>2. /\ dir \in [Dir -> DirRow] /\ lock \in [Conf -> BOOLEAN]
      /\ at \in [Proc -> AtRow] /\ ConfOf \in [Proc -> Conf] /\ None \notin Dir
  BY DEF SessionAssumption, SessionInv, Shapes
<1>3. SUFFICES ASSUME ~at[q].lost PROVE Owns(q)' /\ Finds(q)' /\ Unlocked(q)'
  BY <1>1 DEF Leaves
<1>4. Owns(q) /\ Finds(q) /\ Unlocked(q)
  BY <1>3 DEF SessionInv, Working
<1>5. Owns(q)'
  BY <1>1, <1>2, <1>4 DEF Leaves, Owns, AtRow
<1>6. Finds(q)'
  BY <1>1, <1>2, <1>4 DEF Leaves, Owns, Finds, AtRow, Whole
<1>7. Unlocked(q)'
  BY <1>1, <1>2, <1>4 DEF Leaves, Owns, Unlocked, AtRow
<1>8. QED
  BY <1>5, <1>6, <1>7

(* A program that goes on has taken the leases of what it goes on with.    *)
LEMMA OwnsKept ==
  ASSUME SessionAssumption, SessionInv, NEW p \in Proc, Acts(p)
  PROVE  ~at'[p].lost => Owns(p)'
<1>0. /\ dir \in [Dir -> DirRow] /\ lock \in [Conf -> BOOLEAN] /\ loc \in [Conf -> LocRow]
      /\ owner \in [Conf \cup Dir -> Proc \cup {None}] /\ at \in [Proc -> AtRow]
      /\ ConfOf \in [Proc -> Conf] /\ Conf \cap Dir = {} /\ None \notin Proc \cup Dir
      /\ at[p].ready => loc[ConfOf[p]].dir # None
      /\ at[p].place = "bound" => ~at[p].lost
      /\ at[p].place = "off" => at[p] = Idle
  BY DEF SessionAssumption, SessionInv, Shapes, Resting
<1>a. ~at[p].lost => Owns(p) /\ Finds(p) /\ Unlocked(p)
  BY DEF SessionInv, Working
<1> USE DEF Owns, Free, Mine, DirRow, LocRow, AtRow, Idle, Wanted, Contents, Content
<1>1. ASSUME Start(p) PROVE ~at'[p].lost => Owns(p)'
  BY <1>1, <1>0, <1>a DEF Start, Take, Idle
<1>2. ASSUME Cancel(p) PROVE ~at'[p].lost => Owns(p)'
  BY <1>2, <1>0, <1>a DEF Cancel, Leave, Give, Idle
<1>3. ASSUME OpenCurrent(p) PROVE ~at'[p].lost => Owns(p)'
  BY <1>3, <1>0, <1>a DEF OpenCurrent, Held, Take, Same
<1>4. ASSUME NEW d \in Dir, NEW r \in BOOLEAN, OpenOther(p, d, r) PROVE ~at'[p].lost => Owns(p)'
  BY <1>4, <1>0, <1>a DEF OpenOther, Held, Take
<1>5. ASSUME NEW d \in Dir, Create(p, d) PROVE ~at'[p].lost => Owns(p)'
  BY <1>5, <1>0, <1>a DEF Create, Maintaining, Held, Take
<1>6. ASSUME CreateDatabase(p) PROVE ~at'[p].lost => Owns(p)'
  BY <1>6, <1>0, <1>a DEF CreateDatabase, Held
<1>7. ASSUME CreateReady(p) PROVE ~at'[p].lost => Owns(p)'
  BY <1>7, <1>0, <1>a DEF CreateReady, Held, Go
<1>8. ASSUME Prepared(p) PROVE ~at'[p].lost => Owns(p)'
  BY <1>8, <1>0, <1>a DEF Prepared, Held, Go
<1>9. ASSUME NEW d \in Dir, UpgradeBackup(p, d) PROVE ~at'[p].lost => Owns(p)'
  BY <1>9, <1>0, <1>a DEF UpgradeBackup, BackupBegin, Held, Take
<1>10. ASSUME Replace(p) PROVE ~at'[p].lost => Owns(p)'
  BY <1>10, <1>0, <1>a DEF Replace, Held, Go
<1>11. ASSUME BindLock(p) PROVE ~at'[p].lost => Owns(p)'
  BY <1>11, <1>0, <1>a DEF BindLock, Held, Go
<1>12. ASSUME Bind(p) PROVE ~at'[p].lost => Owns(p)'
  BY <1>12, <1>0, <1>a DEF Bind, Held, Go
<1>13. ASSUME BindEnd(p) PROVE ~at'[p].lost => Owns(p)'
  BY <1>13, <1>0, <1>a DEF BindEnd
<1>14. ASSUME Write(p) PROVE ~at'[p].lost => Owns(p)'
  BY <1>14, <1>0, <1>a DEF Write, Held
<1>15. ASSUME Quiesce(p) PROVE ~at'[p].lost => Owns(p)'
  BY <1>15, <1>0, <1>a DEF Quiesce, Held, Go
<1>16. ASSUME Release(p) PROVE ~at'[p].lost => Owns(p)'
  BY <1>16, <1>0, <1>a DEF Release, Leave, Give, Idle
<1>17. ASSUME CopyDatabase(p) PROVE ~at'[p].lost => Owns(p)'
  BY <1>17, <1>0, <1>a DEF CopyDatabase, Held
<1>18. ASSUME CopyBodies(p) PROVE ~at'[p].lost => Owns(p)'
  BY <1>18, <1>0, <1>a DEF CopyBodies, Held
<1>19. ASSUME BackupEnd(p) PROVE ~at'[p].lost => Owns(p)'
  <2>1. /\ at[p].place = "copy" /\ ~at[p].lost /\ at[p].want.then # "restored" /\ at[p].dst \in Dir
        /\ at[p].want \in Wanted
        /\ dir' = [dir EXCEPT ![at[p].dst].receipt = at[p].want.what]
        /\ owner' = [owner EXCEPT ![at[p].dst] = None]
        /\ at' = [at EXCEPT ![p].place = at[p].want.then] /\ lock' = lock
    BY <1>19, <1>0, <1>a DEF BackupEnd, Held
  <2>2. at[p].want.then \in {"quiet", "relocate", "replace"}
    BY <2>1 DEF Wanted
  <2>3. /\ at'[p].place = at[p].want.then /\ at'[p].data = at[p].data /\ at'[p].tgt = at[p].tgt
        /\ at'[p].how = at[p].how /\ at'[p].lost = at[p].lost /\ at'[p].want = at[p].want
    BY <2>1, <1>0
  <2>4. at[p].data # at[p].dst /\ (at[p].want.then = "replace" => at[p].tgt # at[p].dst)
    BY <2>1, <2>2, <1>0, <1>a DEF Finds
  <2>5. QED
    BY <2>1, <2>2, <2>3, <2>4, <1>0, <1>a
<1>20. ASSUME RestoreEnd(p) PROVE ~at'[p].lost => Owns(p)'
  <2>1. /\ at[p].place = "copy" /\ ~at[p].lost /\ at[p].want.then = "restored" /\ at[p].dst \in Dir
        /\ at[p].src \in Dir
    BY <1>20, <1>0, <1>a DEF RestoreEnd, Held
  <2>2. at[p].data # at[p].dst
    BY <2>1, <1>0, <1>a DEF Finds
  <2>3. CASE at[p].how = "switch"
    <3>1. /\ owner' = [owner EXCEPT ![at[p].src] = None, ![at[p].dst] = None]
          /\ dir' = [dir EXCEPT ![at[p].dst].mark = FALSE]
          /\ at' = [at EXCEPT ![p].place = "restored"] /\ lock' = lock
      BY <1>20, <2>3 DEF RestoreEnd
    <3>2. /\ at'[p].place = "restored" /\ at'[p].data = at[p].data
          /\ at'[p].want = at[p].want /\ at[p].how = "switch" /\ at'[p].how = "switch"
      BY <3>1, <2>3, <1>0
    <3>3. /\ at[p].data # at[p].src /\ ConfOf[p] \in Conf
          /\ ConfOf[p] # at[p].src /\ ConfOf[p] # at[p].dst
      BY <2>1, <1>0, <1>a DEF Owns
    <3>4. QED
      BY <3>1, <3>2, <3>3, <2>1, <2>2, <1>0, <1>a
  <2>4. CASE at[p].how # "switch"
    BY <1>20, <1>0, <2>4 DEF RestoreEnd, Leave, Give
  <2>5. QED
    BY <2>3, <2>4
<1>21. ASSUME NEW d \in Dir, Select(p, d) PROVE ~at'[p].lost => Owns(p)'
  BY <1>21, <1>0, <1>a DEF Select, Maintaining, Held, Take
<1>22. ASSUME NEW d \in Dir, Relocate(p, d) PROVE ~at'[p].lost => Owns(p)'
  BY <1>22, <1>0, <1>a DEF Relocate, RestoreBegin, Held, Take
<1>23. ASSUME NEW b \in Dir, NEW then \in {"quiet", "relocate"}, Backup(p, b, then)
       PROVE  ~at'[p].lost => Owns(p)'
  BY <1>23, <1>0, <1>a DEF Backup, BackupBegin, Maintaining, Held, Take
<1>24. ASSUME NEW b \in Dir, NEW d \in Dir, Restore(p, b, d) PROVE ~at'[p].lost => Owns(p)'
  BY <1>24, <1>0, <1>a DEF Restore, RestoreBegin, Held, Take
<1>25. ASSUME NEW b \in Dir, NEW d \in Dir, RestoreAtStartup(p, b, d) PROVE ~at'[p].lost => Owns(p)'
  BY <1>25, <1>0, <1>a DEF RestoreAtStartup, RestoreBegin, Held, Take
<1>26. ASSUME Fail(p) PROVE ~at'[p].lost => Owns(p)'
  <2>1. CASE at[p].data = None
    BY <1>26, <1>0, <2>1 DEF Fail, Leave, Give
  <2>2. CASE at[p].data # None
    <3>1. /\ at[p].place # "off" /\ at[p].data \in Dir
          /\ owner' = [x \in Conf \cup Dir |->
               IF owner[x] = p /\ x # ConfOf[p] /\ x # at[p].data THEN None ELSE owner[x]]
          /\ at'[p] = [Idle EXCEPT !.place = "failed", !.data = at[p].data, !.fp = at[p].fp,
                                   !.lost = at[p].lost]
          /\ dir' = dir
      BY <1>26, <1>0, <2>2 DEF Fail, Give, Mine
    <3>2. /\ at'[p].place = "failed" /\ at'[p].data = at[p].data /\ at'[p].lost = at[p].lost
          /\ at'[p].how = None
      BY <3>1
    <3>3. QED
      BY <3>1, <3>2, <1>0, <1>a
  <2>3. QED
    BY <2>1, <2>2
<1>27. ASSUME Failed(p) PROVE ~at'[p].lost => Owns(p)'
  BY <1>27, <1>0, <1>a DEF Failed, Leave, Give, Idle
<1>28. ASSUME Crash(p) PROVE ~at'[p].lost => Owns(p)'
  BY <1>28, <1>0, <1>a DEF Crash, Leave, Give, Idle
<1>29. ASSUME Quit(p) PROVE ~at'[p].lost => Owns(p)'
  BY <1>29, <1>0, <1>a DEF Quit, Leave, Give, Idle
<1>30. ASSUME NEW x \in Conf \cup Dir, Lose(p, x) PROVE ~at'[p].lost => Owns(p)'
  BY <1>30, <1>0, <1>a DEF Lose
<1>31. QED
  BY <1>1, <1>2, <1>3, <1>4, <1>5, <1>6, <1>7, <1>8, <1>9, <1>10, <1>11, <1>12, <1>13, <1>14,
     <1>15, <1>16, <1>17, <1>18, <1>19, <1>20, <1>21, <1>22, <1>23, <1>24, <1>25, <1>26, <1>27,
     <1>28, <1>29, <1>30 DEF Acts, Opening, Maintenance, Trouble

(* It has found, or made, what it goes on with.                            *)
LEMMA FindsKept ==
  ASSUME SessionAssumption, SessionInv, NEW p \in Proc, Acts(p)
  PROVE  ~at'[p].lost => Finds(p)'
<1>0. /\ dir \in [Dir -> DirRow] /\ lock \in [Conf -> BOOLEAN] /\ loc \in [Conf -> LocRow]
      /\ owner \in [Conf \cup Dir -> Proc \cup {None}] /\ at \in [Proc -> AtRow]
      /\ ConfOf \in [Proc -> Conf] /\ Conf \cap Dir = {} /\ None \notin Proc \cup Dir
      /\ at[p].ready => loc[ConfOf[p]].dir # None
      /\ at[p].place = "bound" => ~at[p].lost
      /\ at[p].place = "off" => at[p] = Idle
  BY DEF SessionAssumption, SessionInv, Shapes, Resting
<1>a. ~at[p].lost => Owns(p) /\ Finds(p) /\ Unlocked(p)
  BY DEF SessionInv, Working
<1> USE DEF Owns, Finds, Openable, Whole, Content, NoDir, Verified, DirRow, LocRow, AtRow, Idle
<1>1. ASSUME Start(p) PROVE ~at'[p].lost => Finds(p)'
  BY <1>1, <1>0, <1>a DEF Start, Take, Idle
<1>2. ASSUME Cancel(p) PROVE ~at'[p].lost => Finds(p)'
  BY <1>2, <1>0, <1>a DEF Cancel, Leave, Give, Idle
<1>3. ASSUME OpenCurrent(p) PROVE ~at'[p].lost => Finds(p)'
  BY <1>3, <1>0, <1>a DEF OpenCurrent, Held, Take, Same
<1>4. ASSUME NEW d \in Dir, NEW r \in BOOLEAN, OpenOther(p, d, r) PROVE ~at'[p].lost => Finds(p)'
  BY <1>4, <1>0, <1>a DEF OpenOther, Held, Take
<1>5. ASSUME NEW d \in Dir, Create(p, d) PROVE ~at'[p].lost => Finds(p)'
  BY <1>5, <1>0, <1>a DEF Create, Maintaining, Held, Take
<1>6. ASSUME CreateDatabase(p) PROVE ~at'[p].lost => Finds(p)'
  BY <1>6, <1>0, <1>a DEF CreateDatabase, Held
<1>7. ASSUME CreateReady(p) PROVE ~at'[p].lost => Finds(p)'
  BY <1>7, <1>0, <1>a DEF CreateReady, Held, Go
<1>8. ASSUME Prepared(p) PROVE ~at'[p].lost => Finds(p)'
  BY <1>8, <1>0, <1>a DEF Prepared, Held, Go
<1>9. ASSUME NEW d \in Dir, UpgradeBackup(p, d) PROVE ~at'[p].lost => Finds(p)'
  BY <1>9, <1>0, <1>a DEF UpgradeBackup, BackupBegin, Held, Take
<1>10. ASSUME Replace(p) PROVE ~at'[p].lost => Finds(p)'
  BY <1>10, <1>0, <1>a DEF Replace, Held, Go
<1>11. ASSUME BindLock(p) PROVE ~at'[p].lost => Finds(p)'
  BY <1>11, <1>0, <1>a DEF BindLock, Held, Go
<1>12. ASSUME Bind(p) PROVE ~at'[p].lost => Finds(p)'
  BY <1>12, <1>0, <1>a DEF Bind, Held, Go
<1>13. ASSUME BindEnd(p) PROVE ~at'[p].lost => Finds(p)'
  BY <1>13, <1>0, <1>a DEF BindEnd
<1>14. ASSUME Write(p) PROVE ~at'[p].lost => Finds(p)'
  BY <1>14, <1>0, <1>a DEF Write, Held
<1>15. ASSUME Quiesce(p) PROVE ~at'[p].lost => Finds(p)'
  BY <1>15, <1>0, <1>a DEF Quiesce, Held, Go
<1>16. ASSUME Release(p) PROVE ~at'[p].lost => Finds(p)'
  BY <1>16, <1>0, <1>a DEF Release, Leave, Give, Idle
<1>17. ASSUME CopyDatabase(p) PROVE ~at'[p].lost => Finds(p)'
  BY <1>17, <1>0, <1>a DEF CopyDatabase, Held
<1>18. ASSUME CopyBodies(p) PROVE ~at'[p].lost => Finds(p)'
  BY <1>18, <1>0, <1>a DEF CopyBodies, Held
<1>19. ASSUME BackupEnd(p) PROVE ~at'[p].lost => Finds(p)'
  <2>1. /\ at[p].place = "copy" /\ ~at[p].lost /\ at[p].want.then # "restored" /\ at[p].dst \in Dir
        /\ at[p].want \in Wanted
        /\ dir' = [dir EXCEPT ![at[p].dst].receipt = at[p].want.what]
        /\ owner' = [owner EXCEPT ![at[p].dst] = None]
        /\ at' = [at EXCEPT ![p].place = at[p].want.then] /\ lock' = lock
    BY <1>19, <1>0, <1>a DEF BackupEnd, Held
  <2>2. at[p].want.then \in {"quiet", "relocate", "replace"}
    BY <2>1 DEF Wanted
  <2>3. /\ at'[p].place = at[p].want.then /\ at'[p].data = at[p].data /\ at'[p].tgt = at[p].tgt
        /\ at'[p].how = at[p].how /\ at'[p].lost = at[p].lost /\ at'[p].want = at[p].want
    BY <2>1, <1>0
  <2>4. at[p].data # at[p].dst /\ (at[p].want.then = "replace" => at[p].tgt # at[p].dst)
    BY <2>1, <2>2, <1>0, <1>a DEF Finds
  <2>5. QED
    BY <2>1, <2>2, <2>3, <2>4, <1>0, <1>a
<1>20. ASSUME RestoreEnd(p) PROVE ~at'[p].lost => Finds(p)'
  <2>1. /\ at[p].place = "copy" /\ ~at[p].lost /\ at[p].want.then = "restored" /\ at[p].dst \in Dir
        /\ at[p].src \in Dir
    BY <1>20, <1>0, <1>a DEF RestoreEnd, Held
  <2>2. at[p].data # at[p].dst
    BY <2>1, <1>0, <1>a DEF Finds
  <2>3. CASE at[p].how = "switch"
    <3>1. /\ owner' = [owner EXCEPT ![at[p].src] = None, ![at[p].dst] = None]
          /\ dir' = [dir EXCEPT ![at[p].dst].mark = FALSE]
          /\ at' = [at EXCEPT ![p].place = "restored"] /\ lock' = lock
      BY <1>20, <2>3 DEF RestoreEnd
    <3>2. /\ at'[p].place = "restored" /\ at'[p].data = at[p].data
          /\ at'[p].want = at[p].want /\ at[p].how = "switch" /\ at'[p].how = "switch"
      BY <3>1, <2>3, <1>0
    <3>3. /\ at[p].data # at[p].src /\ ConfOf[p] \in Conf
          /\ ConfOf[p] # at[p].src /\ ConfOf[p] # at[p].dst
      BY <2>1, <1>0, <1>a DEF Owns
    <3>4. QED
      BY <3>1, <3>2, <3>3, <2>1, <2>2, <1>0, <1>a
  <2>4. CASE at[p].how # "switch"
    BY <1>20, <1>0, <2>4 DEF RestoreEnd, Leave, Give
  <2>5. QED
    BY <2>3, <2>4
<1>21. ASSUME NEW d \in Dir, Select(p, d) PROVE ~at'[p].lost => Finds(p)'
  BY <1>21, <1>0, <1>a DEF Select, Maintaining, Held, Take
<1>22. ASSUME NEW d \in Dir, Relocate(p, d) PROVE ~at'[p].lost => Finds(p)'
  BY <1>22, <1>0, <1>a DEF Relocate, RestoreBegin, Held, Take
<1>23. ASSUME NEW b \in Dir, NEW then \in {"quiet", "relocate"}, Backup(p, b, then)
       PROVE  ~at'[p].lost => Finds(p)'
  BY <1>23, <1>0, <1>a DEF Backup, BackupBegin, Maintaining, Held, Take
<1>24. ASSUME NEW b \in Dir, NEW d \in Dir, Restore(p, b, d) PROVE ~at'[p].lost => Finds(p)'
  BY <1>24, <1>0, <1>a DEF Restore, RestoreBegin, Held, Take
<1>25. ASSUME NEW b \in Dir, NEW d \in Dir, RestoreAtStartup(p, b, d)
       PROVE  ~at'[p].lost => Finds(p)'
  BY <1>25, <1>0, <1>a DEF RestoreAtStartup, RestoreBegin, Held, Take
<1>26. ASSUME Fail(p) PROVE ~at'[p].lost => Finds(p)'
  <2>1. CASE at[p].data = None
    BY <1>26, <1>0, <2>1 DEF Fail, Leave, Give
  <2>2. CASE at[p].data # None
    <3>1. /\ at[p].place # "off" /\ at[p].data \in Dir
          /\ owner' = [x \in Conf \cup Dir |->
               IF owner[x] = p /\ x # ConfOf[p] /\ x # at[p].data THEN None ELSE owner[x]]
          /\ at'[p] = [Idle EXCEPT !.place = "failed", !.data = at[p].data, !.fp = at[p].fp,
                                   !.lost = at[p].lost]
          /\ dir' = dir
      BY <1>26, <1>0, <2>2 DEF Fail, Give, Mine
    <3>2. /\ at'[p].place = "failed" /\ at'[p].data = at[p].data /\ at'[p].lost = at[p].lost
          /\ at'[p].how = None
      BY <3>1
    <3>3. QED
      BY <3>1, <3>2, <1>0, <1>a
  <2>3. QED
    BY <2>1, <2>2
<1>27. ASSUME Failed(p) PROVE ~at'[p].lost => Finds(p)'
  BY <1>27, <1>0, <1>a DEF Failed, Leave, Give, Idle
<1>28. ASSUME Crash(p) PROVE ~at'[p].lost => Finds(p)'
  BY <1>28, <1>0, <1>a DEF Crash, Leave, Give, Idle
<1>29. ASSUME Quit(p) PROVE ~at'[p].lost => Finds(p)'
  BY <1>29, <1>0, <1>a DEF Quit, Leave, Give, Idle
<1>30. ASSUME NEW x \in Conf \cup Dir, Lose(p, x) PROVE ~at'[p].lost => Finds(p)'
  BY <1>30, <1>0, <1>a DEF Lose
<1>31. QED
  BY <1>1, <1>2, <1>3, <1>4, <1>5, <1>6, <1>7, <1>8, <1>9, <1>10, <1>11, <1>12, <1>13, <1>14,
     <1>15, <1>16, <1>17, <1>18, <1>19, <1>20, <1>21, <1>22, <1>23, <1>24, <1>25, <1>26, <1>27,
     <1>28, <1>29, <1>30 DEF Acts, Opening, Maintenance, Trouble

(* Its start removes the lock, and only its own move of the pointer takes  *)
(* it again.                                                               *)
LEMMA UnlockedKept ==
  ASSUME SessionAssumption, SessionInv, NEW p \in Proc, Acts(p)
  PROVE  ~at'[p].lost => Unlocked(p)'
<1>0. /\ dir \in [Dir -> DirRow] /\ lock \in [Conf -> BOOLEAN] /\ loc \in [Conf -> LocRow]
      /\ owner \in [Conf \cup Dir -> Proc \cup {None}] /\ at \in [Proc -> AtRow]
      /\ ConfOf \in [Proc -> Conf] /\ Conf \cap Dir = {} /\ None \notin Proc \cup Dir
      /\ at[p].ready => loc[ConfOf[p]].dir # None
      /\ at[p].place = "bound" => ~at[p].lost
      /\ at[p].place = "off" => at[p] = Idle
  BY DEF SessionAssumption, SessionInv, Shapes, Resting
<1>a. ~at[p].lost => Owns(p) /\ Finds(p) /\ Unlocked(p)
  BY DEF SessionInv, Working
<1> USE DEF Owns, Unlocked, DirRow, LocRow, AtRow, Idle, Recovered
<1>1. ASSUME Start(p) PROVE ~at'[p].lost => Unlocked(p)'
  BY <1>1, <1>0, <1>a DEF Start, Take, Idle
<1>2. ASSUME Cancel(p) PROVE ~at'[p].lost => Unlocked(p)'
  BY <1>2, <1>0, <1>a DEF Cancel, Leave, Give, Idle
<1>3. ASSUME OpenCurrent(p) PROVE ~at'[p].lost => Unlocked(p)'
  BY <1>3, <1>0, <1>a DEF OpenCurrent, Held, Take, Same
<1>4. ASSUME NEW d \in Dir, NEW r \in BOOLEAN, OpenOther(p, d, r) PROVE ~at'[p].lost => Unlocked(p)'
  BY <1>4, <1>0, <1>a DEF OpenOther, Held, Take
<1>5. ASSUME NEW d \in Dir, Create(p, d) PROVE ~at'[p].lost => Unlocked(p)'
  BY <1>5, <1>0, <1>a DEF Create, Maintaining, Held, Take
<1>6. ASSUME CreateDatabase(p) PROVE ~at'[p].lost => Unlocked(p)'
  BY <1>6, <1>0, <1>a DEF CreateDatabase, Held
<1>7. ASSUME CreateReady(p) PROVE ~at'[p].lost => Unlocked(p)'
  BY <1>7, <1>0, <1>a DEF CreateReady, Held, Go
<1>8. ASSUME Prepared(p) PROVE ~at'[p].lost => Unlocked(p)'
  BY <1>8, <1>0, <1>a DEF Prepared, Held, Go
<1>9. ASSUME NEW d \in Dir, UpgradeBackup(p, d) PROVE ~at'[p].lost => Unlocked(p)'
  BY <1>9, <1>0, <1>a DEF UpgradeBackup, BackupBegin, Held, Take
<1>10. ASSUME Replace(p) PROVE ~at'[p].lost => Unlocked(p)'
  BY <1>10, <1>0, <1>a DEF Replace, Held, Go
<1>11. ASSUME BindLock(p) PROVE ~at'[p].lost => Unlocked(p)'
  BY <1>11, <1>0, <1>a DEF BindLock, Held, Go
<1>12. ASSUME Bind(p) PROVE ~at'[p].lost => Unlocked(p)'
  BY <1>12, <1>0, <1>a DEF Bind, Held, Go
<1>13. ASSUME BindEnd(p) PROVE ~at'[p].lost => Unlocked(p)'
  BY <1>13, <1>0, <1>a DEF BindEnd
<1>14. ASSUME Write(p) PROVE ~at'[p].lost => Unlocked(p)'
  BY <1>14, <1>0, <1>a DEF Write, Held
<1>15. ASSUME Quiesce(p) PROVE ~at'[p].lost => Unlocked(p)'
  BY <1>15, <1>0, <1>a DEF Quiesce, Held, Go
<1>16. ASSUME Release(p) PROVE ~at'[p].lost => Unlocked(p)'
  BY <1>16, <1>0, <1>a DEF Release, Leave, Give, Idle
<1>17. ASSUME CopyDatabase(p) PROVE ~at'[p].lost => Unlocked(p)'
  BY <1>17, <1>0, <1>a DEF CopyDatabase, Held
<1>18. ASSUME CopyBodies(p) PROVE ~at'[p].lost => Unlocked(p)'
  BY <1>18, <1>0, <1>a DEF CopyBodies, Held
<1>19. ASSUME BackupEnd(p) PROVE ~at'[p].lost => Unlocked(p)'
  <2>1. /\ at[p].place = "copy" /\ ~at[p].lost /\ at[p].want.then # "restored" /\ at[p].dst \in Dir
        /\ at[p].want \in Wanted
        /\ dir' = [dir EXCEPT ![at[p].dst].receipt = at[p].want.what]
        /\ owner' = [owner EXCEPT ![at[p].dst] = None]
        /\ at' = [at EXCEPT ![p].place = at[p].want.then] /\ lock' = lock
    BY <1>19, <1>0, <1>a DEF BackupEnd, Held
  <2>2. at[p].want.then \in {"quiet", "relocate", "replace"}
    BY <2>1 DEF Wanted
  <2>3. /\ at'[p].place = at[p].want.then /\ at'[p].data = at[p].data /\ at'[p].tgt = at[p].tgt
        /\ at'[p].how = at[p].how /\ at'[p].lost = at[p].lost /\ at'[p].want = at[p].want
    BY <2>1, <1>0
  <2>4. at[p].data # at[p].dst /\ (at[p].want.then = "replace" => at[p].tgt # at[p].dst)
    BY <2>1, <2>2, <1>0, <1>a DEF Finds
  <2>5. QED
    BY <2>1, <2>2, <2>3, <2>4, <1>0, <1>a
<1>20. ASSUME RestoreEnd(p) PROVE ~at'[p].lost => Unlocked(p)'
  <2>1. /\ at[p].place = "copy" /\ ~at[p].lost /\ at[p].want.then = "restored" /\ at[p].dst \in Dir
        /\ at[p].src \in Dir
    BY <1>20, <1>0, <1>a DEF RestoreEnd, Held
  <2>2. at[p].data # at[p].dst
    BY <2>1, <1>0, <1>a DEF Finds
  <2>3. CASE at[p].how = "switch"
    <3>1. /\ owner' = [owner EXCEPT ![at[p].src] = None, ![at[p].dst] = None]
          /\ dir' = [dir EXCEPT ![at[p].dst].mark = FALSE]
          /\ at' = [at EXCEPT ![p].place = "restored"] /\ lock' = lock
      BY <1>20, <2>3 DEF RestoreEnd
    <3>2. /\ at'[p].place = "restored" /\ at'[p].data = at[p].data
          /\ at'[p].want = at[p].want /\ at[p].how = "switch" /\ at'[p].how = "switch"
      BY <3>1, <2>3, <1>0
    <3>3. /\ at[p].data # at[p].src /\ ConfOf[p] \in Conf
          /\ ConfOf[p] # at[p].src /\ ConfOf[p] # at[p].dst
      BY <2>1, <1>0, <1>a DEF Owns
    <3>4. QED
      BY <3>1, <3>2, <3>3, <2>1, <2>2, <1>0, <1>a
  <2>4. CASE at[p].how # "switch"
    BY <1>20, <1>0, <2>4 DEF RestoreEnd, Leave, Give
  <2>5. QED
    BY <2>3, <2>4
<1>21. ASSUME NEW d \in Dir, Select(p, d) PROVE ~at'[p].lost => Unlocked(p)'
  BY <1>21, <1>0, <1>a DEF Select, Maintaining, Held, Take
<1>22. ASSUME NEW d \in Dir, Relocate(p, d) PROVE ~at'[p].lost => Unlocked(p)'
  BY <1>22, <1>0, <1>a DEF Relocate, RestoreBegin, Held, Take
<1>23. ASSUME NEW b \in Dir, NEW then \in {"quiet", "relocate"}, Backup(p, b, then)
       PROVE  ~at'[p].lost => Unlocked(p)'
  BY <1>23, <1>0, <1>a DEF Backup, BackupBegin, Maintaining, Held, Take
<1>24. ASSUME NEW b \in Dir, NEW d \in Dir, Restore(p, b, d) PROVE ~at'[p].lost => Unlocked(p)'
  BY <1>24, <1>0, <1>a DEF Restore, RestoreBegin, Held, Take
<1>25. ASSUME NEW b \in Dir, NEW d \in Dir, RestoreAtStartup(p, b, d)
       PROVE  ~at'[p].lost => Unlocked(p)'
  BY <1>25, <1>0, <1>a DEF RestoreAtStartup, RestoreBegin, Held, Take
<1>26. ASSUME Fail(p) PROVE ~at'[p].lost => Unlocked(p)'
  <2>1. CASE at[p].data = None
    BY <1>26, <1>0, <2>1 DEF Fail, Leave, Give
  <2>2. CASE at[p].data # None
    <3>1. /\ at[p].place # "off" /\ at[p].data \in Dir
          /\ owner' = [x \in Conf \cup Dir |->
               IF owner[x] = p /\ x # ConfOf[p] /\ x # at[p].data THEN None ELSE owner[x]]
          /\ at'[p] = [Idle EXCEPT !.place = "failed", !.data = at[p].data, !.fp = at[p].fp,
                                   !.lost = at[p].lost]
          /\ dir' = dir
      BY <1>26, <1>0, <2>2 DEF Fail, Give, Mine
    <3>2. /\ at'[p].place = "failed" /\ at'[p].data = at[p].data /\ at'[p].lost = at[p].lost
          /\ at'[p].how = None
      BY <3>1
    <3>3. QED
      BY <3>1, <3>2, <1>0, <1>a
  <2>3. QED
    BY <2>1, <2>2
<1>27. ASSUME Failed(p) PROVE ~at'[p].lost => Unlocked(p)'
  BY <1>27, <1>0, <1>a DEF Failed, Leave, Give, Idle
<1>28. ASSUME Crash(p) PROVE ~at'[p].lost => Unlocked(p)'
  BY <1>28, <1>0, <1>a DEF Crash, Leave, Give, Idle
<1>29. ASSUME Quit(p) PROVE ~at'[p].lost => Unlocked(p)'
  BY <1>29, <1>0, <1>a DEF Quit, Leave, Give, Idle
<1>30. ASSUME NEW x \in Conf \cup Dir, Lose(p, x) PROVE ~at'[p].lost => Unlocked(p)'
  BY <1>30, <1>0, <1>a DEF Lose
<1>31. QED
  BY <1>1, <1>2, <1>3, <1>4, <1>5, <1>6, <1>7, <1>8, <1>9, <1>10, <1>11, <1>12, <1>13, <1>14,
     <1>15, <1>16, <1>17, <1>18, <1>19, <1>20, <1>21, <1>22, <1>23, <1>24, <1>25, <1>26, <1>27,
     <1>28, <1>29, <1>30 DEF Acts, Opening, Maintenance, Trouble

(***************************************************************************)
(* What a step of a program leaves behind.                                 *)
(***************************************************************************)
(* A row that is changed in one place is a row, and so is the table.       *)
LEMMA DirRows ==
  /\ \A f \in [Dir -> DirRow], x \in Dir, e \in DirRow : [f EXCEPT ![x] = e] \in [Dir -> DirRow]
  /\ \A e \in DirRow, v \in -1..MaxRev :
       [e EXCEPT !.db = v] \in DirRow /\ [e EXCEPT !.body = v] \in DirRow
  /\ \A e \in DirRow, v \in BOOLEAN :
       [e EXCEPT !.mark = v] \in DirRow /\ [e EXCEPT !.old = v] \in DirRow
  /\ \A e \in DirRow : [e EXCEPT !.man = "READY"] \in DirRow
  /\ \A e \in DirRow, v \in Dir : [e EXCEPT !.id = v] \in DirRow
<1>1. \A f \in [Dir -> DirRow], x \in Dir, e \in DirRow : [f EXCEPT ![x] = e] \in [Dir -> DirRow]
  OBVIOUS
<1>2. \A e \in DirRow, v \in -1..MaxRev :
        [e EXCEPT !.db = v] \in DirRow /\ [e EXCEPT !.body = v] \in DirRow
  BY DEF DirRow
<1>3. \A e \in DirRow, v \in BOOLEAN :
        [e EXCEPT !.mark = v] \in DirRow /\ [e EXCEPT !.old = v] \in DirRow
  BY DEF DirRow
<1>4. \A e \in DirRow : [e EXCEPT !.man = "READY"] \in DirRow
  BY DEF DirRow
<1>5. \A e \in DirRow, v \in Dir : [e EXCEPT !.id = v] \in DirRow
  BY DEF DirRow
<1>6. QED
  BY <1>1, <1>2, <1>3, <1>4, <1>5

LEMMA AtRows ==
  /\ \A f \in [Proc -> AtRow], x \in Proc, e \in AtRow : [f EXCEPT ![x] = e] \in [Proc -> AtRow]
  /\ \A e \in AtRow, v \in {"choose", "prepare", "create", "copy", "replace", "bind", "locked",
                            "bound", "session", "quiet", "relocate", "restored", "done", "failed"} :
       [e EXCEPT !.place = v] \in AtRow
  /\ \A e \in AtRow, v \in Dir : [e EXCEPT !.tgt = v] \in AtRow /\ [e EXCEPT !.data = v] \in AtRow
  /\ \A e \in AtRow, v \in BOOLEAN : [e EXCEPT !.ready = v] \in AtRow /\ [e EXCEPT !.lost = v] \in AtRow
  /\ \A e \in AtRow, v \in {"open", "switch"} : [e EXCEPT !.how = v] \in AtRow
  /\ \A e \in AtRow, v \in Nat : [e EXCEPT !.fp = v] \in AtRow
  /\ Idle \in AtRow
<1>1. \A f \in [Proc -> AtRow], x \in Proc, e \in AtRow : [f EXCEPT ![x] = e] \in [Proc -> AtRow]
  OBVIOUS
<1>2. \A e \in AtRow, v \in {"choose", "prepare", "create", "copy", "replace", "bind", "locked",
                             "bound", "session", "quiet", "relocate", "restored", "done", "failed"} :
        [e EXCEPT !.place = v] \in AtRow
  BY DEF AtRow
<1>3. \A e \in AtRow, v \in Dir : [e EXCEPT !.tgt = v] \in AtRow /\ [e EXCEPT !.data = v] \in AtRow
  BY DEF AtRow
<1>4. \A e \in AtRow, v \in BOOLEAN : [e EXCEPT !.ready = v] \in AtRow /\ [e EXCEPT !.lost = v] \in AtRow
  BY DEF AtRow
<1>5. \A e \in AtRow, v \in {"open", "switch"} : [e EXCEPT !.how = v] \in AtRow
  BY DEF AtRow
<1>6. \A e \in AtRow, v \in Nat : [e EXCEPT !.fp = v] \in AtRow
  BY DEF AtRow
<1>7. Idle \in AtRow
  BY DEF AtRow, Idle
<1>8. QED
  BY <1>1, <1>2, <1>3, <1>4, <1>5, <1>6, <1>7

(* A directory stays one.                                                  *)
LEMMA DirShape ==
  ASSUME SessionAssumption, SessionInv, NEW p \in Proc, Acts(p)
  PROVE  dir' \in [Dir -> DirRow]
<1>0. /\ dir \in [Dir -> DirRow] /\ lock \in [Conf -> BOOLEAN] /\ loc \in [Conf -> LocRow]
      /\ owner \in [Conf \cup Dir -> Proc \cup {None}] /\ at \in [Proc -> AtRow]
      /\ binds \in Nat /\ last \in [Dir -> -1..MaxRev] /\ hand \subseteq Dir /\ MaxRev \in Nat
      /\ ConfOf \in [Proc -> Conf] /\ Conf \cap Dir = {} /\ None \notin Proc \cup Dir
      /\ at[p].ready => loc[ConfOf[p]].dir # None
      /\ at[p].place = "bound" => ~at[p].lost
  BY DEF SessionAssumption, SessionInv, Shapes, Resting
<1>a. ~at[p].lost => Owns(p) /\ Finds(p) /\ Unlocked(p)
  BY DEF SessionInv, Working
<1>b. Kept
  BY DEF SessionInv
<1>1. ASSUME Start(p) PROVE dir' \in [Dir -> DirRow]
  BY <1>1, <1>0, <1>a DEF Start, Take, Idle, Owns, Free, Mine, DirRow, LocRow, AtRow, Idle,
     Wanted, Contents, Content, NoDir, Whole
<1>2. ASSUME Cancel(p) PROVE dir' \in [Dir -> DirRow]
  BY <1>2, <1>0, <1>a DEF Cancel, Leave, Give, Idle, Owns, Free, Mine, DirRow, LocRow, AtRow,
     Idle, Wanted, Contents, Content, NoDir, Whole
<1>3. ASSUME OpenCurrent(p) PROVE dir' \in [Dir -> DirRow]
  BY <1>3, <1>0, <1>a DEF OpenCurrent, Held, Take, Same, Owns, Free, Mine, DirRow, LocRow, AtRow,
     Idle, Wanted, Contents, Content, NoDir, Whole
<1>4. ASSUME NEW d \in Dir, NEW r \in BOOLEAN, OpenOther(p, d, r) PROVE dir' \in [Dir -> DirRow]
  BY <1>4, <1>0, <1>a DEF OpenOther, Held, Take, Owns, Free, Mine, DirRow, LocRow, AtRow, Idle,
     Wanted, Contents, Content, NoDir, Whole
<1>5. ASSUME NEW d \in Dir, Create(p, d) PROVE dir' \in [Dir -> DirRow]
  BY <1>5, <1>0, <1>a DEF Create, Maintaining, Held, Take, Owns, Free, Mine, DirRow, LocRow,
     AtRow, Idle, Wanted, Contents, Content, NoDir, Whole
<1>6. ASSUME CreateDatabase(p) PROVE dir' \in [Dir -> DirRow]
  <2>1. at[p].tgt \in Dir /\ 0 \in -1..MaxRev
    BY <1>6, <1>0, <1>a DEF CreateDatabase, Held, Owns, DirRow, AtRow, Contents
  <2>2. [dir[at[p].tgt] EXCEPT !.db = 0] \in DirRow
    BY <2>1, <1>0, DirRows
  <2>3. [[dir[at[p].tgt] EXCEPT !.db = 0] EXCEPT !.body = 0] \in DirRow
    BY <2>2, <2>1, <1>0, DirRows
  <2>4. dir' = [dir EXCEPT ![at[p].tgt] = [[dir[at[p].tgt] EXCEPT !.db = 0] EXCEPT !.body = 0]]
    BY <1>6, <2>1, <1>0 DEF CreateDatabase, Held
  <2>5. QED
    BY <2>1, <2>3, <2>4, <1>0, DirRows
<1>7. ASSUME CreateReady(p) PROVE dir' \in [Dir -> DirRow]
  <2>1. at[p].tgt \in Dir
    BY <1>7, <1>0, <1>a DEF CreateReady, Held, Owns, DirRow, AtRow, Contents
  <2>2. [dir[at[p].tgt] EXCEPT !.man = "READY"] \in DirRow
    BY <2>1, <1>0, DirRows
  <2>3. dir' = [dir EXCEPT ![at[p].tgt] = [dir[at[p].tgt] EXCEPT !.man = "READY"]]
    BY <1>7, <2>1, <1>0 DEF CreateReady, Held
  <2>4. QED
    BY <2>1, <2>2, <2>3, <1>0, DirRows
<1>8. ASSUME Prepared(p) PROVE dir' \in [Dir -> DirRow]
  BY <1>8, <1>0, <1>a DEF Prepared, Held, Go, Owns, Free, Mine, DirRow, LocRow, AtRow, Idle,
     Wanted, Contents, Content, NoDir, Whole
<1>9. ASSUME NEW d \in Dir, UpgradeBackup(p, d) PROVE dir' \in [Dir -> DirRow]
  BY <1>9, <1>0, <1>a DEF UpgradeBackup, BackupBegin, Held, Take, Owns, Free, Mine, DirRow,
     LocRow, AtRow, Idle, Wanted, Contents, Content, NoDir, Whole
<1>10. ASSUME Replace(p) PROVE dir' \in [Dir -> DirRow]
  <2>1. at[p].tgt \in Dir /\ dir[at[p].dst].db \in -1..MaxRev
    BY <1>10, <1>0, <1>a DEF Replace, Held, Verified, Owns, DirRow, AtRow, Contents
  <2>2. [dir[at[p].tgt] EXCEPT !.db = dir[at[p].dst].db] \in DirRow
    BY <2>1, <1>0, DirRows
  <2>3. [[dir[at[p].tgt] EXCEPT !.db = dir[at[p].dst].db] EXCEPT !.old = FALSE] \in DirRow
    BY <2>2, <2>1, <1>0, DirRows
  <2>4. dir' = [dir EXCEPT ![at[p].tgt] = [[dir[at[p].tgt] EXCEPT !.db = dir[at[p].dst].db] EXCEPT !.old = FALSE]]
    BY <1>10, <2>1, <1>0 DEF Replace, Held, Verified
  <2>5. QED
    BY <2>1, <2>3, <2>4, <1>0, DirRows
<1>11. ASSUME BindLock(p) PROVE dir' \in [Dir -> DirRow]
  BY <1>11, <1>0, <1>a DEF BindLock, Held, Go, Owns, Free, Mine, DirRow, LocRow, AtRow, Idle,
     Wanted, Contents, Content, NoDir, Whole
<1>12. ASSUME Bind(p) PROVE dir' \in [Dir -> DirRow]
  BY <1>12, <1>0, <1>a DEF Bind, Held, Go, Owns, Free, Mine, DirRow, LocRow, AtRow, Idle, Wanted,
     Contents, Content, NoDir, Whole
<1>13. ASSUME BindEnd(p) PROVE dir' \in [Dir -> DirRow]
  BY <1>13, <1>0, <1>a DEF BindEnd, Owns, Free, Mine, DirRow, LocRow, AtRow, Idle, Wanted,
     Contents, Content, NoDir, Whole
<1>14. ASSUME Write(p) PROVE dir' \in [Dir -> DirRow]
  BY <1>14, <1>0, <1>a DEF Write, Held, Owns, Free, Mine, DirRow, LocRow, AtRow, Idle, Wanted,
     Contents, Content, NoDir, Whole
<1>15. ASSUME Quiesce(p) PROVE dir' \in [Dir -> DirRow]
  BY <1>15, <1>0, <1>a DEF Quiesce, Held, Go, Owns, Free, Mine, DirRow, LocRow, AtRow, Idle,
     Wanted, Contents, Content, NoDir, Whole
<1>16. ASSUME Release(p) PROVE dir' \in [Dir -> DirRow]
  BY <1>16, <1>0, <1>a DEF Release, Leave, Give, Idle, Owns, Free, Mine, DirRow, LocRow, AtRow,
     Idle, Wanted, Contents, Content, NoDir, Whole
<1>17. ASSUME CopyDatabase(p) PROVE dir' \in [Dir -> DirRow]
  <2>1. at[p].dst \in Dir /\ dir[at[p].src].db \in -1..MaxRev /\ at[p].want.old \in BOOLEAN
    BY <1>17, <1>0, <1>a DEF CopyDatabase, Held, Wanted, Owns, DirRow, AtRow, Contents
  <2>2. [dir[at[p].dst] EXCEPT !.db = dir[at[p].src].db] \in DirRow
    BY <2>1, <1>0, DirRows
  <2>3. [[dir[at[p].dst] EXCEPT !.db = dir[at[p].src].db] EXCEPT !.old = at[p].want.old] \in DirRow
    BY <2>2, <2>1, <1>0, DirRows
  <2>4. dir' = [dir EXCEPT ![at[p].dst] = [[dir[at[p].dst] EXCEPT !.db = dir[at[p].src].db] EXCEPT !.old = at[p].want.old]]
    BY <1>17, <2>1, <1>0 DEF CopyDatabase, Held, Wanted
  <2>5. QED
    BY <2>1, <2>3, <2>4, <1>0, DirRows
<1>18. ASSUME CopyBodies(p) PROVE dir' \in [Dir -> DirRow]
  <2>1. at[p].dst \in Dir /\ dir[at[p].src].body \in -1..MaxRev
    BY <1>18, <1>0, <1>a DEF CopyBodies, Held, Owns, DirRow, AtRow, Contents
  <2>2. [dir[at[p].dst] EXCEPT !.body = dir[at[p].src].body] \in DirRow
    BY <2>1, <1>0, DirRows
  <2>3. dir' = [dir EXCEPT ![at[p].dst] = [dir[at[p].dst] EXCEPT !.body = dir[at[p].src].body]]
    BY <1>18, <2>1, <1>0 DEF CopyBodies, Held
  <2>4. QED
    BY <2>1, <2>2, <2>3, <1>0, DirRows
<1>19. ASSUME BackupEnd(p) PROVE dir' \in [Dir -> DirRow]
  BY <1>19, <1>0, <1>a DEF BackupEnd, Held, Owns, Free, Mine, DirRow, LocRow, AtRow, Idle, Wanted,
     Contents, Content, NoDir, Whole
<1>20. ASSUME RestoreEnd(p) PROVE dir' \in [Dir -> DirRow]
  <2>1. at[p].dst \in Dir
    BY <1>20, <1>0, <1>a DEF RestoreEnd, Held, Owns, DirRow, AtRow, Contents
  <2>2. [dir[at[p].dst] EXCEPT !.mark = FALSE] \in DirRow
    BY <2>1, <1>0, DirRows
  <2>3. dir' = [dir EXCEPT ![at[p].dst] = [dir[at[p].dst] EXCEPT !.mark = FALSE]]
    BY <1>20, <2>1, <1>0 DEF RestoreEnd, Held
  <2>4. QED
    BY <2>1, <2>2, <2>3, <1>0, DirRows
<1>21. ASSUME NEW d \in Dir, Select(p, d) PROVE dir' \in [Dir -> DirRow]
  BY <1>21, <1>0, <1>a DEF Select, Maintaining, Held, Take, Owns, Free, Mine, DirRow, LocRow,
     AtRow, Idle, Wanted, Contents, Content, NoDir, Whole
<1>22. ASSUME NEW d \in Dir, Relocate(p, d) PROVE dir' \in [Dir -> DirRow]
  BY <1>22, <1>0, <1>a DEF Relocate, RestoreBegin, Held, Take, Owns, Free, Mine, DirRow, LocRow,
     AtRow, Idle, Wanted, Contents, Content, NoDir, Whole
<1>23. ASSUME NEW b \in Dir, NEW then \in {"quiet", "relocate"}, Backup(p, b, then)
       PROVE  dir' \in [Dir -> DirRow]
  BY <1>23, <1>0, <1>a DEF Backup, BackupBegin, Maintaining, Held, Take, Owns, Free, Mine, DirRow,
     LocRow, AtRow, Idle, Wanted, Contents, Content, NoDir, Whole
<1>24. ASSUME NEW b \in Dir, NEW d \in Dir, Restore(p, b, d) PROVE dir' \in [Dir -> DirRow]
  BY <1>24, <1>0, <1>a DEF Restore, RestoreBegin, Held, Take, Owns, Free, Mine, DirRow, LocRow,
     AtRow, Idle, Wanted, Contents, Content, NoDir, Whole
<1>25. ASSUME NEW b \in Dir, NEW d \in Dir, RestoreAtStartup(p, b, d) PROVE dir' \in [Dir -> DirRow]
  BY <1>25, <1>0, <1>a DEF RestoreAtStartup, RestoreBegin, Held, Take, Owns, Free, Mine, DirRow,
     LocRow, AtRow, Idle, Wanted, Contents, Content, NoDir, Whole
<1>26. ASSUME Fail(p) PROVE dir' \in [Dir -> DirRow]
  BY <1>26, <1>0, <1>a DEF Fail, Leave, Give, Idle, Owns, Free, Mine, DirRow, LocRow, AtRow, Idle,
     Wanted, Contents, Content, NoDir, Whole
<1>27. ASSUME Failed(p) PROVE dir' \in [Dir -> DirRow]
  BY <1>27, <1>0, <1>a DEF Failed, Leave, Give, Idle, Owns, Free, Mine, DirRow, LocRow, AtRow,
     Idle, Wanted, Contents, Content, NoDir, Whole
<1>28. ASSUME Crash(p) PROVE dir' \in [Dir -> DirRow]
  BY <1>28, <1>0, <1>a DEF Crash, Leave, Give, Idle, Owns, Free, Mine, DirRow, LocRow, AtRow,
     Idle, Wanted, Contents, Content, NoDir, Whole
<1>29. ASSUME Quit(p) PROVE dir' \in [Dir -> DirRow]
  BY <1>29, <1>0, <1>a DEF Quit, Leave, Give, Idle, Owns, Free, Mine, DirRow, LocRow, AtRow, Idle,
     Wanted, Contents, Content, NoDir, Whole
<1>30. ASSUME NEW x \in Conf \cup Dir, Lose(p, x) PROVE dir' \in [Dir -> DirRow]
  BY <1>30, <1>0, <1>a DEF Lose, Owns, Free, Mine, DirRow, LocRow, AtRow, Idle, Wanted, Contents,
     Content, NoDir, Whole
<1>31. QED
  BY <1>1, <1>2, <1>3, <1>4, <1>5, <1>6, <1>7, <1>8, <1>9, <1>10, <1>11, <1>12, <1>13, <1>14,
     <1>15, <1>16, <1>17, <1>18, <1>19, <1>20, <1>21, <1>22, <1>23, <1>24, <1>25, <1>26, <1>27,
     <1>28, <1>29, <1>30 DEF Acts, Opening, Maintenance, Trouble

(* A program is at one of the places, with what belongs there.             *)
LEMMA AtShape ==
  ASSUME SessionAssumption, SessionInv, NEW p \in Proc, Acts(p)
  PROVE  at' \in [Proc -> AtRow]
<1>0. /\ dir \in [Dir -> DirRow] /\ lock \in [Conf -> BOOLEAN] /\ loc \in [Conf -> LocRow]
      /\ owner \in [Conf \cup Dir -> Proc \cup {None}] /\ at \in [Proc -> AtRow]
      /\ binds \in Nat /\ last \in [Dir -> -1..MaxRev] /\ hand \subseteq Dir /\ MaxRev \in Nat
      /\ ConfOf \in [Proc -> Conf] /\ Conf \cap Dir = {} /\ None \notin Proc \cup Dir
      /\ at[p].ready => loc[ConfOf[p]].dir # None
      /\ at[p].place = "bound" => ~at[p].lost
  BY DEF SessionAssumption, SessionInv, Shapes, Resting
<1>a. ~at[p].lost => Owns(p) /\ Finds(p) /\ Unlocked(p)
  BY DEF SessionInv, Working
<1>b. Kept
  BY DEF SessionInv
<1>1. ASSUME Start(p) PROVE at' \in [Proc -> AtRow]
  <2>1. at[p] \in AtRow /\ loc[ConfOf[p]].fp \in Nat /\ Ready(ConfOf[p]) \in BOOLEAN
    BY <1>1, <1>0, <1>a DEF Start, Ready, Openable, Owns, AtRow, Wanted, LocRow, Contents
  <2>2. [Idle EXCEPT !.place = "choose"] \in AtRow
    BY <2>1, <1>0, AtRows
  <2>3. [[Idle EXCEPT !.place = "choose"] EXCEPT !.fp = loc[ConfOf[p]].fp] \in AtRow
    BY <2>2, <2>1, <1>0, AtRows
  <2>4. [[[Idle EXCEPT !.place = "choose"] EXCEPT !.fp = loc[ConfOf[p]].fp] EXCEPT !.ready = Ready(ConfOf[p])] \in AtRow
    BY <2>3, <2>1, <1>0, AtRows
  <2>5. at' = [at EXCEPT ![p] = [[[Idle EXCEPT !.place = "choose"] EXCEPT !.fp = loc[ConfOf[p]].fp] EXCEPT !.ready = Ready(ConfOf[p])]]
    BY <1>1, <1>0 DEF Start, Ready, Openable, Go
  <2>6. QED
    BY <2>4, <2>5, <1>0, AtRows
<1>2. ASSUME Cancel(p) PROVE at' \in [Proc -> AtRow]
  BY <1>2, <1>0, <1>a DEF Cancel, Leave, Give, Idle, Owns, Free, Mine, DirRow, LocRow, AtRow,
     Idle, Wanted, Contents, Content, NoDir
<1>3. ASSUME OpenCurrent(p) PROVE at' \in [Proc -> AtRow]
  <2>1. at[p] \in AtRow /\ loc[ConfOf[p]].dir \in Dir
    BY <1>3, <1>0, <1>a DEF OpenCurrent, Same, Owns, AtRow, Wanted, LocRow, Contents, Held
  <2>2. [at[p] EXCEPT !.place = "prepare"] \in AtRow
    BY <2>1, <1>0, AtRows
  <2>3. [[at[p] EXCEPT !.place = "prepare"] EXCEPT !.how = "open"] \in AtRow
    BY <2>2, <2>1, <1>0, AtRows
  <2>4. [[[at[p] EXCEPT !.place = "prepare"] EXCEPT !.how = "open"] EXCEPT !.tgt = loc[ConfOf[p]].dir] \in AtRow
    BY <2>3, <2>1, <1>0, AtRows
  <2>5. at' = [at EXCEPT ![p] = [[[at[p] EXCEPT !.place = "prepare"] EXCEPT !.how = "open"] EXCEPT !.tgt = loc[ConfOf[p]].dir]]
    BY <1>3, <1>0 DEF OpenCurrent, Same, Go
  <2>6. QED
    BY <2>4, <2>5, <1>0, AtRows
<1>4. ASSUME NEW d \in Dir, NEW r \in BOOLEAN, OpenOther(p, d, r) PROVE at' \in [Proc -> AtRow]
  <2>1. at[p] \in AtRow
    BY <1>4, <1>0, <1>a DEF OpenOther, Owns, AtRow, Wanted, LocRow, Contents
  <2>2. [at[p] EXCEPT !.place = "prepare"] \in AtRow
    BY <2>1, <1>0, AtRows
  <2>3. [[at[p] EXCEPT !.place = "prepare"] EXCEPT !.how = "open"] \in AtRow
    BY <2>2, <2>1, <1>0, AtRows
  <2>4. [[[at[p] EXCEPT !.place = "prepare"] EXCEPT !.how = "open"] EXCEPT !.tgt = d] \in AtRow
    BY <2>3, <2>1, <1>0, AtRows
  <2>5. [[[[at[p] EXCEPT !.place = "prepare"] EXCEPT !.how = "open"] EXCEPT !.tgt = d] EXCEPT !.ready = FALSE] \in AtRow
    BY <2>4, <2>1, <1>0, AtRows
  <2>6. at' = [at EXCEPT ![p] = [[[[at[p] EXCEPT !.place = "prepare"] EXCEPT !.how = "open"] EXCEPT !.tgt = d] EXCEPT !.ready = FALSE]]
    BY <1>4, <1>0 DEF OpenOther, Go
  <2>7. QED
    BY <2>5, <2>6, <1>0, AtRows
<1>5. ASSUME NEW d \in Dir, Create(p, d) PROVE at' \in [Proc -> AtRow]
  BY <1>5, <1>0, <1>a DEF Create, Maintaining, Held, Take, Owns, Free, Mine, DirRow, LocRow,
     AtRow, Idle, Wanted, Contents, Content, NoDir
<1>6. ASSUME CreateDatabase(p) PROVE at' \in [Proc -> AtRow]
  BY <1>6, <1>0, <1>a DEF CreateDatabase, Held, Owns, Free, Mine, DirRow, LocRow, AtRow, Idle,
     Wanted, Contents, Content, NoDir
<1>7. ASSUME CreateReady(p) PROVE at' \in [Proc -> AtRow]
  <2>1. at[p] \in AtRow
    BY <1>7, <1>0, <1>a DEF CreateReady, Owns, AtRow, Wanted, LocRow, Contents
  <2>2. [at[p] EXCEPT !.place = "bind"] \in AtRow
    BY <2>1, <1>0, AtRows
  <2>3. at' = [at EXCEPT ![p] = [at[p] EXCEPT !.place = "bind"]]
    BY <1>7, <1>0 DEF CreateReady, Go
  <2>4. QED
    BY <2>2, <2>3, <1>0, AtRows
<1>8. ASSUME Prepared(p) PROVE at' \in [Proc -> AtRow]
  <2>1. CASE at[p].ready
    <3>1. at[p] \in AtRow /\ at[p].tgt \in Dir
      BY <2>1, <1>8, <1>0, <1>a DEF Prepared, Owns, AtRow, Wanted, LocRow, Contents, Held
    <3>2. [at[p] EXCEPT !.place = "session"] \in AtRow
      BY <3>1, <1>0, AtRows
    <3>3. [[at[p] EXCEPT !.place = "session"] EXCEPT !.data = at[p].tgt] \in AtRow
      BY <3>2, <3>1, <1>0, AtRows
    <3>4. at' = [at EXCEPT ![p] = [[at[p] EXCEPT !.place = "session"] EXCEPT !.data = at[p].tgt]]
      BY <2>1, <1>8, <1>0 DEF Prepared, Go
    <3>5. QED
      BY <3>3, <3>4, <1>0, AtRows
  <2>2. CASE ~at[p].ready
    <3>1. at[p] \in AtRow
      BY <2>2, <1>8, <1>0, <1>a DEF Prepared, Owns, AtRow, Wanted, LocRow, Contents
    <3>2. [at[p] EXCEPT !.place = "bind"] \in AtRow
      BY <3>1, <1>0, AtRows
    <3>3. at' = [at EXCEPT ![p] = [at[p] EXCEPT !.place = "bind"]]
      BY <2>2, <1>8, <1>0 DEF Prepared, Go
    <3>4. QED
      BY <3>2, <3>3, <1>0, AtRows
  <2>3. QED
    BY <2>1, <2>2
<1>9. ASSUME NEW d \in Dir, UpgradeBackup(p, d) PROVE at' \in [Proc -> AtRow]
  BY <1>9, <1>0, <1>a DEF UpgradeBackup, BackupBegin, Held, Take, Owns, Free, Mine, DirRow,
     LocRow, AtRow, Idle, Wanted, Contents, Content, NoDir
<1>10. ASSUME Replace(p) PROVE at' \in [Proc -> AtRow]
  <2>1. at[p] \in AtRow
    BY <1>10, <1>0, <1>a DEF Replace, Owns, AtRow, Wanted, LocRow, Contents
  <2>2. [at[p] EXCEPT !.place = "prepare"] \in AtRow
    BY <2>1, <1>0, AtRows
  <2>3. at' = [at EXCEPT ![p] = [at[p] EXCEPT !.place = "prepare"]]
    BY <1>10, <1>0 DEF Replace, Go
  <2>4. QED
    BY <2>2, <2>3, <1>0, AtRows
<1>11. ASSUME BindLock(p) PROVE at' \in [Proc -> AtRow]
  <2>1. at[p] \in AtRow
    BY <1>11, <1>0, <1>a DEF BindLock, Owns, AtRow, Wanted, LocRow, Contents
  <2>2. [at[p] EXCEPT !.place = "locked"] \in AtRow
    BY <2>1, <1>0, AtRows
  <2>3. at' = [at EXCEPT ![p] = [at[p] EXCEPT !.place = "locked"]]
    BY <1>11, <1>0 DEF BindLock, Go
  <2>4. QED
    BY <2>2, <2>3, <1>0, AtRows
<1>12. ASSUME Bind(p) PROVE at' \in [Proc -> AtRow]
  <2>1. at[p] \in AtRow
    BY <1>12, <1>0, <1>a DEF Bind, Owns, AtRow, Wanted, LocRow, Contents
  <2>2. [at[p] EXCEPT !.place = "bound"] \in AtRow
    BY <2>1, <1>0, AtRows
  <2>3. at' = [at EXCEPT ![p] = [at[p] EXCEPT !.place = "bound"]]
    BY <1>12, <1>0 DEF Bind, Go
  <2>4. QED
    BY <2>2, <2>3, <1>0, AtRows
<1>13. ASSUME BindEnd(p) PROVE at' \in [Proc -> AtRow]
  <2>1. CASE at[p].how = "open"
    <3>1. at[p] \in AtRow /\ at[p].tgt \in Dir /\ loc[ConfOf[p]].fp \in Nat
      BY <2>1, <1>13, <1>0, <1>a DEF BindEnd, Owns, AtRow, Wanted, LocRow, Contents
    <3>2. [at[p] EXCEPT !.place = "session"] \in AtRow
      BY <3>1, <1>0, AtRows
    <3>3. [[at[p] EXCEPT !.place = "session"] EXCEPT !.data = at[p].tgt] \in AtRow
      BY <3>2, <3>1, <1>0, AtRows
    <3>4. [[[at[p] EXCEPT !.place = "session"] EXCEPT !.data = at[p].tgt] EXCEPT !.fp = loc[ConfOf[p]].fp] \in AtRow
      BY <3>3, <3>1, <1>0, AtRows
    <3>5. at' = [at EXCEPT ![p] = [[[at[p] EXCEPT !.place = "session"] EXCEPT !.data = at[p].tgt] EXCEPT !.fp = loc[ConfOf[p]].fp]]
      BY <2>1, <1>13, <1>0 DEF BindEnd, Go
    <3>6. QED
      BY <3>4, <3>5, <1>0, AtRows
  <2>2. CASE at[p].how # "open"
    <3>1. at[p] \in AtRow
      BY <2>2, <1>13, <1>0, <1>a DEF BindEnd, Owns, AtRow, Wanted, LocRow, Contents
    <3>2. [at[p] EXCEPT !.place = "done"] \in AtRow
      BY <3>1, <1>0, AtRows
    <3>3. at' = [at EXCEPT ![p] = [at[p] EXCEPT !.place = "done"]]
      BY <2>2, <1>13, <1>0 DEF BindEnd, Go
    <3>4. QED
      BY <3>2, <3>3, <1>0, AtRows
  <2>3. QED
    BY <2>1, <2>2
<1>14. ASSUME Write(p) PROVE at' \in [Proc -> AtRow]
  BY <1>14, <1>0, <1>a DEF Write, Held, Owns, Free, Mine, DirRow, LocRow, AtRow, Idle, Wanted,
     Contents, Content, NoDir
<1>15. ASSUME Quiesce(p) PROVE at' \in [Proc -> AtRow]
  <2>1. at[p] \in AtRow
    BY <1>15, <1>0, <1>a DEF Quiesce, Owns, AtRow, Wanted, LocRow, Contents
  <2>2. [at[p] EXCEPT !.place = "quiet"] \in AtRow
    BY <2>1, <1>0, AtRows
  <2>3. at' = [at EXCEPT ![p] = [at[p] EXCEPT !.place = "quiet"]]
    BY <1>15, <1>0 DEF Quiesce, Go
  <2>4. QED
    BY <2>2, <2>3, <1>0, AtRows
<1>16. ASSUME Release(p) PROVE at' \in [Proc -> AtRow]
  BY <1>16, <1>0, <1>a DEF Release, Leave, Give, Idle, Owns, Free, Mine, DirRow, LocRow, AtRow,
     Idle, Wanted, Contents, Content, NoDir
<1>17. ASSUME CopyDatabase(p) PROVE at' \in [Proc -> AtRow]
  BY <1>17, <1>0, <1>a DEF CopyDatabase, Held, Owns, Free, Mine, DirRow, LocRow, AtRow, Idle,
     Wanted, Contents, Content, NoDir
<1>18. ASSUME CopyBodies(p) PROVE at' \in [Proc -> AtRow]
  BY <1>18, <1>0, <1>a DEF CopyBodies, Held, Owns, Free, Mine, DirRow, LocRow, AtRow, Idle,
     Wanted, Contents, Content, NoDir
<1>19. ASSUME BackupEnd(p) PROVE at' \in [Proc -> AtRow]
  <2>1. at[p] \in AtRow /\ at[p].want.then \in {"quiet", "relocate", "replace"}
    BY <1>19, <1>0, <1>a DEF BackupEnd, Owns, AtRow, Wanted, LocRow, Contents, Held
  <2>2. [at[p] EXCEPT !.place = at[p].want.then] \in AtRow
    BY <2>1, <1>0, AtRows
  <2>3. at' = [at EXCEPT ![p] = [at[p] EXCEPT !.place = at[p].want.then]]
    BY <1>19, <1>0 DEF BackupEnd, Go
  <2>4. QED
    BY <2>2, <2>3, <1>0, AtRows
<1>20. ASSUME RestoreEnd(p) PROVE at' \in [Proc -> AtRow]
  <2>1. CASE at[p].how = "switch"
    <3>1. at[p] \in AtRow
      BY <2>1, <1>20, <1>0, <1>a DEF RestoreEnd, Owns, AtRow, Wanted, LocRow, Contents
    <3>2. [at[p] EXCEPT !.place = "restored"] \in AtRow
      BY <3>1, <1>0, AtRows
    <3>3. at' = [at EXCEPT ![p] = [at[p] EXCEPT !.place = "restored"]]
      BY <2>1, <1>20, <1>0 DEF RestoreEnd, Go
    <3>4. QED
      BY <3>2, <3>3, <1>0, AtRows
  <2>2. CASE at[p].how # "switch"
    BY <2>2, <1>20, <1>0, AtRows DEF RestoreEnd, Leave
  <2>3. QED
    BY <2>1, <2>2
<1>21. ASSUME NEW d \in Dir, Select(p, d) PROVE at' \in [Proc -> AtRow]
  <2>1. at[p] \in AtRow
    BY <1>21, <1>0, <1>a DEF Select, Owns, AtRow, Wanted, LocRow, Contents
  <2>2. [at[p] EXCEPT !.place = "prepare"] \in AtRow
    BY <2>1, <1>0, AtRows
  <2>3. [[at[p] EXCEPT !.place = "prepare"] EXCEPT !.how = "switch"] \in AtRow
    BY <2>2, <2>1, <1>0, AtRows
  <2>4. [[[at[p] EXCEPT !.place = "prepare"] EXCEPT !.how = "switch"] EXCEPT !.tgt = d] \in AtRow
    BY <2>3, <2>1, <1>0, AtRows
  <2>5. [[[[at[p] EXCEPT !.place = "prepare"] EXCEPT !.how = "switch"] EXCEPT !.tgt = d] EXCEPT !.ready = FALSE] \in AtRow
    BY <2>4, <2>1, <1>0, AtRows
  <2>6. at' = [at EXCEPT ![p] = [[[[at[p] EXCEPT !.place = "prepare"] EXCEPT !.how = "switch"] EXCEPT !.tgt = d] EXCEPT !.ready = FALSE]]
    BY <1>21, <1>0 DEF Select, Go
  <2>7. QED
    BY <2>5, <2>6, <1>0, AtRows
<1>22. ASSUME NEW d \in Dir, Relocate(p, d) PROVE at' \in [Proc -> AtRow]
  BY <1>22, <1>0, <1>a DEF Relocate, RestoreBegin, Held, Take, Owns, Free, Mine, DirRow, LocRow,
     AtRow, Idle, Wanted, Contents, Content, NoDir
<1>23. ASSUME NEW b \in Dir, NEW then \in {"quiet", "relocate"}, Backup(p, b, then)
       PROVE  at' \in [Proc -> AtRow]
  BY <1>23, <1>0, <1>a DEF Backup, BackupBegin, Maintaining, Held, Take, Owns, Free, Mine, DirRow,
     LocRow, AtRow, Idle, Wanted, Contents, Content, NoDir
<1>24. ASSUME NEW b \in Dir, NEW d \in Dir, Restore(p, b, d) PROVE at' \in [Proc -> AtRow]
  BY <1>24, <1>0, <1>a DEF Restore, RestoreBegin, Held, Take, Owns, Free, Mine, DirRow, LocRow,
     AtRow, Idle, Wanted, Contents, Content, NoDir
<1>25. ASSUME NEW b \in Dir, NEW d \in Dir, RestoreAtStartup(p, b, d) PROVE at' \in [Proc -> AtRow]
  BY <1>25, <1>0, <1>a DEF RestoreAtStartup, RestoreBegin, Held, Take, Owns, Free, Mine, DirRow,
     LocRow, AtRow, Idle, Wanted, Contents, Content, NoDir
<1>26. ASSUME Fail(p) PROVE at' \in [Proc -> AtRow]
  <2>1. CASE at[p].data = None
    BY <2>1, <1>26, <1>0, AtRows DEF Fail, Leave
  <2>2. CASE at[p].data # None
    <3>1. at[p] \in AtRow /\ at[p].data \in Dir /\ at[p].fp \in Nat /\ at[p].lost \in BOOLEAN
      BY <2>2, <1>26, <1>0, <1>a DEF Fail, Owns, AtRow, Wanted, LocRow, Contents
    <3>2. [Idle EXCEPT !.place = "failed"] \in AtRow
      BY <3>1, <1>0, AtRows
    <3>3. [[Idle EXCEPT !.place = "failed"] EXCEPT !.data = at[p].data] \in AtRow
      BY <3>2, <3>1, <1>0, AtRows
    <3>4. [[[Idle EXCEPT !.place = "failed"] EXCEPT !.data = at[p].data] EXCEPT !.fp = at[p].fp] \in AtRow
      BY <3>3, <3>1, <1>0, AtRows
    <3>5. [[[[Idle EXCEPT !.place = "failed"] EXCEPT !.data = at[p].data] EXCEPT !.fp = at[p].fp] EXCEPT !.lost = at[p].lost] \in AtRow
      BY <3>4, <3>1, <1>0, AtRows
    <3>6. at' = [at EXCEPT ![p] = [[[[Idle EXCEPT !.place = "failed"] EXCEPT !.data = at[p].data] EXCEPT !.fp = at[p].fp] EXCEPT !.lost = at[p].lost]]
      BY <2>2, <1>26, <1>0 DEF Fail, Go
    <3>7. QED
      BY <3>5, <3>6, <1>0, AtRows
  <2>3. QED
    BY <2>1, <2>2
<1>27. ASSUME Failed(p) PROVE at' \in [Proc -> AtRow]
  BY <1>27, <1>0, <1>a DEF Failed, Leave, Give, Idle, Owns, Free, Mine, DirRow, LocRow, AtRow,
     Idle, Wanted, Contents, Content, NoDir
<1>28. ASSUME Crash(p) PROVE at' \in [Proc -> AtRow]
  BY <1>28, <1>0, <1>a DEF Crash, Leave, Give, Idle, Owns, Free, Mine, DirRow, LocRow, AtRow,
     Idle, Wanted, Contents, Content, NoDir
<1>29. ASSUME Quit(p) PROVE at' \in [Proc -> AtRow]
  BY <1>29, <1>0, <1>a DEF Quit, Leave, Give, Idle, Owns, Free, Mine, DirRow, LocRow, AtRow, Idle,
     Wanted, Contents, Content, NoDir
<1>30. ASSUME NEW x \in Conf \cup Dir, Lose(p, x) PROVE at' \in [Proc -> AtRow]
  <2>1. at[p] \in AtRow
    BY <1>30, <1>0, <1>a DEF Lose, Owns, AtRow, Wanted, LocRow, Contents
  <2>2. [at[p] EXCEPT !.lost = TRUE] \in AtRow
    BY <2>1, <1>0, AtRows
  <2>3. at' = [at EXCEPT ![p] = [at[p] EXCEPT !.lost = TRUE]]
    BY <1>30, <1>0 DEF Lose, Go
  <2>4. QED
    BY <2>2, <2>3, <1>0, AtRows
<1>31. QED
  BY <1>1, <1>2, <1>3, <1>4, <1>5, <1>6, <1>7, <1>8, <1>9, <1>10, <1>11, <1>12, <1>13, <1>14,
     <1>15, <1>16, <1>17, <1>18, <1>19, <1>20, <1>21, <1>22, <1>23, <1>24, <1>25, <1>26, <1>27,
     <1>28, <1>29, <1>30 DEF Acts, Opening, Maintenance, Trouble

(* A lease is of a program or of nobody.                                   *)
LEMMA OwnerShape ==
  ASSUME SessionAssumption, SessionInv, NEW p \in Proc, Acts(p)
  PROVE  owner' \in [Conf \cup Dir -> Proc \cup {None}]
<1>0. /\ dir \in [Dir -> DirRow] /\ lock \in [Conf -> BOOLEAN] /\ loc \in [Conf -> LocRow]
      /\ owner \in [Conf \cup Dir -> Proc \cup {None}] /\ at \in [Proc -> AtRow]
      /\ binds \in Nat /\ last \in [Dir -> -1..MaxRev] /\ hand \subseteq Dir /\ MaxRev \in Nat
      /\ ConfOf \in [Proc -> Conf] /\ Conf \cap Dir = {} /\ None \notin Proc \cup Dir
      /\ at[p].ready => loc[ConfOf[p]].dir # None
      /\ at[p].place = "bound" => ~at[p].lost
  BY DEF SessionAssumption, SessionInv, Shapes, Resting
<1>a. ~at[p].lost => Owns(p) /\ Finds(p) /\ Unlocked(p)
  BY DEF SessionInv, Working
<1>b. Kept
  BY DEF SessionInv
<1> USE DEF Owns, Free, Mine, DirRow, LocRow, AtRow, Idle, Wanted, Contents, Content, NoDir
<1>1. ASSUME Start(p) PROVE owner' \in [Conf \cup Dir -> Proc \cup {None}]
  BY <1>1, <1>0, <1>a DEF Start, Take, Idle
<1>2. ASSUME Cancel(p) PROVE owner' \in [Conf \cup Dir -> Proc \cup {None}]
  BY <1>2, <1>0, <1>a DEF Cancel, Leave, Give, Idle
<1>3. ASSUME OpenCurrent(p) PROVE owner' \in [Conf \cup Dir -> Proc \cup {None}]
  BY <1>3, <1>0, <1>a DEF OpenCurrent, Held, Take, Same
<1>4. ASSUME NEW d \in Dir, NEW r \in BOOLEAN, OpenOther(p, d, r)
      PROVE  owner' \in [Conf \cup Dir -> Proc \cup {None}]
  BY <1>4, <1>0, <1>a DEF OpenOther, Held, Take
<1>5. ASSUME NEW d \in Dir, Create(p, d) PROVE owner' \in [Conf \cup Dir -> Proc \cup {None}]
  BY <1>5, <1>0, <1>a DEF Create, Maintaining, Held, Take
<1>6. ASSUME CreateDatabase(p) PROVE owner' \in [Conf \cup Dir -> Proc \cup {None}]
  BY <1>6, <1>0, <1>a DEF CreateDatabase, Held
<1>7. ASSUME CreateReady(p) PROVE owner' \in [Conf \cup Dir -> Proc \cup {None}]
  BY <1>7, <1>0, <1>a DEF CreateReady, Held, Go
<1>8. ASSUME Prepared(p) PROVE owner' \in [Conf \cup Dir -> Proc \cup {None}]
  BY <1>8, <1>0, <1>a DEF Prepared, Held, Go
<1>9. ASSUME NEW d \in Dir, UpgradeBackup(p, d) PROVE owner' \in [Conf \cup Dir -> Proc \cup {None}]
  BY <1>9, <1>0, <1>a DEF UpgradeBackup, BackupBegin, Held, Take
<1>10. ASSUME Replace(p) PROVE owner' \in [Conf \cup Dir -> Proc \cup {None}]
  BY <1>10, <1>0, <1>a DEF Replace, Held, Go
<1>11. ASSUME BindLock(p) PROVE owner' \in [Conf \cup Dir -> Proc \cup {None}]
  BY <1>11, <1>0, <1>a DEF BindLock, Held, Go
<1>12. ASSUME Bind(p) PROVE owner' \in [Conf \cup Dir -> Proc \cup {None}]
  BY <1>12, <1>0, <1>a DEF Bind, Held, Go
<1>13. ASSUME BindEnd(p) PROVE owner' \in [Conf \cup Dir -> Proc \cup {None}]
  BY <1>13, <1>0, <1>a DEF BindEnd
<1>14. ASSUME Write(p) PROVE owner' \in [Conf \cup Dir -> Proc \cup {None}]
  BY <1>14, <1>0, <1>a DEF Write, Held
<1>15. ASSUME Quiesce(p) PROVE owner' \in [Conf \cup Dir -> Proc \cup {None}]
  BY <1>15, <1>0, <1>a DEF Quiesce, Held, Go
<1>16. ASSUME Release(p) PROVE owner' \in [Conf \cup Dir -> Proc \cup {None}]
  BY <1>16, <1>0, <1>a DEF Release, Leave, Give, Idle
<1>17. ASSUME CopyDatabase(p) PROVE owner' \in [Conf \cup Dir -> Proc \cup {None}]
  BY <1>17, <1>0, <1>a DEF CopyDatabase, Held
<1>18. ASSUME CopyBodies(p) PROVE owner' \in [Conf \cup Dir -> Proc \cup {None}]
  BY <1>18, <1>0, <1>a DEF CopyBodies, Held
<1>19. ASSUME BackupEnd(p) PROVE owner' \in [Conf \cup Dir -> Proc \cup {None}]
  BY <1>19, <1>0, <1>a DEF BackupEnd, Held
<1>20. ASSUME RestoreEnd(p) PROVE owner' \in [Conf \cup Dir -> Proc \cup {None}]
  BY <1>20, <1>0, <1>a DEF RestoreEnd, Held, Leave, Give, Idle
<1>21. ASSUME NEW d \in Dir, Select(p, d) PROVE owner' \in [Conf \cup Dir -> Proc \cup {None}]
  BY <1>21, <1>0, <1>a DEF Select, Maintaining, Held, Take
<1>22. ASSUME NEW d \in Dir, Relocate(p, d) PROVE owner' \in [Conf \cup Dir -> Proc \cup {None}]
  BY <1>22, <1>0, <1>a DEF Relocate, RestoreBegin, Held, Take
<1>23. ASSUME NEW b \in Dir, NEW then \in {"quiet", "relocate"}, Backup(p, b, then)
       PROVE  owner' \in [Conf \cup Dir -> Proc \cup {None}]
  BY <1>23, <1>0, <1>a DEF Backup, BackupBegin, Maintaining, Held, Take
<1>24. ASSUME NEW b \in Dir, NEW d \in Dir, Restore(p, b, d)
       PROVE  owner' \in [Conf \cup Dir -> Proc \cup {None}]
  BY <1>24, <1>0, <1>a DEF Restore, RestoreBegin, Held, Take
<1>25. ASSUME NEW b \in Dir, NEW d \in Dir, RestoreAtStartup(p, b, d)
       PROVE  owner' \in [Conf \cup Dir -> Proc \cup {None}]
  BY <1>25, <1>0, <1>a DEF RestoreAtStartup, RestoreBegin, Held, Take
<1>26. ASSUME Fail(p) PROVE owner' \in [Conf \cup Dir -> Proc \cup {None}]
  BY <1>26, <1>0, <1>a DEF Fail, Leave, Give, Idle
<1>27. ASSUME Failed(p) PROVE owner' \in [Conf \cup Dir -> Proc \cup {None}]
  BY <1>27, <1>0, <1>a DEF Failed, Leave, Give, Idle
<1>28. ASSUME Crash(p) PROVE owner' \in [Conf \cup Dir -> Proc \cup {None}]
  BY <1>28, <1>0, <1>a DEF Crash, Leave, Give, Idle
<1>29. ASSUME Quit(p) PROVE owner' \in [Conf \cup Dir -> Proc \cup {None}]
  BY <1>29, <1>0, <1>a DEF Quit, Leave, Give, Idle
<1>30. ASSUME NEW x \in Conf \cup Dir, Lose(p, x)
       PROVE  owner' \in [Conf \cup Dir -> Proc \cup {None}]
  BY <1>30, <1>0, <1>a DEF Lose
<1>31. QED
  BY <1>1, <1>2, <1>3, <1>4, <1>5, <1>6, <1>7, <1>8, <1>9, <1>10, <1>11, <1>12, <1>13, <1>14,
     <1>15, <1>16, <1>17, <1>18, <1>19, <1>20, <1>21, <1>22, <1>23, <1>24, <1>25, <1>26, <1>27,
     <1>28, <1>29, <1>30 DEF Acts, Opening, Maintenance, Trouble

(* The pointers, the locks and the history keep their shapes.              *)
RestShaped ==
  /\ loc' \in [Conf -> LocRow] /\ lock' \in [Conf -> BOOLEAN] /\ binds' \in Nat
  /\ last' \in [Dir -> -1..MaxRev] /\ hand' \subseteq Dir

LEMMA RestShape ==
  ASSUME SessionAssumption, SessionInv, NEW p \in Proc, Acts(p)
  PROVE  RestShaped
<1>0. /\ dir \in [Dir -> DirRow] /\ lock \in [Conf -> BOOLEAN] /\ loc \in [Conf -> LocRow]
      /\ owner \in [Conf \cup Dir -> Proc \cup {None}] /\ at \in [Proc -> AtRow]
      /\ binds \in Nat /\ last \in [Dir -> -1..MaxRev] /\ hand \subseteq Dir /\ MaxRev \in Nat
      /\ ConfOf \in [Proc -> Conf] /\ Conf \cap Dir = {} /\ None \notin Proc \cup Dir
      /\ at[p].ready => loc[ConfOf[p]].dir # None
      /\ at[p].place = "bound" => ~at[p].lost
  BY DEF SessionAssumption, SessionInv, Shapes, Resting
<1>a. ~at[p].lost => Owns(p) /\ Finds(p) /\ Unlocked(p)
  BY DEF SessionInv, Working
<1>b. Kept
  BY DEF SessionInv
<1> USE DEF Owns, Free, Mine, DirRow, LocRow, AtRow, Idle, Wanted, Contents, Content, NoDir, RestShaped
<1>1. ASSUME Start(p) PROVE RestShaped
  BY <1>1, <1>0, <1>a DEF Start, Take, Idle, Recovered
<1>2. ASSUME Cancel(p) PROVE RestShaped
  BY <1>2, <1>0, <1>a DEF Cancel, Leave, Give, Idle
<1>3. ASSUME OpenCurrent(p) PROVE RestShaped
  BY <1>3, <1>0, <1>a DEF OpenCurrent, Held, Take, Same
<1>4. ASSUME NEW d \in Dir, NEW r \in BOOLEAN, OpenOther(p, d, r) PROVE RestShaped
  BY <1>4, <1>0, <1>a DEF OpenOther, Held, Take
<1>5. ASSUME NEW d \in Dir, Create(p, d) PROVE RestShaped
  BY <1>5, <1>0, <1>a DEF Create, Maintaining, Held, Take
<1>6. ASSUME CreateDatabase(p) PROVE RestShaped
  BY <1>6, <1>0, <1>a DEF CreateDatabase, Held
<1>7. ASSUME CreateReady(p) PROVE RestShaped
  BY <1>7, <1>0, <1>a DEF CreateReady, Held, Go
<1>8. ASSUME Prepared(p) PROVE RestShaped
  BY <1>8, <1>0, <1>a DEF Prepared, Held, Go
<1>9. ASSUME NEW d \in Dir, UpgradeBackup(p, d) PROVE RestShaped
  BY <1>9, <1>0, <1>a DEF UpgradeBackup, BackupBegin, Held, Take
<1>10. ASSUME Replace(p) PROVE RestShaped
  BY <1>10, <1>0, <1>a DEF Replace, Held, Go
<1>11. ASSUME BindLock(p) PROVE RestShaped
  BY <1>11, <1>0, <1>a DEF BindLock, Held, Go
<1>12. ASSUME Bind(p) PROVE RestShaped
  BY <1>12, <1>0, <1>a DEF Bind, Held, Go
<1>13. ASSUME BindEnd(p) PROVE RestShaped
  BY <1>13, <1>0, <1>a DEF BindEnd
<1>14. ASSUME Write(p) PROVE RestShaped
  BY <1>14, <1>0, <1>a DEF Write, Held
<1>15. ASSUME Quiesce(p) PROVE RestShaped
  BY <1>15, <1>0, <1>a DEF Quiesce, Held, Go
<1>16. ASSUME Release(p) PROVE RestShaped
  BY <1>16, <1>0, <1>a DEF Release, Leave, Give, Idle
<1>17. ASSUME CopyDatabase(p) PROVE RestShaped
  BY <1>17, <1>0, <1>a DEF CopyDatabase, Held
<1>18. ASSUME CopyBodies(p) PROVE RestShaped
  BY <1>18, <1>0, <1>a DEF CopyBodies, Held
<1>19. ASSUME BackupEnd(p) PROVE RestShaped
  BY <1>19, <1>0, <1>a DEF BackupEnd, Held
<1>20. ASSUME RestoreEnd(p) PROVE RestShaped
  BY <1>20, <1>0, <1>a DEF RestoreEnd, Held, Leave, Give, Idle
<1>21. ASSUME NEW d \in Dir, Select(p, d) PROVE RestShaped
  BY <1>21, <1>0, <1>a DEF Select, Maintaining, Held, Take
<1>22. ASSUME NEW d \in Dir, Relocate(p, d) PROVE RestShaped
  BY <1>22, <1>0, <1>a DEF Relocate, RestoreBegin, Held, Take
<1>23. ASSUME NEW b \in Dir, NEW then \in {"quiet", "relocate"}, Backup(p, b, then) PROVE RestShaped
  BY <1>23, <1>0, <1>a DEF Backup, BackupBegin, Maintaining, Held, Take
<1>24. ASSUME NEW b \in Dir, NEW d \in Dir, Restore(p, b, d) PROVE RestShaped
  BY <1>24, <1>0, <1>a DEF Restore, RestoreBegin, Held, Take
<1>25. ASSUME NEW b \in Dir, NEW d \in Dir, RestoreAtStartup(p, b, d) PROVE RestShaped
  BY <1>25, <1>0, <1>a DEF RestoreAtStartup, RestoreBegin, Held, Take
<1>26. ASSUME Fail(p) PROVE RestShaped
  BY <1>26, <1>0, <1>a DEF Fail, Leave, Give, Idle
<1>27. ASSUME Failed(p) PROVE RestShaped
  BY <1>27, <1>0, <1>a DEF Failed, Leave, Give, Idle
<1>28. ASSUME Crash(p) PROVE RestShaped
  BY <1>28, <1>0, <1>a DEF Crash, Leave, Give, Idle
<1>29. ASSUME Quit(p) PROVE RestShaped
  BY <1>29, <1>0, <1>a DEF Quit, Leave, Give, Idle
<1>30. ASSUME NEW x \in Conf \cup Dir, Lose(p, x) PROVE RestShaped
  BY <1>30, <1>0, <1>a DEF Lose
<1>31. QED
  BY <1>1, <1>2, <1>3, <1>4, <1>5, <1>6, <1>7, <1>8, <1>9, <1>10, <1>11, <1>12, <1>13, <1>14,
     <1>15, <1>16, <1>17, <1>18, <1>19, <1>20, <1>21, <1>22, <1>23, <1>24, <1>25, <1>26, <1>27,
     <1>28, <1>29, <1>30 DEF Acts, Opening, Maintenance, Trouble

(* Only the step that moves the pointer changes it.                        *)
LEMMA OnlyBindMoves ==
  ASSUME NEW p \in Proc, Acts(p)
  PROVE  (loc' = loc /\ binds' = binds) \/ Bind(p)
BY DEF Acts, Opening, Maintenance, Trouble, Start, Cancel, OpenCurrent, OpenOther, Create,
         CreateDatabase, CreateReady, Prepared, UpgradeBackup, BackupBegin, Replace, BindLock,
         BindEnd, Write, Quiesce, Release, CopyDatabase, CopyBodies, BackupEnd, RestoreEnd, Select,
         Relocate, RestoreBegin, Backup, Restore, RestoreAtStartup, Fail, Failed, Crash, Quit, Lose

(* A pointer that is there stays there.                                    *)
LEMMA PointersStay ==
  ASSUME SessionAssumption, SessionInv, NEW p \in Proc, Acts(p), NEW c \in Conf, loc[c].dir # None
  PROVE  loc'[c].dir # None
<1>0. /\ loc \in [Conf -> LocRow] /\ ConfOf \in [Proc -> Conf] /\ None \notin Dir /\ at \in [Proc -> AtRow]
  BY DEF SessionAssumption, SessionInv, Shapes
<1>1. CASE loc' = loc
  BY <1>1
<1>2. CASE Bind(p)
  <2>1. ~at[p].lost /\ at[p].place = "locked"
    BY <1>2 DEF Bind, Held
  <2>2. at[p].tgt # None
    BY <2>1 DEF SessionInv, Working, Owns
  <2>3. QED
    BY <1>0, <1>2, <2>2 DEF Bind, LocRow
<1>3. loc' = loc \/ Bind(p)
  BY OnlyBindMoves
<1>4. QED
  BY <1>1, <1>2, <1>3

(* A program that is off has given back what it had.                       *)
Settles(p) ==
  /\ at'[p].place = "off" => at'[p] = Idle /\ Mine(p)' = {}
  /\ at'[p].place = "bound" => ~at'[p].lost
  /\ at'[p].ready => loc[ConfOf[p]].dir # None

LEMMA RestShapes ==
  ASSUME SessionAssumption, SessionInv, NEW p \in Proc, Acts(p)
  PROVE  Settles(p)
<1>0. /\ dir \in [Dir -> DirRow] /\ lock \in [Conf -> BOOLEAN] /\ loc \in [Conf -> LocRow]
      /\ owner \in [Conf \cup Dir -> Proc \cup {None}] /\ at \in [Proc -> AtRow]
      /\ binds \in Nat /\ last \in [Dir -> -1..MaxRev] /\ hand \subseteq Dir /\ MaxRev \in Nat
      /\ ConfOf \in [Proc -> Conf] /\ Conf \cap Dir = {} /\ None \notin Proc \cup Dir
      /\ at[p].ready => loc[ConfOf[p]].dir # None
      /\ at[p].place = "bound" => ~at[p].lost
      /\ at[p].place = "off" => at[p] = Idle /\ Mine(p) = {}
  BY DEF SessionAssumption, SessionInv, Shapes, Resting
<1>a. ~at[p].lost => Owns(p) /\ Finds(p) /\ Unlocked(p)
  BY DEF SessionInv, Working
<1> USE DEF Settles, Owns, Free, Mine, AtRow, Idle
<1>1. ASSUME Start(p) PROVE Settles(p)
  BY <1>1, <1>0, <1>a DEF Start, Take, Idle, Ready
<1>2. ASSUME Cancel(p) PROVE Settles(p)
  BY <1>2, <1>0, <1>a DEF Cancel, Leave, Give, Idle
<1>3. ASSUME OpenCurrent(p) PROVE Settles(p)
  BY <1>3, <1>0, <1>a DEF OpenCurrent, Held, Take, Same
<1>4. ASSUME NEW d \in Dir, NEW r \in BOOLEAN, OpenOther(p, d, r) PROVE Settles(p)
  BY <1>4, <1>0, <1>a DEF OpenOther, Held, Take
<1>5. ASSUME NEW d \in Dir, Create(p, d) PROVE Settles(p)
  BY <1>5, <1>0, <1>a DEF Create, Maintaining, Held, Take
<1>6. ASSUME CreateDatabase(p) PROVE Settles(p)
  BY <1>6, <1>0, <1>a DEF CreateDatabase, Held
<1>7. ASSUME CreateReady(p) PROVE Settles(p)
  BY <1>7, <1>0, <1>a DEF CreateReady, Held, Go
<1>8. ASSUME Prepared(p) PROVE Settles(p)
  BY <1>8, <1>0, <1>a DEF Prepared, Held, Go
<1>9. ASSUME NEW d \in Dir, UpgradeBackup(p, d) PROVE Settles(p)
  BY <1>9, <1>0, <1>a DEF UpgradeBackup, BackupBegin, Held, Take
<1>10. ASSUME Replace(p) PROVE Settles(p)
  BY <1>10, <1>0, <1>a DEF Replace, Held, Go
<1>11. ASSUME BindLock(p) PROVE Settles(p)
  BY <1>11, <1>0, <1>a DEF BindLock, Held, Go
<1>12. ASSUME Bind(p) PROVE Settles(p)
  BY <1>12, <1>0, <1>a DEF Bind, Held, Go
<1>13. ASSUME BindEnd(p) PROVE Settles(p)
  BY <1>13, <1>0, <1>a DEF BindEnd
<1>14. ASSUME Write(p) PROVE Settles(p)
  BY <1>14, <1>0, <1>a DEF Write, Held
<1>15. ASSUME Quiesce(p) PROVE Settles(p)
  BY <1>15, <1>0, <1>a DEF Quiesce, Held, Go
<1>16. ASSUME Release(p) PROVE Settles(p)
  BY <1>16, <1>0, <1>a DEF Release, Leave, Give, Idle
<1>17. ASSUME CopyDatabase(p) PROVE Settles(p)
  BY <1>17, <1>0, <1>a DEF CopyDatabase, Held
<1>18. ASSUME CopyBodies(p) PROVE Settles(p)
  BY <1>18, <1>0, <1>a DEF CopyBodies, Held
<1>19. ASSUME BackupEnd(p) PROVE Settles(p)
  <2>1. ~at[p].lost /\ at[p].place = "copy"
    BY <1>19 DEF BackupEnd, Held
  <2>2. at[p].want.then \in {"quiet", "relocate", "replace", "restored"}
    BY <2>1, <1>a DEF Wanted
  <2>3. at' = [at EXCEPT ![p].place = at[p].want.then]
    BY <1>19 DEF BackupEnd
  <2>4. at'[p].place = at[p].want.then /\ at'[p].ready = at[p].ready
    BY <2>3, <1>0
  <2>5. QED
    BY <2>2, <2>4, <1>0
<1>20. ASSUME RestoreEnd(p) PROVE Settles(p)
  <2>1. CASE at[p].how = "switch"
    <3>1. at' = [at EXCEPT ![p].place = "restored"]
      BY <1>20, <2>1 DEF RestoreEnd
    <3>2. at'[p].place = "restored" /\ at'[p].ready = at[p].ready
      BY <3>1, <1>0
    <3>3. QED
      BY <3>2, <1>0
  <2>2. CASE at[p].how # "switch"
    BY <1>20, <2>2, <1>0 DEF RestoreEnd, Leave, Give
  <2>3. QED
    BY <2>1, <2>2
<1>21. ASSUME NEW d \in Dir, Select(p, d) PROVE Settles(p)
  BY <1>21, <1>0, <1>a DEF Select, Maintaining, Held, Take
<1>22. ASSUME NEW d \in Dir, Relocate(p, d) PROVE Settles(p)
  BY <1>22, <1>0, <1>a DEF Relocate, RestoreBegin, Held, Take
<1>23. ASSUME NEW b \in Dir, NEW then \in {"quiet", "relocate"}, Backup(p, b, then) PROVE Settles(p)
  BY <1>23, <1>0, <1>a DEF Backup, BackupBegin, Maintaining, Held, Take
<1>24. ASSUME NEW b \in Dir, NEW d \in Dir, Restore(p, b, d) PROVE Settles(p)
  BY <1>24, <1>0, <1>a DEF Restore, RestoreBegin, Held, Take
<1>25. ASSUME NEW b \in Dir, NEW d \in Dir, RestoreAtStartup(p, b, d) PROVE Settles(p)
  BY <1>25, <1>0, <1>a DEF RestoreAtStartup, RestoreBegin, Held, Take
<1>26. ASSUME Fail(p) PROVE Settles(p)
  <2>1. CASE at[p].data = None
    BY <1>26, <1>0, <2>1 DEF Fail, Leave, Give
  <2>2. CASE at[p].data # None
    <3>1. at' = [at EXCEPT ![p] = [Idle EXCEPT !.place = "failed", !.data = at[p].data,
                                               !.fp = at[p].fp, !.lost = at[p].lost]]
      BY <1>26, <2>2 DEF Fail
    <3>2. at'[p].place = "failed" /\ at'[p].ready = FALSE
      BY <3>1, <1>0
    <3>3. QED
      BY <3>2
  <2>3. QED
    BY <2>1, <2>2
<1>27. ASSUME Failed(p) PROVE Settles(p)
  BY <1>27, <1>0, <1>a DEF Failed, Leave, Give, Idle
<1>28. ASSUME Crash(p) PROVE Settles(p)
  BY <1>28, <1>0, <1>a DEF Crash, Leave, Give, Idle
<1>29. ASSUME Quit(p) PROVE Settles(p)
  BY <1>29, <1>0, <1>a DEF Quit, Leave, Give, Idle
<1>30. ASSUME NEW x \in Conf \cup Dir, Lose(p, x) PROVE Settles(p)
  BY <1>30, <1>0, <1>a DEF Lose
<1>31. QED
  BY <1>1, <1>2, <1>3, <1>4, <1>5, <1>6, <1>7, <1>8, <1>9, <1>10, <1>11, <1>12, <1>13, <1>14,
     <1>15, <1>16, <1>17, <1>18, <1>19, <1>20, <1>21, <1>22, <1>23, <1>24, <1>25, <1>26, <1>27,
     <1>28, <1>29, <1>30 DEF Acts, Opening, Maintenance, Trouble

LEMMA RestingKept ==
  ASSUME SessionAssumption, SessionInv, NEW p \in Proc, Acts(p)
  PROVE  Resting'
<1>0. ConfOf \in [Proc -> Conf] /\ Resting
  BY DEF SessionAssumption, SessionInv
<1>1. SUFFICES ASSUME NEW q \in Proc
      PROVE /\ at'[q].place = "off" => at'[q] = Idle /\ Mine(q)' = {}
            /\ at'[q].place = "bound" => ~at'[q].lost
            /\ at'[q].ready => loc'[ConfOf[q]].dir # None
  BY DEF Resting
<1>2. CASE q = p
  BY <1>2, <1>0, RestShapes, PointersStay DEF Settles
<1>3. CASE q # p
  <2>1. at'[q] = at[q] /\ (Mine(q) = {} => Mine(q)' = {})
    BY <1>3, OthersKeep DEF Leaves, Mine
  <2>2. QED
    BY <2>1, <1>0, PointersStay DEF Resting
<1>4. QED
  BY <1>2, <1>3

(***************************************************************************)
(* What a step of a program does to a directory: nothing, or one of these. *)
(***************************************************************************)
(* It keeps the name and the mark that it has.                             *)
Named(d) == dir'[d].man = dir[d].man /\ dir'[d].id = dir[d].id
Marked(d) == dir'[d].mark = dir[d].mark /\ dir'[d].receipt = dir[d].receipt
Full(d) == dir'[d].db = dir[d].db /\ dir'[d].body = dir[d].body /\ last'[d] = last[d]

Untouched(d) == dir'[d] = dir[d] /\ last'[d] = last[d]

Made(d) ==
  /\ dir[d] = NoDir /\ Full(d) /\ dir'[d].receipt = None /\ dir'[d].id \in Dir
  /\ dir'[d].man \in {"PREPARING", "READY"} /\ (dir'[d].mark <=> dir'[d].man = "READY")

Founded(d) ==
  /\ dir[d].man = "PREPARING" /\ ~dir[d].mark /\ Named(d) /\ Marked(d)
  /\ dir'[d].db = 0 /\ dir'[d].body = 0 /\ last'[d] = 0

Readied(d) ==
  /\ dir[d].man = "PREPARING" /\ ~dir[d].mark /\ dir[d].db >= 0
  /\ dir'[d].man = "READY" /\ dir'[d].id = dir[d].id /\ Marked(d) /\ Full(d)

Filled(d) ==
  /\ dir[d].mark /\ dir[d].receipt = None /\ Named(d) /\ Marked(d)
  /\ dir'[d].db = last'[d] \/ (dir'[d].db = dir[d].db /\ last'[d] = last[d])

Closed(d) ==
  /\ dir[d].mark /\ dir[d].man = "READY" /\ dir[d].db >= 0 /\ dir[d].db = dir[d].body
  /\ Named(d) /\ dir'[d].mark = dir[d].mark /\ dir'[d].receipt = Content(d) /\ Full(d)

Upgraded(d) == ~dir[d].mark /\ Named(d) /\ Marked(d) /\ Full(d)

Opened(d) ==
  /\ dir[d].mark /\ dir[d].man = "READY" /\ dir[d].receipt = None /\ dir[d].db >= 0
  /\ dir[d].db = dir[d].body
  /\ Named(d) /\ ~dir'[d].mark /\ dir'[d].receipt = None /\ Full(d)

Written(d) ==
  /\ dir[d].man = "READY" /\ ~dir[d].mark /\ Named(d) /\ Marked(d)
  /\ dir'[d].db = dir[d].db + 1 /\ dir'[d].body = dir[d].body + 1 /\ last'[d] = last[d] + 1

Renewed(d) ==
  \/ Untouched(d) \/ Made(d) \/ Founded(d) \/ Readied(d) \/ Filled(d)
  \/ Closed(d) \/ Upgraded(d) \/ Opened(d) \/ Written(d)

(* Every directory is left alone or gets one of these steps.               *)
LEMMA EachRenewed ==
  ASSUME SessionAssumption, SessionInv, NEW p \in Proc, Acts(p), NEW y \in Dir
  PROVE  Renewed(y)
<1>0. /\ dir \in [Dir -> DirRow] /\ lock \in [Conf -> BOOLEAN] /\ loc \in [Conf -> LocRow]
      /\ owner \in [Conf \cup Dir -> Proc \cup {None}] /\ at \in [Proc -> AtRow]
      /\ binds \in Nat /\ last \in [Dir -> -1..MaxRev] /\ hand \subseteq Dir /\ MaxRev \in Nat
      /\ ConfOf \in [Proc -> Conf] /\ Conf \cap Dir = {} /\ None \notin Proc \cup Dir
      /\ at[p].ready => loc[ConfOf[p]].dir # None
      /\ at[p].place = "bound" => ~at[p].lost
  BY DEF SessionAssumption, SessionInv, Shapes, Resting
<1>a. ~at[p].lost => Owns(p) /\ Finds(p) /\ Unlocked(p)
  BY DEF SessionInv, Working
<1>b. Kept
  BY DEF SessionInv
<1>1. ASSUME Start(p) PROVE Renewed(y)
  BY <1>1, <1>0, <1>a DEF Start, Take, Idle, Renewed, Untouched
<1>2. ASSUME Cancel(p) PROVE Renewed(y)
  BY <1>2, <1>0, <1>a DEF Cancel, Leave, Give, Idle, Renewed, Untouched
<1>3. ASSUME OpenCurrent(p) PROVE Renewed(y)
  BY <1>3, <1>0, <1>a DEF OpenCurrent, Held, Take, Same, Renewed, Untouched
<1>4. ASSUME NEW d \in Dir, NEW r \in BOOLEAN, OpenOther(p, d, r) PROVE Renewed(y)
  BY <1>4, <1>0, <1>a DEF OpenOther, Held, Take, Renewed, Untouched
<1>5. ASSUME NEW d \in Dir, Create(p, d) PROVE Renewed(y)
  <2>1. d \in Dir /\ (y # d => dir'[y] = dir[y] /\ last'[y] = last[y])
    BY <1>5, <1>0, <1>a DEF Create, Owns, AtRow, DirRow, Content, Contents
  <2>2. CASE y = d
    BY <1>5, <2>1, <2>2, <1>0 DEF Create, Renewed, Made, Named, Marked, Full, DirRow, NoDir
  <2>3. CASE y # d
    BY <2>1, <2>3 DEF Renewed, Untouched
  <2>4. QED
    BY <2>2, <2>3
<1>6. ASSUME CreateDatabase(p) PROVE Renewed(y)
  <2>1. at[p].tgt \in Dir /\ (y # at[p].tgt => dir'[y] = dir[y] /\ last'[y] = last[y])
    BY <1>6, <1>0, <1>a DEF CreateDatabase, Held, Owns, AtRow, DirRow, Content, Contents
  <2>2. dir[at[p].tgt].man = "PREPARING" /\ ~dir[at[p].tgt].mark
    BY <1>6, <1>0, <1>a, <1>b DEF CreateDatabase, Held, Owns, Finds, Whole, Content, AtRow,
       DirRow, Wanted, Contents, Kept
  <2>3. CASE y = at[p].tgt
    BY <1>6, <2>1, <2>2, <2>3, <1>0 DEF CreateDatabase, Held, Renewed, Founded, Named, Marked,
       Full, DirRow
  <2>4. CASE y # at[p].tgt
    BY <2>1, <2>4 DEF Renewed, Untouched
  <2>5. QED
    BY <2>3, <2>4
<1>7. ASSUME CreateReady(p) PROVE Renewed(y)
  <2>1. at[p].tgt \in Dir /\ (y # at[p].tgt => dir'[y] = dir[y] /\ last'[y] = last[y])
    BY <1>7, <1>0, <1>a DEF CreateReady, Held, Owns, AtRow, DirRow, Content, Contents
  <2>2. dir[at[p].tgt].man = "PREPARING" /\ ~dir[at[p].tgt].mark /\ dir[at[p].tgt].db >= 0
    BY <1>7, <1>0, <1>a, <1>b DEF CreateReady, Held, Owns, Finds, Whole, Content, AtRow, DirRow,
       Wanted, Contents, Kept
  <2>3. CASE y = at[p].tgt
    BY <1>7, <2>1, <2>2, <2>3, <1>0 DEF CreateReady, Held, Renewed, Readied, Named, Marked, Full,
       DirRow
  <2>4. CASE y # at[p].tgt
    BY <2>1, <2>4 DEF Renewed, Untouched
  <2>5. QED
    BY <2>3, <2>4
<1>8. ASSUME Prepared(p) PROVE Renewed(y)
  BY <1>8, <1>0, <1>a DEF Prepared, Held, Go, Renewed, Untouched
<1>9. ASSUME NEW d \in Dir, UpgradeBackup(p, d) PROVE Renewed(y)
  <2>1. d \in Dir /\ (y # d => dir'[y] = dir[y] /\ last'[y] = last[y])
    BY <1>9, <1>0, <1>a DEF UpgradeBackup, BackupBegin, Owns, AtRow, DirRow, Content, Contents
  <2>2. dir[at[p].tgt].id \in Dir
    BY <1>9, <1>0, <1>a, <1>b DEF UpgradeBackup, BackupBegin, Openable, Held, Owns, Finds, Whole,
       Content, AtRow, DirRow, Wanted, Contents, Kept
  <2>3. CASE y = d
    BY <1>9, <2>1, <2>2, <2>3, <1>0 DEF UpgradeBackup, BackupBegin, Renewed, Made, Named, Marked,
       Full, DirRow, NoDir
  <2>4. CASE y # d
    BY <2>1, <2>4 DEF Renewed, Untouched
  <2>5. QED
    BY <2>3, <2>4
<1>10. ASSUME Replace(p) PROVE Renewed(y)
  <2>1. at[p].tgt \in Dir /\ (y # at[p].tgt => dir'[y] = dir[y] /\ last'[y] = last[y])
    BY <1>10, <1>0, <1>a DEF Replace, Held, Owns, AtRow, DirRow, Content, Contents
  <2>2. ~dir[at[p].tgt].mark /\ dir[at[p].tgt].db = dir[at[p].dst].db
    BY <1>10, <1>0, <1>a, <1>b DEF Replace, Held, Verified, UnchangedSince, Owns, Finds, Whole,
       Content, AtRow, DirRow, Wanted, Contents, Kept
  <2>3. CASE y = at[p].tgt
    BY <1>10, <2>1, <2>2, <2>3, <1>0 DEF Replace, Held, Renewed, Upgraded, Named, Marked, Full,
       DirRow
  <2>4. CASE y # at[p].tgt
    BY <2>1, <2>4 DEF Renewed, Untouched
  <2>5. QED
    BY <2>3, <2>4
<1>11. ASSUME BindLock(p) PROVE Renewed(y)
  BY <1>11, <1>0, <1>a DEF BindLock, Held, Go, Renewed, Untouched
<1>12. ASSUME Bind(p) PROVE Renewed(y)
  BY <1>12, <1>0, <1>a DEF Bind, Held, Go, Renewed, Untouched
<1>13. ASSUME BindEnd(p) PROVE Renewed(y)
  BY <1>13, <1>0, <1>a DEF BindEnd, Renewed, Untouched
<1>14. ASSUME Write(p) PROVE Renewed(y)
  <2>1. at[p].data \in Dir /\ (y # at[p].data => dir'[y] = dir[y] /\ last'[y] = last[y])
    BY <1>14, <1>0, <1>a DEF Write, Held, Owns, AtRow, DirRow, Content, Contents
  <2>2. dir[at[p].data].man = "READY" /\ ~dir[at[p].data].mark
    BY <1>14, <1>0, <1>a, <1>b DEF Write, Held, Owns, Finds, Whole, Content, AtRow, DirRow,
       Wanted, Contents, Kept
  <2>3. CASE y = at[p].data
    BY <1>14, <2>1, <2>2, <2>3, <1>0 DEF Write, Held, Renewed, Written, Named, Marked, Full, DirRow
  <2>4. CASE y # at[p].data
    BY <2>1, <2>4 DEF Renewed, Untouched
  <2>5. QED
    BY <2>3, <2>4
<1>15. ASSUME Quiesce(p) PROVE Renewed(y)
  BY <1>15, <1>0, <1>a DEF Quiesce, Held, Go, Renewed, Untouched
<1>16. ASSUME Release(p) PROVE Renewed(y)
  BY <1>16, <1>0, <1>a DEF Release, Leave, Give, Idle, Renewed, Untouched
<1>17. ASSUME CopyDatabase(p) PROVE Renewed(y)
  <2>1. at[p].dst \in Dir /\ (y # at[p].dst => dir'[y] = dir[y] /\ last'[y] = last[y])
    BY <1>17, <1>0, <1>a DEF CopyDatabase, Held, Owns, AtRow, DirRow, Content, Contents
  <2>2. dir[at[p].dst].mark /\ dir[at[p].dst].receipt = None
    BY <1>17, <1>0, <1>a, <1>b DEF CopyDatabase, Held, Owns, Finds, Whole, Content, AtRow, DirRow,
       Wanted, Contents, Kept
  <2>3. CASE y = at[p].dst
    BY <1>17, <2>1, <2>2, <2>3, <1>0 DEF CopyDatabase, Held, Renewed, Filled, Named, Marked, Full,
       DirRow
  <2>4. CASE y # at[p].dst
    BY <2>1, <2>4 DEF Renewed, Untouched
  <2>5. QED
    BY <2>3, <2>4
<1>18. ASSUME CopyBodies(p) PROVE Renewed(y)
  <2>1. at[p].dst \in Dir /\ (y # at[p].dst => dir'[y] = dir[y] /\ last'[y] = last[y])
    BY <1>18, <1>0, <1>a DEF CopyBodies, Held, Owns, AtRow, DirRow, Content, Contents
  <2>2. dir[at[p].dst].mark /\ dir[at[p].dst].receipt = None
    BY <1>18, <1>0, <1>a, <1>b DEF CopyBodies, Held, Owns, Finds, Whole, Content, AtRow, DirRow,
       Wanted, Contents, Kept
  <2>3. CASE y = at[p].dst
    BY <1>18, <2>1, <2>2, <2>3, <1>0 DEF CopyBodies, Held, Renewed, Filled, Named, Marked, Full,
       DirRow
  <2>4. CASE y # at[p].dst
    BY <2>1, <2>4 DEF Renewed, Untouched
  <2>5. QED
    BY <2>3, <2>4
<1>19. ASSUME BackupEnd(p) PROVE Renewed(y)
  <2>1. at[p].dst \in Dir /\ (y # at[p].dst => dir'[y] = dir[y] /\ last'[y] = last[y])
    BY <1>19, <1>0, <1>a DEF BackupEnd, Held, Owns, AtRow, DirRow, Content, Contents
  <2>2. /\ dir[at[p].dst].mark /\ dir[at[p].dst].man = "READY" /\ dir[at[p].dst].db >= 0
        /\ dir[at[p].dst].db = dir[at[p].dst].body /\ Content(at[p].dst) = at[p].want.what
    BY <1>19, <1>0, <1>a, <1>b DEF BackupEnd, Held, Copied, Owns, Finds, Whole, Content, AtRow,
       DirRow, Wanted, Contents, Kept
  <2>3. CASE y = at[p].dst
    BY <1>19, <2>1, <2>2, <2>3, <1>0 DEF BackupEnd, Held, Renewed, Closed, Named, Marked, Full,
       DirRow, Content
  <2>4. CASE y # at[p].dst
    BY <2>1, <2>4 DEF Renewed, Untouched
  <2>5. QED
    BY <2>3, <2>4
<1>20. ASSUME RestoreEnd(p) PROVE Renewed(y)
  <2>1. at[p].dst \in Dir /\ (y # at[p].dst => dir'[y] = dir[y] /\ last'[y] = last[y])
    BY <1>20, <1>0, <1>a DEF RestoreEnd, Held, Owns, AtRow, DirRow, Content, Contents
  <2>2. /\ dir[at[p].dst].mark /\ dir[at[p].dst].man = "READY" /\ dir[at[p].dst].receipt = None
        /\ dir[at[p].dst].db >= 0 /\ dir[at[p].dst].db = dir[at[p].dst].body
    BY <1>20, <1>0, <1>a, <1>b DEF RestoreEnd, Held, Copied, Verified, Owns, Finds, Whole,
       Content, AtRow, DirRow, Wanted, Contents, Kept
  <2>3. CASE y = at[p].dst
    BY <1>20, <2>1, <2>2, <2>3, <1>0 DEF RestoreEnd, Held, Renewed, Opened, Named, Marked, Full,
       DirRow
  <2>4. CASE y # at[p].dst
    BY <2>1, <2>4 DEF Renewed, Untouched
  <2>5. QED
    BY <2>3, <2>4
<1>21. ASSUME NEW d \in Dir, Select(p, d) PROVE Renewed(y)
  BY <1>21, <1>0, <1>a DEF Select, Maintaining, Held, Take, Renewed, Untouched
<1>22. ASSUME NEW d \in Dir, Relocate(p, d) PROVE Renewed(y)
  <2>1. d \in Dir /\ (y # d => dir'[y] = dir[y] /\ last'[y] = last[y])
    BY <1>22, <1>0, <1>a DEF Relocate, RestoreBegin, Owns, AtRow, DirRow, Content, Contents
  <2>2. dir[at[p].dst].id \in Dir
    BY <1>22, <1>0, <1>a, <1>b DEF Relocate, RestoreBegin, Verified, Held, Owns, Finds, Whole,
       Content, AtRow, DirRow, Wanted, Contents, Kept
  <2>3. CASE y = d
    BY <1>22, <2>1, <2>2, <2>3, <1>0 DEF Relocate, RestoreBegin, Renewed, Made, Named, Marked,
       Full, DirRow, NoDir
  <2>4. CASE y # d
    BY <2>1, <2>4 DEF Renewed, Untouched
  <2>5. QED
    BY <2>3, <2>4
<1>23. ASSUME NEW b \in Dir, NEW then \in {"quiet", "relocate"}, Backup(p, b, then) PROVE Renewed(y)
  <2>1. b \in Dir /\ (y # b => dir'[y] = dir[y] /\ last'[y] = last[y])
    BY <1>23, <1>0, <1>a DEF Backup, BackupBegin, Owns, AtRow, DirRow, Content, Contents
  <2>2. dir[at[p].data].id \in Dir
    BY <1>23, <1>0, <1>a, <1>b DEF Backup, BackupBegin, Openable, Held, Maintaining, Owns, Finds,
       Whole, Content, AtRow, DirRow, Wanted, Contents, Kept
  <2>3. CASE y = b
    BY <1>23, <2>1, <2>2, <2>3, <1>0 DEF Backup, BackupBegin, Renewed, Made, Named, Marked, Full,
       DirRow, NoDir
  <2>4. CASE y # b
    BY <2>1, <2>4 DEF Renewed, Untouched
  <2>5. QED
    BY <2>3, <2>4
<1>24. ASSUME NEW b \in Dir, NEW d \in Dir, Restore(p, b, d) PROVE Renewed(y)
  <2>1. d \in Dir /\ (y # d => dir'[y] = dir[y] /\ last'[y] = last[y])
    BY <1>24, <1>0, <1>a DEF Restore, RestoreBegin, Owns, AtRow, DirRow, Content, Contents
  <2>2. dir[b].id \in Dir
    BY <1>24, <1>0, <1>a, <1>b DEF Restore, RestoreBegin, Verified, Held, Owns, Finds, Whole,
       Content, AtRow, DirRow, Wanted, Contents, Kept
  <2>3. CASE y = d
    BY <1>24, <2>1, <2>2, <2>3, <1>0 DEF Restore, RestoreBegin, Renewed, Made, Named, Marked,
       Full, DirRow, NoDir
  <2>4. CASE y # d
    BY <2>1, <2>4 DEF Renewed, Untouched
  <2>5. QED
    BY <2>3, <2>4
<1>25. ASSUME NEW b \in Dir, NEW d \in Dir, RestoreAtStartup(p, b, d) PROVE Renewed(y)
  <2>1. d \in Dir /\ (y # d => dir'[y] = dir[y] /\ last'[y] = last[y])
    BY <1>25, <1>0, <1>a DEF RestoreAtStartup, RestoreBegin, Owns, AtRow, DirRow, Content, Contents
  <2>2. dir[b].id \in Dir
    BY <1>25, <1>0, <1>a, <1>b DEF RestoreAtStartup, RestoreBegin, Verified, Held, Owns, Finds,
       Whole, Content, AtRow, DirRow, Wanted, Contents, Kept
  <2>3. CASE y = d
    BY <1>25, <2>1, <2>2, <2>3, <1>0 DEF RestoreAtStartup, RestoreBegin, Renewed, Made, Named,
       Marked, Full, DirRow, NoDir
  <2>4. CASE y # d
    BY <2>1, <2>4 DEF Renewed, Untouched
  <2>5. QED
    BY <2>3, <2>4
<1>26. ASSUME Fail(p) PROVE Renewed(y)
  BY <1>26, <1>0, <1>a DEF Fail, Leave, Give, Idle, Renewed, Untouched
<1>27. ASSUME Failed(p) PROVE Renewed(y)
  BY <1>27, <1>0, <1>a DEF Failed, Leave, Give, Idle, Renewed, Untouched
<1>28. ASSUME Crash(p) PROVE Renewed(y)
  BY <1>28, <1>0, <1>a DEF Crash, Leave, Give, Idle, Renewed, Untouched
<1>29. ASSUME Quit(p) PROVE Renewed(y)
  BY <1>29, <1>0, <1>a DEF Quit, Leave, Give, Idle, Renewed, Untouched
<1>30. ASSUME NEW x \in Conf \cup Dir, Lose(p, x) PROVE Renewed(y)
  BY <1>30, <1>0, <1>a DEF Lose, Renewed, Untouched
<1>31. QED
  BY <1>1, <1>2, <1>3, <1>4, <1>5, <1>6, <1>7, <1>8, <1>9, <1>10, <1>11, <1>12, <1>13, <1>14,
     <1>15, <1>16, <1>17, <1>18, <1>19, <1>20, <1>21, <1>22, <1>23, <1>24, <1>25, <1>26, <1>27,
     <1>28, <1>29, <1>30 DEF Acts, Opening, Maintenance, Trouble

(***************************************************************************)
(* What is in the directories stays as it is kept.                         *)
(***************************************************************************)
KeptIn(d) ==
  /\ dir[d].man # "none" <=> dir[d].id # None
  /\ dir[d].receipt # None => dir[d].man = "READY"
  /\ dir[d].receipt # None \/ (dir[d].man = "READY" /\ ~dir[d].mark) => dir[d].db >= 0
  /\ dir[d].db >= 0 => dir[d].db = last[d]
  /\ d \notin hand =>
       /\ ~dir[d].mark => dir[d].db = dir[d].body
       /\ dir[d].receipt # None => dir[d].mark /\ Content(d) = dir[d].receipt /\ dir[d].db = dir[d].body

Led == \A c \in Conf : loc[c].dir # None =>
         dir[loc[c].dir].man = "READY" /\ ~dir[loc[c].dir].mark /\ dir[loc[c].dir].id = loc[c].id

LEMMA KeptParts ==
  Kept <=> (\A d \in Dir : KeptIn(d)) /\ Led /\ \A c \in Conf : loc[c].fp <= binds
BY DEF Kept, KeptIn, Led, BackupIsWhole, WritesStay

LEMMA KeptInKept ==
  ASSUME SessionAssumption, SessionInv, NEW d \in Dir, Renewed(d), hand' = hand, dir' \in [Dir -> DirRow]
  PROVE  KeptIn(d)' /\ (dir[d].man = "READY" /\ ~dir[d].mark =>
           dir'[d].man = "READY" /\ ~dir'[d].mark /\ dir'[d].id = dir[d].id)
<1>1. KeptIn(d) /\ None \notin Dir /\ dir[d] \in DirRow /\ last[d] \in Int
  BY KeptParts DEF SessionInv, SessionAssumption, Shapes
<1> USE DEF KeptIn, Content, Named, Marked, Full, DirRow, NoDir
<1>2. CASE Untouched(d)
  BY <1>1, <1>2 DEF Untouched
<1>3. CASE Made(d)
  BY <1>1, <1>3 DEF Made
<1>4. CASE Founded(d)
  BY <1>1, <1>4 DEF Founded
<1>5. CASE Readied(d)
  BY <1>1, <1>5 DEF Readied
<1>6. CASE Filled(d)
  BY <1>1, <1>6 DEF Filled
<1>7. CASE Closed(d)
  BY <1>1, <1>7 DEF Closed
<1>8. CASE Upgraded(d)
  BY <1>1, <1>8 DEF Upgraded
<1>9. CASE Opened(d)
  BY <1>1, <1>9 DEF Opened
<1>10. CASE Written(d)
  BY <1>1, <1>10 DEF Written
<1>11. QED
  BY <1>2, <1>3, <1>4, <1>5, <1>6, <1>7, <1>8, <1>9, <1>10 DEF Renewed

LEMMA KeptKept ==
  ASSUME SessionAssumption, SessionInv, NEW p \in Proc, Acts(p)
  PROVE  Kept'
<1>0. /\ loc \in [Conf -> LocRow] /\ dir \in [Dir -> DirRow] /\ at \in [Proc -> AtRow] /\ binds \in Nat
      /\ ConfOf \in [Proc -> Conf] /\ None \notin Dir
  BY DEF SessionInv, SessionAssumption, Shapes
<1>1. hand' = hand
  BY DEF Acts, Opening, Maintenance, Trouble, Start, Cancel, OpenCurrent, OpenOther, Create,
         CreateDatabase, CreateReady, Prepared, UpgradeBackup, BackupBegin, Replace, BindLock, Bind,
         BindEnd, Write, Quiesce, Release, CopyDatabase, CopyBodies, BackupEnd, RestoreEnd, Select,
         Relocate, RestoreBegin, Backup, Restore, RestoreAtStartup, Fail, Failed, Crash, Quit, Lose
<1>2. \A d \in Dir : KeptIn(d)' /\ (dir[d].man = "READY" /\ ~dir[d].mark =>
        dir'[d].man = "READY" /\ ~dir'[d].mark /\ dir'[d].id = dir[d].id)
  BY <1>1, EachRenewed, KeptInKept, DirShape
<1>3. Led /\ \A c \in Conf : loc[c].fp <= binds
  BY KeptParts DEF SessionInv
<1>4. Led' /\ \A c \in Conf : loc'[c].fp <= binds'
  <2>1. CASE loc' = loc /\ binds' = binds
    BY <2>1, <1>0, <1>2, <1>3 DEF Led, LocRow
  <2>2. CASE Bind(p)
    <3>1. at[p].place = "locked" /\ ~at[p].lost /\ dir' = dir /\ binds' = binds + 1
          /\ loc' = [loc EXCEPT ![ConfOf[p]] =
               [dir |-> at[p].tgt, id |-> dir[at[p].tgt].id, fp |-> binds + 1]]
      BY <2>2 DEF Bind, Held
    <3>2. dir[at[p].tgt].man = "READY" /\ ~dir[at[p].tgt].mark
      BY <2>2 DEF Bind, Openable
    <3>3. \A c \in Conf : \/ loc'[c] = loc[c]
                          \/ loc'[c] = [dir |-> at[p].tgt, id |-> dir[at[p].tgt].id, fp |-> binds + 1]
      BY <3>1, <1>0
    <3>4. Led'
      BY <3>1, <3>2, <3>3, <1>0, <1>3 DEF Led
    <3>5. \A c \in Conf : loc'[c].fp <= binds'
      BY <3>1, <3>3, <1>0, <1>3 DEF LocRow
    <3>6. QED
      BY <3>4, <3>5
  <2>3. (loc' = loc /\ binds' = binds) \/ Bind(p)
    BY OnlyBindMoves
  <2>4. QED
    BY <2>1, <2>2, <2>3
<1>5. QED
  <2>1. (\A d \in Dir : KeptIn(d))' /\ Led' /\ (\A c \in Conf : loc[c].fp <= binds)'
    BY <1>2, <1>4
  <2>2. Kept' <=> (\A d \in Dir : KeptIn(d))' /\ Led' /\ (\A c \in Conf : loc[c].fp <= binds)'
    BY DEF Kept, KeptIn, Led, BackupIsWhole, WritesStay
  <2>3. QED
    BY <2>1, <2>2

(***************************************************************************)
(* A step that is nobody's: a file is changed by hand, a new version comes.*)
(***************************************************************************)
LEMMA TouchKeeps ==
  ASSUME SessionAssumption, SessionInv, NEW d \in Dir, Touch(d)
  PROVE  SessionInv'
<1>0. /\ dir \in [Dir -> DirRow] /\ at \in [Proc -> AtRow] /\ last \in [Dir -> -1..MaxRev]
      /\ hand \subseteq Dir /\ loc \in [Conf -> LocRow] /\ MaxRev \in Nat /\ None \notin Dir
  BY DEF SessionInv, SessionAssumption, Shapes
<1>1. /\ loc' = loc /\ lock' = lock /\ owner' = owner /\ at' = at /\ binds' = binds
      /\ hand' = hand \cup {d} /\ dir[d].db >= 0 /\ dir[d].body >= 0
      /\ \/ dir[d].db < MaxRev /\ dir' = [dir EXCEPT ![d].db = @ + 1]
            /\ last' = [last EXCEPT ![d] = dir[d].db + 1]
         \/ dir[d].body < MaxRev /\ dir' = [dir EXCEPT ![d].body = @ + 1] /\ last' = last
  BY DEF Touch
<1>2. \A x \in Dir : /\ dir'[x].man = dir[x].man /\ dir'[x].id = dir[x].id
                     /\ dir'[x].mark = dir[x].mark /\ dir'[x].old = dir[x].old
                     /\ dir'[x].receipt = dir[x].receipt
                     /\ x # d => dir'[x] = dir[x] /\ last'[x] = last[x]
  BY <1>0, <1>1 DEF DirRow
<1>3. dir' \in [Dir -> DirRow] /\ last' \in [Dir -> -1..MaxRev]
  <2>1. CASE dir[d].db < MaxRev /\ dir' = [dir EXCEPT ![d].db = @ + 1]
             /\ last' = [last EXCEPT ![d] = dir[d].db + 1]
    <3>1. dir[d].db + 1 \in -1..MaxRev
      BY <2>1, <1>0, <1>1 DEF DirRow
    <3>2. [dir[d] EXCEPT !.db = dir[d].db + 1] \in DirRow
      BY <3>1, <1>0, DirRows
    <3>3. dir' = [dir EXCEPT ![d] = [dir[d] EXCEPT !.db = dir[d].db + 1]]
      BY <2>1
    <3>4. QED
      BY <2>1, <3>1, <3>2, <3>3, <1>0, DirRows
  <2>2. CASE dir[d].body < MaxRev /\ dir' = [dir EXCEPT ![d].body = @ + 1] /\ last' = last
    <3>1. dir[d].body + 1 \in -1..MaxRev
      BY <2>2, <1>0, <1>1 DEF DirRow
    <3>2. [dir[d] EXCEPT !.body = dir[d].body + 1] \in DirRow
      BY <3>1, <1>0, DirRows
    <3>3. dir' = [dir EXCEPT ![d] = [dir[d] EXCEPT !.body = dir[d].body + 1]]
      BY <2>2
    <3>4. QED
      BY <2>2, <3>2, <3>3, <1>0, DirRows
  <2>3. QED
    BY <1>1, <2>1, <2>2
<1>4. Shapes'
  BY <1>0, <1>1, <1>3 DEF SessionInv, Shapes
<1>5. Working'
  <2>1. SUFFICES ASSUME NEW p \in Proc, ~at'[p].lost PROVE Owns(p)' /\ Finds(p)' /\ Unlocked(p)'
    BY DEF Working
  <2>2. Owns(p) /\ Finds(p) /\ Unlocked(p)
    BY <2>1, <1>1 DEF SessionInv, Working
  <2>3. Owns(p)' /\ Unlocked(p)'
    BY <2>2, <1>1 DEF Owns, Unlocked
  <2>4. Finds(p)'
    BY <2>1, <2>2, <1>0, <1>1, <1>2 DEF Owns, Finds, Whole, AtRow
  <2>5. QED
    BY <2>3, <2>4
<1>6. Resting'
  BY <1>1 DEF SessionInv, Resting, Mine
<1>7. \A x \in Dir : KeptIn(x)'
  <2>1. SUFFICES ASSUME NEW x \in Dir PROVE KeptIn(x)'
    OBVIOUS
  <2>2. KeptIn(x)
    BY KeptParts DEF SessionInv
  <2>3. CASE x = d
    BY <2>2, <2>3, <1>0, <1>1, <1>2 DEF KeptIn, DirRow
  <2>4. CASE x # d
    BY <2>2, <2>4, <1>0, <1>1, <1>2 DEF KeptIn, Content
  <2>5. QED
    BY <2>3, <2>4
<1>8. Kept'
  <2>1. Led /\ \A c \in Conf : loc[c].fp <= binds
    BY KeptParts DEF SessionInv
  <2>2. Led' /\ (\A c \in Conf : loc[c].fp <= binds)'
    BY <2>1, <1>0, <1>1, <1>2 DEF Led, LocRow
  <2>3. Kept' <=> (\A x \in Dir : KeptIn(x))' /\ Led' /\ (\A c \in Conf : loc[c].fp <= binds)'
    BY DEF Kept, KeptIn, Led, BackupIsWhole, WritesStay
  <2>4. QED
    BY <1>7, <2>2, <2>3
<1>9. QED
  BY <1>4, <1>5, <1>6, <1>8 DEF SessionInv

LEMMA NewVersionKeeps ==
  ASSUME SessionAssumption, SessionInv, NewVersion
  PROVE  SessionInv'
<1>0. /\ dir \in [Dir -> DirRow] /\ at \in [Proc -> AtRow] /\ last \in [Dir -> -1..MaxRev]
      /\ hand \subseteq Dir /\ loc \in [Conf -> LocRow] /\ None \notin Dir
  BY DEF SessionInv, SessionAssumption, Shapes
<1>1. /\ loc' = loc /\ lock' = lock /\ owner' = owner /\ at' = at /\ binds' = binds
      /\ hand' = hand /\ last' = last /\ \A p \in Proc : at[p].place = "off"
      /\ dir' = [x \in Dir |-> [dir[x] EXCEPT !.old = dir[x].db >= 0]]
  BY DEF NewVersion
<1>2. \A x \in Dir : /\ dir'[x].man = dir[x].man /\ dir'[x].id = dir[x].id
                     /\ dir'[x].mark = dir[x].mark /\ dir'[x].db = dir[x].db
                     /\ dir'[x].body = dir[x].body /\ dir'[x].receipt = dir[x].receipt
  BY <1>0, <1>1 DEF DirRow
<1>3. dir' \in [Dir -> DirRow]
  <2>1. ASSUME NEW x \in Dir PROVE [dir[x] EXCEPT !.old = dir[x].db >= 0] \in DirRow
    <3>1. dir[x] \in DirRow
      BY <1>0
    <3>2. CASE dir[x].db >= 0
      <4>1. [dir[x] EXCEPT !.old = TRUE] \in DirRow
        BY <3>1, DirRows
      <4>2. (dir[x].db >= 0) = TRUE
        BY <3>2
      <4>3. QED
        BY <4>1, <4>2, Zenon
    <3>3. CASE ~(dir[x].db >= 0)
      <4>1. [dir[x] EXCEPT !.old = FALSE] \in DirRow
        BY <3>1, DirRows
      <4>2. (dir[x].db >= 0) = FALSE
        BY <3>3
      <4>3. QED
        BY <4>1, <4>2, Zenon
    <3>4. QED
      BY <3>2, <3>3
  <2>2. QED
    BY <1>1, <2>1
<1>4. Shapes'
  BY <1>0, <1>1, <1>3 DEF SessionInv, Shapes
<1>5. Working'
  <2>1. SUFFICES ASSUME NEW p \in Proc, ~at'[p].lost PROVE Owns(p)' /\ Finds(p)' /\ Unlocked(p)'
    BY DEF Working
  <2>2. Owns(p) /\ Finds(p) /\ Unlocked(p) /\ at[p] = Idle
    BY <2>1, <1>1 DEF SessionInv, Working, Resting
  <2>3. Owns(p)' /\ Unlocked(p)'
    BY <2>2, <1>1 DEF Owns, Unlocked
  <2>4. Finds(p)'
    BY <2>2, <1>1 DEF Finds, Idle
  <2>5. QED
    BY <2>3, <2>4
<1>6. Resting'
  BY <1>1 DEF SessionInv, Resting, Mine
<1>7. \A x \in Dir : KeptIn(x)'
  BY <1>1, <1>2, KeptParts DEF SessionInv, KeptIn, Content
<1>8. Kept'
  <2>1. Led /\ \A c \in Conf : loc[c].fp <= binds
    BY KeptParts DEF SessionInv
  <2>2. Led' /\ (\A c \in Conf : loc[c].fp <= binds)'
    BY <2>1, <1>0, <1>1, <1>2 DEF Led, LocRow
  <2>3. Kept' <=> (\A x \in Dir : KeptIn(x))' /\ Led' /\ (\A c \in Conf : loc[c].fp <= binds)'
    BY DEF Kept, KeptIn, Led, BackupIsWhole, WritesStay
  <2>4. QED
    BY <1>7, <2>2, <2>3
<1>9. QED
  BY <1>4, <1>5, <1>6, <1>8 DEF SessionInv

(***************************************************************************)
(* The invariant is inductive.                                             *)
(***************************************************************************)
LEMMA FirstRow ==
  ASSUME SessionAssumption
  PROVE  /\ NoDir \in DirRow
         /\ [NoDir EXCEPT !.man = "READY", !.id = First, !.db = 0, !.body = 0] \in DirRow
<1>0. First \in Dir /\ 0 \in -1..MaxRev /\ -1 \in -1..MaxRev
  BY DEF SessionAssumption
<1>1. NoDir \in DirRow
  BY <1>0 DEF DirRow, NoDir
<1>2. [NoDir EXCEPT !.man = "READY"] \in DirRow
  BY <1>1, DirRows
<1>3. [[NoDir EXCEPT !.man = "READY"] EXCEPT !.id = First] \in DirRow
  BY <1>0, <1>2, DirRows
<1>4. [[[NoDir EXCEPT !.man = "READY"] EXCEPT !.id = First] EXCEPT !.db = 0] \in DirRow
  BY <1>0, <1>3, DirRows
<1>5. [[[[NoDir EXCEPT !.man = "READY"] EXCEPT !.id = First] EXCEPT !.db = 0] EXCEPT !.body = 0] \in DirRow
  BY <1>0, <1>4, DirRows
<1>6. QED
  BY <1>1, <1>5

LEMMA SessionStarts ==
  ASSUME SessionAssumption, Init
  PROVE  SessionInv
<1> USE DEF Init, Idle, NoDir, SessionAssumption
<1>1. Shapes
  <2>1. NoDir \in DirRow
    BY FirstRow
  <2>2. [NoDir EXCEPT !.man = "READY", !.id = First, !.db = 0, !.body = 0] \in DirRow
    BY FirstRow
  <2>3. dir \in [Dir -> DirRow]
    <3>1. \A d \in Dir : dir[d] = NoDir \/
            dir[d] = [NoDir EXCEPT !.man = "READY", !.id = First, !.db = 0, !.body = 0]
      OBVIOUS
    <3> HIDE DEF NoDir
    <3>2. QED
      BY <3>1, <2>1, <2>2
  <2>4. at \in [Proc -> AtRow]
    <3> HIDE DEF Idle
    <3>1. QED
      BY AtRows
  <2>5. loc \in [Conf -> LocRow]
    BY DEF LocRow
  <2>6. /\ lock \in [Conf -> BOOLEAN] /\ owner \in [Conf \cup Dir -> Proc \cup {None}]
        /\ binds \in Nat /\ last \in [Dir -> -1..MaxRev] /\ hand \subseteq Dir
    OBVIOUS
  <2>7. QED
    BY <2>3, <2>4, <2>5, <2>6 DEF Shapes
<1>2. Working
  BY DEF Working, Owns, Finds, Unlocked
<1>3. Resting
  BY DEF Resting, Mine
<1>4. Kept
  BY DEF Kept, BackupIsWhole, WritesStay, Content
<1>5. QED
  BY <1>1, <1>2, <1>3, <1>4 DEF SessionInv

LEMMA SessionSteps ==
  ASSUME SessionAssumption, SessionInv, [Next]_vars
  PROVE  SessionInv'
<1>1. ASSUME NEW p \in Proc, Acts(p) PROVE SessionInv'
  <2>1. Shapes'
    BY <1>1, DirShape, AtShape, OwnerShape, RestShape DEF Shapes, RestShaped
  <2>2. Working'
    <3>1. SUFFICES ASSUME NEW q \in Proc, ~at'[q].lost PROVE Owns(q)' /\ Finds(q)' /\ Unlocked(q)'
      BY DEF Working
    <3>2. QED
      BY <1>1, <3>1, OthersStay, OwnsKept, FindsKept, UnlockedKept
  <2>3. QED
    BY <1>1, <2>1, <2>2, RestingKept, KeptKept DEF SessionInv
<1>2. CASE UNCHANGED vars
  BY <1>2 DEF vars, SessionInv, Shapes, Working, Owns, Finds, Unlocked, Whole, Resting, Mine, Kept,
             BackupIsWhole, Content, WritesStay
<1>3. QED
  BY <1>1, <1>2, TouchKeeps, NewVersionKeeps DEF Next, Acts

(* The invariant holds in every reachable state.                           *)
THEOREM SessionInductive == ASSUME SessionAssumption PROVE Spec => []SessionInv
<1>1. Init => SessionInv
  BY SessionStarts
<1>2. SessionInv /\ [Next]_vars => SessionInv'
  BY SessionSteps
<1>3. QED
  BY <1>1, <1>2, PTL DEF Spec

(***************************************************************************)
(* What follows from it.                                                   *)
(***************************************************************************)
(* What is in the directories, and the places of the programs, keep their  *)
(* shape; a program that is off has no lease (production-session.ts).      *)
THEOREM SessionTypeCorrect == ASSUME SessionAssumption PROVE Spec => []TypeOK
<1>1. SessionInv => TypeOK
  BY DEF SessionInv, Shapes, Resting, Kept, TypeOK, DirRow
<1>2. QED
  BY <1>1, SessionInductive, PTL

(* However many programs, crashes, lost leases and interrupted copies there*)
(* are, a pointer leads to a finished data set without a mark, whole       *)
(* unless changed by hand (production-session.ts:183).                     *)
THEOREM PointersAreWhole == ASSUME SessionAssumption PROVE Spec => []PointerIsWhole
<1>1. SessionInv => PointerIsWhole
  <2>1. SUFFICES ASSUME SessionInv, NEW c \in Conf, loc[c].dir # None
        PROVE /\ dir[loc[c].dir].man = "READY" /\ ~dir[loc[c].dir].mark
              /\ dir[loc[c].dir].id = loc[c].id
              /\ loc[c].dir \in hand \/ dir[loc[c].dir].db = dir[loc[c].dir].body
    BY DEF PointerIsWhole
  <2>2. loc[c].dir \in Dir
    BY <2>1 DEF SessionInv, Shapes, LocRow
  <2>3. QED
    BY <2>1, <2>2 DEF SessionInv, Kept
<1>2. QED
  BY <1>1, SessionInductive, PTL

(* Two programs that have lost no lease never work on the same data, nor   *)
(* is a data set at work while another program copies it                   *)
(* (production-lease.ts:23).                                               *)
THEOREM OneProgramAtATime == ASSUME SessionAssumption PROVE Spec => []OneProgram
<1>1. ASSUME SessionAssumption, SessionInv PROVE OneProgram
  <2>1. SUFFICES ASSUME NEW p \in Proc, NEW q \in Proc, p # q, ~at[p].lost, ~at[q].lost, at[p].data # None
        PROVE /\ at[q].data # at[p].data
              /\ at[q].place \in {"prepare", "replace", "bind", "locked"} => at[q].tgt # at[p].data
              /\ at[q].place = "copy" => at[p].data \notin {at[q].src, at[q].dst}
    BY DEF OneProgram
  <2>2. Owns(p) /\ Owns(q)
    BY <1>1, <2>1 DEF SessionInv, Working
  <2>3. QED
    BY <2>1, <2>2 DEF Owns
<1>2. QED
  BY <1>1, SessionInductive, PTL

(* A backup with a receipt is what the receipt says and whole, and so is a *)
(* copy without a mark, unless changed by hand (production-backup.ts:298). *)
THEOREM BackupsAreWhole == ASSUME SessionAssumption PROVE Spec => [](BackupIsWhole /\ CopyIsWhole)
<1>1. SessionInv => BackupIsWhole /\ CopyIsWhole
  BY DEF SessionInv, Kept, CopyIsWhole
<1>2. QED
  BY <1>1, SessionInductive, PTL

(* No earlier state of a database replaces what was written later          *)
(* (production-prepare.ts:123).                                            *)
THEOREM WritesArePreserved == ASSUME SessionAssumption PROVE Spec => []WritesStay
<1>1. SessionInv => WritesStay
  BY DEF SessionInv, Kept
<1>2. QED
  BY <1>1, SessionInductive, PTL

(* A program that opens its data meets no lock that an earlier program left*)
(* behind (production-location-lock.ts:5).                                 *)
THEOREM StaleLocksStopNobody == ASSUME SessionAssumption PROVE Spec => []LockIsRecovered
<1>1. SessionInv => LockIsRecovered
  BY DEF SessionInv, Working, Unlocked, LockIsRecovered
<1>2. QED
  BY <1>1, SessionInductive, PTL

(* A pointer is moved by the program that owns the configuration and the   *)
(* data, to data of its schema, and only from where that program saw it    *)
(* (production-session.ts:131, 215).                                       *)
THEOREM PointersMovedByOwner == ASSUME SessionAssumption PROVE Spec => MovedByOwner
<1>1. ASSUME SessionAssumption, SessionInv, [Next]_vars PROVE MovedByOwnerStep
  <2>1. CASE loc' = loc
    BY <2>1 DEF MovedByOwnerStep
  <2>2. ASSUME NEW p \in Proc, Bind(p) PROVE MovedByOwnerStep
    <3>1. /\ at[p].place = "locked" /\ ~at[p].lost /\ loc[ConfOf[p]].fp = at[p].fp
          /\ loc' = [loc EXCEPT ![ConfOf[p]] =
               [dir |-> at[p].tgt, id |-> dir[at[p].tgt].id, fp |-> binds + 1]]
      BY <2>2 DEF Bind, Held, Same
    <3>2. /\ loc \in [Conf -> LocRow] /\ ConfOf[p] \in Conf
      BY <1>1 DEF SessionInv, Shapes, SessionAssumption
    <3>3. Owns(p) /\ Finds(p)
      BY <1>1, <3>1 DEF SessionInv, Working
    <3>4. owner[ConfOf[p]] = p /\ owner[at[p].tgt] = p /\ ~dir[at[p].tgt].old
      BY <3>1, <3>3 DEF Owns, Finds
    <3>5. \A c \in Conf : loc'[c] # loc[c] => c = ConfOf[p] /\ loc'[c].dir = at[p].tgt
      BY <3>1, <3>2
    <3>6. QED
      BY <3>1, <3>4, <3>5 DEF MovedByOwnerStep
  <2>3. loc' = loc \/ \E p \in Proc : Bind(p)
    BY <1>1, OnlyBindMoves DEF Next, Acts, vars, Touch, NewVersion
  <2>4. QED
    BY <2>1, <2>2, <2>3
<1>2. QED
  BY <1>1, SessionInductive, PTL DEF Spec, MovedByOwner
==============================================================================
