----------------------- MODULE RetentionCleanupProofs -----------------------
(***************************************************************************)
(* Proofs about RetentionCleanup for every number of texts, versions,      *)
(* previews, confirmations, outside changes, crashes and storage errors:   *)
(* when rows are emptied no copy of the text is left behind, no file of    *)
(* somebody else is lost, and a preview is decided once.                   *)
(***************************************************************************)
EXTENDS RetentionCleanup, FiniteSetTheorems, TLAPS

-----------------------------------------------------------------------------
(***************************************************************************)
(* The inductive invariant.                                                *)
(***************************************************************************)
(* The shapes: items of a list, the states, the places of the drain.       *)
FileItems == [kind : {"file"}, id : File, hash : Int]
TextItems == [kind : {"empty", "row"}, id : Mem, hash : {Text}]
AnyItem == FileItems \cup TextItems
Lists == UNION {[S -> {"pending", "done"}] : S \in SUBSET AnyItem}
Plans == [state : {"none", "planned", "pending", "closed"}, epoch : Nat,
          items : SUBSET AnyItem]
JobStates == {"none", "CLEANUP_PENDING", "CLEANING", "FAILED_RETRYABLE", "COMPLETED"}
CallStates == {"none", "checked", "refused", "done", "cancelled"}
AtRest == {"rest", "next"}
FilePlaces == {"rename", "verify", "back", "linked", "unlink", "gone"}
Places == AtRest \cup {"item", "mark"} \cup FilePlaces
Works == [job : Job \cup {None}, batch : Seq(AnyItem), place : Places]

CleanupTypes ==
  /\ preview \in [Preview -> Plans] /\ job \in [Job -> JobStates]
  /\ items \in [Job -> Lists]
  /\ row \in [Mem -> {"kept", "retired", "emptied"}] /\ epoch \in Nat
  /\ disk \in [File -> Int] /\ isolated \in [Job -> [File -> Int]]
  /\ call \in [Call -> CallStates] /\ work \in Works
  /\ puts \in Nat /\ theirs \subseteq 1..puts

(* A preview that is not closed has no job yet, and no list; a decision    *)
(* closes it.                                                              *)
Fresh ==
  /\ \A p \in Preview :
       /\ preview[p].state # "closed" => job[p] = "none"
       /\ job[p] = "none" => DOMAIN items[p] = {}
  /\ \A c \in Call : call[c] \in Decided => preview[PreviewOf[c]].state = "closed"

(* A list is about the texts of its preview and has one item for a file.   *)
WellListed(list, p) ==
  \A i \in list :
    IF i.kind = "file"
    THEN i.id[1] \in Target[p] /\ \A k \in list :
           (k.kind = "file" /\ k.id = i.id) => k = i
    ELSE i.id \in Target[p]

(* A preview that is not stale lists every file that holds a text of its.  *)
Covers(list, p) ==
  \A m \in Target[p], v \in 1..MaxVersion :
    disk[<<m, v>>] = Text => FileItem(<<m, v>>, Text) \in list

Listed ==
  \A p \in Preview :
    /\ WellListed(preview[p].items, p) /\ WellListed(DOMAIN items[p], p)
    /\ preview[p].epoch <= epoch
    /\ (preview[p].state = "pending" /\ preview[p].epoch = epoch
         /\ Intent[p] = "empty") => Covers(preview[p].items, p)

(* ... and so does its job, with what it has still to do.                  *)
Retired ==
  \A j \in Job :
    /\ job[j] # "none" => /\ \A m \in Target[j] : row[m] # "kept"
                          /\ Covers(Pending(j), j)
    /\ job[j] = "COMPLETED" => Pending(j) = {}

(* A text in a quarantine is there for its own item, which is not done.    *)
Quarantined ==
  \A j \in Job, f \in File :
    isolated[j][f] = Text => FileItem(f, Text) \in Pending(j)

(* Rows are emptied after the files.                                       *)
Emptied ==
  \A m \in Mem, v \in 1..MaxVersion : row[m] = "emptied" => disk[<<m, v>>] # Text

(* What the drain knows of its batch: rows come after what is left of the  *)
(* rest of the list.                                                       *)
InBatch ==
  /\ work.place \in AtRest <=> work.job = None
  /\ work.place \notin AtRest =>
       /\ job[J] # "none"
       /\ \A k \in DOMAIN work.batch : work.batch[k] \in DOMAIN items[J]
       /\ \A k \in DOMAIN work.batch : work.batch[k].kind = "row" =>
            \A i \in Pending(J) :
              i.kind = "row" \/ \E l \in 1..k : work.batch[l] = i
       /\ work.place # "item" => work.batch # <<>>

(* ... and of the file it is at, from one await to the next.               *)
AtItsFile ==
  /\ work.place \in FilePlaces => Item.kind = "file"
  /\ (work.place = "mark" /\ Item.kind = "file") =>
       disk[Item.id] # Text /\ isolated[J][Item.id] # Text
  /\ work.place \in {"rename", "gone"} => isolated[J][Item.id] = Gone
  /\ work.place = "unlink" => isolated[J][Item.id] = Item.hash
  /\ work.place \in {"back", "linked"} => isolated[J][Item.id] # Item.hash
  /\ (work.place = "linked" /\ isolated[J][Item.id] \in theirs) =>
       disk[Item.id] = isolated[J][Item.id]

(* Every content put from outside has a number of its own.                 *)
Numbered ==
  /\ \A f \in File : disk[f] <= puts
  /\ \A j \in Job, f \in File : isolated[j][f] <= puts

CleanupInv ==
  /\ CleanupTypes /\ Fresh /\ Listed /\ Retired /\ Quarantined
  /\ Emptied /\ InBatch /\ AtItsFile /\ Numbered

-----------------------------------------------------------------------------
(***************************************************************************)
(* The operators of the community modules that the model chooses with.     *)
(***************************************************************************)
(* The least of a set of naturals is one of them.                          *)
LEMMA MinIsLeast ==
  ASSUME NEW S \in SUBSET Nat, S # {}
  PROVE  Min(S) \in S /\ \A x \in S : Min(S) <= x
<1>1. \E n \in S : \A m \in S : n <= m
  <2>1. PICK n \in S : \A m \in S : <<m, n>> \notin OpToRel(<, Nat)
    BY WFMin, NatLessThanWellFounded, Zenon
  <2>2. \A m \in S : ~(m < n)
    <3> SUFFICES ASSUME NEW m \in S, m < n PROVE FALSE
      OBVIOUS
    <3>1. m \in Nat /\ n \in Nat
      OBVIOUS
    <3>2. <<m, n>> \in OpToRel(<, Nat)
      BY <3>1, Zenon DEF OpToRel
    <3> QED BY <2>1, <3>2, Zenon
  <2> QED BY <2>2
<1> QED
  BY <1>1 DEF Min

(* The greatest of a bounded set of naturals is one of them.               *)
LEMMA MaxIsGreatest ==
  ASSUME NEW n \in Nat, NEW S \in SUBSET (0..n), S # {}
  PROVE  Max(S) \in S /\ \A x \in S : Max(S) >= x
<1> DEFINE T == {n - x : x \in S}
<1>1. T \in SUBSET Nat /\ T # {}
  <2>1. \A x \in S : n - x \in Nat
    OBVIOUS
  <2> QED BY <2>1
<1>2. PICK t \in T : \A u \in T : t <= u
  <2>1. Min(T) \in T /\ \A u \in T : Min(T) <= u
    <3> HIDE DEF T
    <3> QED BY <1>1, MinIsLeast
  <2> QED BY <2>1
<1>3. PICK x \in S : t = n - x
  BY <1>2
<1>4. ASSUME NEW y \in S PROVE x >= y
  <2>1. n - y \in T
    OBVIOUS
  <2>2. n - x <= n - y
    BY <1>2, <1>3, <2>1
  <2>3. x \in 0..n /\ y \in 0..n
    OBVIOUS
  <2> HIDE DEF T
  <2> QED BY <2>2, <2>3
<1>5. \E z \in S : \A y \in S : z >= y
  BY <1>4
<1> QED
  BY <1>5 DEF Max

(* The drain goes through the jobs in some order that has them all.        *)
LEMMA OrderIsOfJobs ==
  DOMAIN Order \subseteq Nat /\ \A k \in DOMAIN Order : Order[k] \in Job
<1>1. PICK n \in Nat : ExistsBijection(1..n, Job)
  BY CleanupAssumption, FS_NatBijection DEF Job
<1>2. Cardinality(Job) = n
  BY <1>1, FS_CountingElements
<1>3. PICK s : s \in Bijection(1..n, Job)
  BY <1>1 DEF ExistsBijection
<1>4. s \in [1..Cardinality(Job) -> Job] /\ IsInjective(s)
  BY <1>2, <1>3 DEF Bijection, Injection, IsInjective
<1>5. \E t \in [1..Cardinality(Job) -> Job] : IsInjective(t)
  BY <1>4
<1>6. Order \in [1..Cardinality(Job) -> Job]
  BY <1>5 DEF Order
<1>7. DOMAIN Order = 1..n /\ \A k \in 1..n : Order[k] \in Job
  BY <1>2, <1>6
<1> QED
  BY <1>7

(* A version that is yet to be written has no file.                        *)
LEMMA NewVersionIsFree ==
  ASSUME CleanupTypes, NEW m \in Mem, Change(m)
  PROVE  \E v \in 1..MaxVersion :
           /\ disk[<<m, v>>] = Gone /\ disk' = [disk EXCEPT ![<<m, v>>] = Text]
           /\ row[m] = "kept" /\ epoch' = epoch + 1
           /\ UNCHANGED <<preview, job, items, row, isolated, call, work, theirs, puts>>
<1> DEFINE S == {v \in 0..MaxVersion : v = 0 \/ v \in known[m] \/ disk[<<m, v>>] # Gone}
           v == Max(S) + 1
<1>1. /\ v <= MaxVersion /\ disk' = [disk EXCEPT ![<<m, v>>] = Text]
      /\ row[m] = "kept" /\ epoch' = epoch + 1
      /\ UNCHANGED <<preview, job, items, row, isolated, call, work, theirs, puts>>
  BY Zenon DEF Change, bounds
<1>2. Max(S) \in S /\ \A x \in S : Max(S) >= x
  <2>1. MaxVersion \in Nat /\ S \in SUBSET (0..MaxVersion) /\ 0 \in S
    BY CleanupAssumption
  <2> HIDE DEF S
  <2> QED BY <2>1, MaxIsGreatest
<1>3. v \in 1..MaxVersion /\ v \notin S
  <2> HIDE DEF S
  <2>1. Max(S) \in 0..MaxVersion /\ MaxVersion \in Nat
    BY <1>2, CleanupAssumption DEF S
  <2> QED BY <1>1, <1>2, <2>1
<1>4. disk[<<m, v>>] = Gone
  BY <1>3
<1> QED
  BY <1>1, <1>3, <1>4

(* The job the drain takes next is one that is to be done.                 *)
LEMMA NextJobIsDue ==
  ASSUME Next1
  PROVE  \/ work' = Idle /\ UNCHANGED job
         \/ \E j \in Job : /\ job[j] \in {"CLEANUP_PENDING", "CLEANING"}
                           /\ job' = [job EXCEPT ![j] = "CLEANING"]
                           /\ \E s \in Batches(j) :
                                work' = [job |-> j, batch |-> s, place |-> "item"]
<1> DEFINE todo == {k \in DOMAIN Order : job[Order[k]] \in {"CLEANUP_PENDING", "CLEANING"}}
<1>1. CASE todo = {}
  BY <1>1 DEF Next1
<1>2. CASE todo # {}
  <2>1. /\ job' = [job EXCEPT ![Order[Min(todo)]] = "CLEANING"]
        /\ \E s \in Batches(Order[Min(todo)]) :
             work' = [job |-> Order[Min(todo)], batch |-> s, place |-> "item"]
    BY <1>2, Zenon DEF Next1
  <2>2. Min(todo) \in todo
    BY <1>2, OrderIsOfJobs, MinIsLeast
  <2> HIDE DEF todo
  <2>3. Order[Min(todo)] \in Job /\ job[Order[Min(todo)]] \in {"CLEANUP_PENDING", "CLEANING"}
    BY <2>2, OrderIsOfJobs DEF todo
  <2> QED BY <2>1, <2>3
<1> QED BY <1>1, <1>2

(* A batch is a sequence of what the job has still to do.                  *)
LEMMA BatchIsPending ==
  ASSUME CleanupTypes, NEW j \in Job, NEW s \in Batches(j)
  PROVE  /\ s \in Seq(AnyItem) /\ \A k \in DOMAIN s : s[k] \in Pending(j)
         /\ \A k \in DOMAIN s : s[k].kind = "row" =>
              \A i \in Pending(j) : i.kind = "row" \/ \E l \in 1..k : s[l] = i
<1>1. PICK m \in 0..Batch : s \in [1..m -> Pending(j)]
  BY DEF Batches, SeqOf
<1>2. m \in Nat /\ DOMAIN s = 1..m /\ \A k \in DOMAIN s : s[k] \in Pending(j)
  BY <1>1, CleanupAssumption
<1>3. Pending(j) \subseteq AnyItem
  BY DEF CleanupTypes, Lists, Pending
<1>4. s \in Seq(AnyItem)
  BY <1>1, <1>2, <1>3
<1>5. ASSUME NEW k \in DOMAIN s, s[k].kind = "row", NEW i \in Pending(j),
             i.kind # "row"
      PROVE  \E l \in 1..k : s[l] = i
  BY <1>5 DEF Batches
<1> QED BY <1>2, <1>4, <1>5

-----------------------------------------------------------------------------
(***************************************************************************)
(* Type correctness.                                                       *)
(***************************************************************************)
(* The item the drain is at is one of the list of its job.                 *)
LEMMA AtAnItem ==
  ASSUME CleanupInv, work.place \notin AtRest, work.batch # <<>>
  PROVE  /\ J \in Job /\ job[J] # "none" /\ 1 \in DOMAIN work.batch
         /\ Item = work.batch[1] /\ Item \in DOMAIN items[J]
         /\ Item \in AnyItem
         /\ Item.kind = "file" => Item \in FileItems /\ Item.id \in File
         /\ Item.kind # "file" => Item \in TextItems /\ Item.id \in Mem
<1>1. /\ work \in Works /\ J # None /\ job[J] # "none"
      /\ \A k \in DOMAIN work.batch : work.batch[k] \in DOMAIN items[J]
  BY DEF CleanupInv, CleanupTypes, InBatch, J
<1>2. work.job \in Job \cup {None} /\ work.batch \in Seq(AnyItem)
  BY <1>1 DEF Works
<1>3. 1 \in DOMAIN work.batch /\ Item = work.batch[1]
  BY <1>2 DEF Item
<1>4. Item \in AnyItem
  BY <1>2, <1>3
<1>5. /\ Item.kind = "file" => Item \in FileItems /\ Item.id \in File
      /\ Item.kind # "file" => Item \in TextItems /\ Item.id \in Mem
  BY <1>4 DEF AnyItem, TextItems, FileItems
<1> QED
  BY <1>1, <1>2, <1>3, <1>4, <1>5 DEF J

(* ... and at a place of cleanFile() it is a file.                         *)
LEMMA AtAFile ==
  ASSUME CleanupInv, work.place \in FilePlaces
  PROVE  /\ J \in Job /\ job[J] # "none" /\ work.place \notin AtRest
         /\ work.batch # <<>> /\ 1 \in DOMAIN work.batch
         /\ Item = work.batch[1] /\ Item \in DOMAIN items[J]
         /\ Item \in FileItems /\ Item.id \in File /\ Item.kind = "file"
<1>1. work.place \notin AtRest /\ work.batch # <<>> /\ Item.kind = "file"
  BY DEF FilePlaces, AtRest, CleanupInv, InBatch, AtItsFile
<1> QED
  BY <1>1, AtAnItem

(* A list is a function on its items.                                      *)
LEMMA ListOf ==
  ASSUME CleanupTypes, NEW j \in Job
  PROVE  /\ items[j] \in [DOMAIN items[j] -> {"pending", "done"}]
         /\ DOMAIN items[j] \in SUBSET AnyItem /\ Pending(j) \subseteq DOMAIN items[j]
  BY DEF CleanupTypes, Lists, Pending

(* What a step of the drain on one item does to the job and to its place.  *)
Moves ==
  \/ UNCHANGED job /\ \E p \in Places \ AtRest : Go(p)
  \/ Failed

ItemStep == \/ Look \/ Rename \/ Verify \/ Link \/ Unlinked \/ Unlink
            \/ Absent \/ Discharge \/ CleanSql

LEMMA ItemStepMoves == ASSUME ItemStep PROVE Moves
<1> USE DEF Moves, Places, FilePlaces, AtRest, durable
<1>1. ASSUME UNCHANGED job, NEW p \in Places \ AtRest, Go(p) PROVE Moves
  BY <1>1
<1>2. CASE Look
  BY <1>2 DEF Look, Go
<1>3. CASE Rename \/ Link \/ Absent \/ Discharge
  BY <1>3 DEF Rename, Link, Absent, Discharge
<1>4. CASE Verify
  BY <1>4 DEF Verify, Go
<1>5. CASE Unlinked
  BY <1>5 DEF Unlinked
<1>6. CASE Unlink \/ CleanSql
  BY <1>6 DEF Unlink, CleanSql
<1> QED
  BY <1>2, <1>3, <1>4, <1>5, <1>6 DEF ItemStep

(* The variables a step on an item leaves alone.                           *)
LEMMA ItemStepFrame ==
  ASSUME CleanupInv, ItemStep
  PROVE  /\ UNCHANGED <<preview, items, call, theirs, puts>>
         /\ work.place \notin AtRest
         /\ epoch' \in {epoch, epoch + 1}
  BY DEF ItemStep, Look, Rename, Verify, Link, Unlinked, Unlink, Absent, Discharge,
         CleanSql, At, AtRest, durable, bounds

(* What happens to the files.                                              *)
LEMMA ItemStepFiles ==
  ASSUME CleanupInv, ItemStep
  PROVE  \/ UNCHANGED files
         \/ Rename /\ disk[Item.id] # Gone
         \/ Link /\ disk[Item.id] = Gone
         \/ Unlinked \/ Unlink
  BY DEF ItemStep, Look, Rename, Verify, Link, Absent, Discharge, CleanSql, files

(* A drain that rests.                                                     *)
LEMMA RestIsWork ==
  Idle \in Works /\ [Idle EXCEPT !.place = "next"] \in Works
<1>1. << >> \in Seq(AnyItem)
  OBVIOUS
<1>2. {"rest", "next"} \subseteq Places
  BY DEF Places, AtRest
<1> QED
  BY <1>1, <1>2 DEF Idle, Works

LEMMA ItemStepTypes ==
  ASSUME CleanupInv, ItemStep PROVE CleanupTypes'
<1>0. CleanupTypes
  BY DEF CleanupInv
<1>1. /\ preview' \in [Preview -> Plans] /\ items' \in [Job -> Lists]
      /\ call' \in [Call -> CallStates] /\ puts' \in Nat /\ theirs' \subseteq 1..puts'
      /\ epoch' \in Nat
  <2>1. UNCHANGED <<preview, items, call, theirs, puts>> /\ epoch' \in {epoch, epoch + 1}
    BY ItemStepFrame
  <2>2. epoch' \in Nat
    BY <2>1, <1>0 DEF CleanupTypes
  <2> QED BY <2>1, <2>2, <1>0, Zenon DEF CleanupTypes
<1>2. job' \in [Job -> JobStates] /\ work' \in Works
  <2>1. CASE Failed
    <3>1. Idle \in Works /\ [Idle EXCEPT !.place = "next"] \in Works
      BY RestIsWork
    <3> QED BY <2>1, <3>1, <1>0 DEF Failed, CleanupTypes, JobStates
  <2>2. ASSUME UNCHANGED job, NEW p \in Places \ AtRest, Go(p)
        PROVE  job' \in [Job -> JobStates] /\ work' \in Works
    BY <2>2, <1>0 DEF Go, CleanupTypes, Works
  <2> QED BY <2>1, <2>2, ItemStepMoves DEF Moves
<1>3. row' \in [Mem -> {"kept", "retired", "emptied"}]
  BY <1>0 DEF CleanupTypes, ItemStep, Look, Rename, Verify, Link, Unlinked, Unlink,
              Absent, Discharge, CleanSql, durable
<1>4. disk' \in [File -> Int] /\ isolated' \in [Job -> [File -> Int]]
  <2>0. disk \in [File -> Int] /\ isolated \in [Job -> [File -> Int]] /\ Gone \in Int
    BY <1>0 DEF CleanupTypes, Gone
  <2>1. CASE UNCHANGED files
    BY <2>0, <2>1 DEF files
  <2>2. CASE Rename \/ Link \/ Unlinked \/ Unlink
    <3>1. work.place \in FilePlaces
      BY <2>2 DEF Rename, Link, Unlinked, Unlink, At, FilePlaces
    <3>2. J \in Job /\ Item.id \in File
      BY <3>1, AtAFile
    <3>3. disk[Item.id] \in Int /\ isolated[J][Item.id] \in Int
      BY <2>0, <3>2
    <3>4. \/ disk' = disk
          \/ disk' = [disk EXCEPT ![Item.id] = Gone]
          \/ disk' = [disk EXCEPT ![Item.id] = isolated[J][Item.id]]
      BY <2>2 DEF Rename, Link, Unlinked, Unlink, files
    <3>5. \/ isolated' = isolated
          \/ isolated' = [isolated EXCEPT ![J][Item.id] = Gone]
          \/ isolated' = [isolated EXCEPT ![J][Item.id] = disk[Item.id]]
      BY <2>2 DEF Rename, Link, Unlinked, Unlink, files
    <3> HIDE DEF Gone, J, Item
    <3> QED BY <2>0, <3>2, <3>3, <3>4, <3>5
  <2> QED BY <2>1, <2>2, ItemStepFiles
<1> QED
  BY <1>1, <1>2, <1>3, <1>4 DEF CleanupTypes

(* plan() lists items.                                                     *)
LEMMA ItemsAreItems ==
  ASSUME disk \in [File -> Int], NEW m \in Mem
  PROVE  ItemsOf(m) \subseteq AnyItem
<1>1. ASSUME NEW v \in 1..MaxVersion
      PROVE  FileItem(<<m, v>>, Text) \in AnyItem /\ FileItem(<<m, v>>, disk[<<m, v>>]) \in AnyItem
  <2>1. <<m, v>> \in File
    BY DEF File
  <2>2. disk[<<m, v>>] \in Int /\ Text \in Int
    BY <2>1 DEF Text
  <2> QED BY <2>1, <2>2 DEF FileItem, AnyItem, FileItems
<1>2. EmptyItem(m) \in AnyItem /\ RowItem(m) \in AnyItem
  BY DEF EmptyItem, RowItem, AnyItem, TextItems
<1> QED
  BY <1>1, <1>2 DEF ItemsOf

(* Another content under one name.                                         *)
LEMMA FilesChange ==
  ASSUME NEW D \in [File -> Int], NEW f, NEW t \in Int
  PROVE  [D EXCEPT ![f] = t] \in [File -> Int]
OBVIOUS

(* Every other step keeps the shapes.                                      *)
LEMMA TypesKept ==
  ASSUME CleanupInv, [Next]_vars PROVE CleanupTypes'
<1>0. /\ preview \in [Preview -> Plans] /\ job \in [Job -> JobStates]
      /\ items \in [Job -> Lists]
      /\ row \in [Mem -> {"kept", "retired", "emptied"}] /\ epoch \in Nat
      /\ disk \in [File -> Int] /\ isolated \in [Job -> [File -> Int]]
      /\ call \in [Call -> CallStates] /\ work \in Works
      /\ puts \in Nat /\ theirs \subseteq 1..puts
  BY DEF CleanupInv, CleanupTypes
<1>a. /\ Idle \in Works /\ [Idle EXCEPT !.place = "next"] \in Works
      /\ Scheduled \in Works /\ NoPreview \in Plans
  <2>1. Scheduled \in Works
    BY <1>0 DEF Scheduled, Works, Places, AtRest
  <2> QED BY <2>1, RestIsWork DEF NoPreview, Plans
<1> USE DEF CleanupTypes, durable, files, bounds
<1>1. CASE ItemStep
  BY <1>1, ItemStepTypes
<1>2. CASE Next1
  <2>1. job' \in [Job -> JobStates] /\ work' \in Works
    <3>1. CASE work' = Idle /\ UNCHANGED job
      BY <3>1, <1>0, <1>a
    <3>2. ASSUME NEW j \in Job, NEW s \in Batches(j),
                 job' = [job EXCEPT ![j] = "CLEANING"],
                 work' = [job |-> j, batch |-> s, place |-> "item"]
          PROVE  job' \in [Job -> JobStates] /\ work' \in Works
      <4>1. s \in Seq(AnyItem)
        BY BatchIsPending DEF CleanupInv
      <4> QED BY <3>2, <4>1, <1>0 DEF Works, Places, JobStates
    <3> QED BY <1>2, <3>1, <3>2, NextJobIsDue
  <2> QED BY <1>2, <2>1, <1>0 DEF Next1
<1>3. CASE BatchEnds
  <2>1. job' \in [Job -> JobStates]
    BY <1>3, <1>0 DEF BatchEnds, JobStates
  <2> QED BY <1>3, <2>1, <1>0, <1>a DEF BatchEnds
<1>4. CASE Mark
  <2>1. /\ items' = [items EXCEPT ![J][Item] = "done"] /\ At("mark")
        /\ work' = [work EXCEPT !.batch = Tail(@), !.place = "item"]
        /\ UNCHANGED <<preview, job, row, epoch, files, call, theirs, puts>>
    BY <1>4 DEF Mark
  <2>2. work.batch # <<>> /\ J \in Job
    BY <2>1, AtAnItem DEF At, CleanupInv, InBatch, AtRest
  <2>3. work' \in Works
    <3>1. Tail(work.batch) \in Seq(AnyItem)
      BY <1>0, <2>2 DEF Works
    <3> QED BY <2>1, <3>1, <1>0 DEF Works, Places
  <2>4. items' \in [Job -> Lists]
    <3>1. items[J] \in Lists
      BY <1>0, <2>2
    <3>2. [items[J] EXCEPT ![Item] = "done"] \in Lists
      BY <3>1 DEF Lists
    <3>3. items' = [items EXCEPT ![J] = [items[J] EXCEPT ![Item] = "done"]]
      BY <2>1
    <3> HIDE DEF J, Item
    <3> QED BY <1>0, <2>2, <3>2, <3>3
  <2> QED BY <2>1, <2>3, <2>4, <1>0
<1>5. CASE Fault
  <2>1. job' \in [Job -> JobStates] /\ work' \in Works
    BY <1>5, <1>0, <1>a DEF Fault, Failed, JobStates
  <2> QED BY <1>5, <2>1, <1>0 DEF Fault
<1>6. CASE Halt
  <2>1. call' \in [Call -> CallStates] /\ preview' \in [Preview -> Plans]
    BY <1>6, <1>0, <1>a DEF Halt, CallStates
  <2> QED BY <1>6, <2>1, <1>0, <1>a DEF Halt
<1>7. CASE Restart
  <2>1. job' \in [Job -> JobStates]
    BY <1>7, <1>0 DEF Restart, JobStates
  <2> QED BY <1>7, <2>1, <1>0, <1>a DEF Restart
<1>8. ASSUME NEW p \in Preview, Plan(p) \/ Planned(p) PROVE CleanupTypes'
  <2>1. preview' \in [Preview -> Plans]
    <3>1. CASE Plan(p)
      BY <3>1, <1>0 DEF Plan, Plans
    <3>2. CASE Planned(p)
      <4>1. UNION {ItemsOf(m) : m \in Target[p]} \in SUBSET AnyItem
        <5>1. ASSUME NEW m \in Mem PROVE ItemsOf(m) \subseteq AnyItem
          BY <1>0, ItemsAreItems
        <5>2. Target[p] \subseteq Mem
          BY CleanupAssumption
        <5> QED BY <5>1, <5>2
      <4>2. PICK list \in SUBSET AnyItem :
              preview' = [preview EXCEPT ![p] =
                IF epoch # preview[p].epoch THEN NoPreview
                ELSE [preview[p] EXCEPT !.state = "pending", !.items = list]]
        BY <3>2, <4>1 DEF Planned
      <4>3. preview[p] \in Plans
        BY <1>0
      <4>4. [preview[p] EXCEPT !.state = "pending", !.items = list] \in Plans
        BY <4>3 DEF Plans
      <4> QED BY <4>2, <4>4, <1>0, <1>a
    <3> QED BY <1>8, <3>1, <3>2
  <2> QED BY <1>8, <2>1, <1>0 DEF Plan, Planned
<1>9. ASSUME NEW c \in Call, Asked(c) \/ Refused(c) PROVE CleanupTypes'
  <2>1. call' \in [Call -> CallStates]
    BY <1>9, <1>0 DEF Asked, Refused, CallStates
  <2> QED BY <1>9, <2>1, <1>0 DEF Asked, Refused
<1>10. ASSUME NEW c \in Call, Confirm(c) PROVE CleanupTypes'
  <2>0. PreviewOf[c] \in Preview
    BY CleanupAssumption
  <2>1. preview' \in [Preview -> Plans] /\ call' \in [Call -> CallStates]
    BY <1>10, <1>0 DEF Confirm, Plans, CallStates
  <2>2. /\ job' \in [Job -> JobStates] /\ items' \in [Job -> Lists]
        /\ row' \in [Mem -> {"kept", "retired", "emptied"}] /\ work' \in Works
    <3>1. CASE Intent[PreviewOf[c]] = "empty"
      <4>1. preview[PreviewOf[c]].items \in SUBSET AnyItem
        BY <1>0, <2>0 DEF Plans
      <4>2. [i \in preview[PreviewOf[c]].items |-> "pending"] \in Lists
        BY <4>1 DEF Lists
      <4>3. /\ job' = [job EXCEPT ![PreviewOf[c]] = "CLEANUP_PENDING"]
            /\ items' = [items EXCEPT ![PreviewOf[c]] =
                           [i \in preview[PreviewOf[c]].items |-> "pending"]]
            /\ row' = [m \in Mem |-> IF m \in Target[PreviewOf[c]] /\ row[m] = "kept"
                                     THEN "retired" ELSE row[m]]
            /\ work' = Scheduled
        BY <1>10, <3>1 DEF Confirm
      <4> QED BY <4>2, <4>3, <1>0, <1>a DEF JobStates
    <3>2. CASE Intent[PreviewOf[c]] # "empty"
      BY <1>10, <3>2, <1>0 DEF Confirm
    <3> QED BY <3>1, <3>2
  <2> QED BY <1>10, <2>1, <2>2, <1>0 DEF Confirm
<1>11. ASSUME NEW c \in Call, Cancel(c) PROVE CleanupTypes'
  <2>1. preview' \in [Preview -> Plans] /\ call' \in [Call -> CallStates]
    BY <1>11, <1>0 DEF Cancel, Plans, CallStates
  <2> QED BY <1>11, <2>1, <1>0 DEF Cancel
<1>12. ASSUME NEW j \in Job, Retry(j) PROVE CleanupTypes'
  <2>1. job' \in [Job -> JobStates]
    BY <1>12, <1>0 DEF Retry, JobStates
  <2> QED BY <1>12, <2>1, <1>0, <1>a DEF Retry
<1>13. ASSUME NEW m \in Mem, Change(m) PROVE CleanupTypes'
  <2>1. PICK v \in 1..MaxVersion :
           /\ disk' = [disk EXCEPT ![<<m, v>>] = Text] /\ epoch' = epoch + 1
           /\ UNCHANGED <<preview, job, items, row, isolated, call, work, theirs, puts>>
    BY <1>13, NewVersionIsFree DEF CleanupInv
  <2>2. disk' \in [File -> Int]
    <3>1. PICK f : disk' = [disk EXCEPT ![f] = Text]
      BY <2>1, Zenon
    <3> QED BY <3>1, <1>0, FilesChange DEF Text
  <2>3. epoch' \in Nat
    BY <2>1, <1>0
  <2> QED BY <2>1, <2>2, <2>3, <1>0, Zenon
<1>14. ASSUME NEW f \in File, Put(f) \/ TakeAway(f) PROVE CleanupTypes'
  <2>1. disk' \in [File -> Int] /\ puts' \in Nat /\ theirs' \subseteq 1..puts'
    <3>1. puts' = puts + 1 /\ theirs' \subseteq theirs \cup {puts + 1}
      BY <1>14 DEF Put, TakeAway
    <3>2. disk' \in [File -> Int]
      BY <1>14, <1>0 DEF Put, TakeAway, Gone
    <3> QED BY <3>1, <3>2, <1>0
  <2> QED BY <1>14, <2>1, <1>0 DEF Put, TakeAway
<1>15. CASE UNCHANGED vars
  BY <1>15, <1>0 DEF vars
<1> QED
  BY <1>1, <1>2, <1>3, <1>4, <1>5, <1>6, <1>7, <1>8, <1>9, <1>10, <1>11, <1>12,
     <1>13, <1>14, <1>15 DEF Next, Drain, ItemStep

-----------------------------------------------------------------------------
(***************************************************************************)
(* What a step can do to jobs, rows and texts, whoever takes it.           *)
(***************************************************************************)
(* The drain has a job that was confirmed, unless it rests.                *)
LEMMA AtAJob ==
  ASSUME CleanupInv, work.place \notin AtRest
  PROVE  J \in Job /\ J # None /\ job[J] # "none" /\ work.batch \in Seq(AnyItem)
<1>1. work \in Works /\ J # None /\ job[J] # "none"
  BY DEF CleanupInv, CleanupTypes, InBatch, J
<1>2. work.job \in Job \cup {None} /\ work.batch \in Seq(AnyItem)
  BY <1>1 DEF Works
<1> QED BY <1>1, <1>2 DEF J

(* The drain fails only a job it has.                                      *)
LEMMA FailedKeeps ==
  ASSUME CleanupInv, Failed, work.job # None
  PROVE  /\ \A j \in Job : job'[j] = "none" <=> job[j] = "none"
         /\ \A j \in Job : job'[j] \in {job[j], "FAILED_RETRYABLE"}
         /\ work'.place \in AtRest /\ work'.job = None
<1>1. J \in Job /\ job[J] # "none" /\ job \in [Job -> JobStates]
  BY AtAJob DEF CleanupInv, InBatch, CleanupTypes
<1>2. job' = [job EXCEPT ![J] = "FAILED_RETRYABLE"]
  BY DEF Failed
<1>3. work' = [Idle EXCEPT !.place = "next"]
  BY DEF Failed
<1>4. \A j \in Job : job'[j] = IF j = J THEN "FAILED_RETRYABLE" ELSE job[j]
  BY <1>1, <1>2
<1> QED
  BY <1>1, <1>3, <1>4 DEF Idle, AtRest

(* Only a confirmation makes a job, and only a completed one has nothing   *)
(* left to do.                                                             *)
LEMMA JobsStay ==
  ASSUME CleanupInv, [Next]_vars, ~ \E c \in Call : Confirm(c)
  PROVE  /\ \A j \in Job : job'[j] = "none" <=> job[j] = "none"
         /\ \A j \in Job : job'[j] = "COMPLETED" => job[j] = "COMPLETED" \/ Pending(j) = {}
<1>0. job \in [Job -> JobStates]
  BY DEF CleanupInv, CleanupTypes
<1> USE DEF durable, files, bounds
<1>1. CASE UNCHANGED job
  BY <1>1
<1>2. CASE Failed /\ work.job # None
  BY <1>2, FailedKeeps
<1>3. CASE ItemStep
  <2>1. work.job # None
    BY <1>3, ItemStepFrame, AtAJob DEF J
  <2> QED BY <2>1, <1>1, <1>2, <1>3, ItemStepMoves DEF Moves
<1>4. CASE Next1
  BY <1>4, <1>0, <1>1, NextJobIsDue
<1>5. CASE BatchEnds
  <2>1. J \in Job /\ job[J] # "none"
    BY <1>5, AtAJob DEF BatchEnds, At, AtRest
  <2>2. job' = [job EXCEPT ![J] = IF Pending(J) = {} THEN "COMPLETED" ELSE @]
    BY <1>5 DEF BatchEnds
  <2> QED BY <2>1, <2>2, <1>0
<1>6. CASE Mark
  BY <1>6, <1>1 DEF Mark
<1>7. CASE Fault
  BY <1>7, <1>2 DEF Fault
<1>8. CASE Halt
  BY <1>8, <1>1 DEF Halt
<1>9. CASE Restart
  BY <1>9, <1>0 DEF Restart
<1>10. CASE \E p \in Preview : Plan(p) \/ Planned(p)
  BY <1>10, <1>1 DEF Plan, Planned
<1>11. CASE \E c \in Call : Asked(c) \/ Refused(c) \/ Cancel(c)
  BY <1>11, <1>1 DEF Asked, Refused, Cancel
<1>12. ASSUME NEW j \in Job, Retry(j) PROVE UNCHANGED job \/ job' = [job EXCEPT ![j] = "CLEANUP_PENDING"]
  BY <1>12 DEF Retry
<1>13. CASE \E j \in Job : Retry(j)
  <2>1. PICK j \in Job : Retry(j)
    BY <1>13
  <2>2. job' = [job EXCEPT ![j] = "CLEANUP_PENDING"] /\ job[j] = "FAILED_RETRYABLE"
    BY <2>1 DEF Retry
  <2> QED BY <2>2, <1>0
<1>14. CASE \E m \in Mem : Change(m)
  BY <1>14, <1>1, Zenon DEF Change
<1>15. CASE \E f \in File : Put(f) \/ TakeAway(f)
  BY <1>15, <1>1 DEF Put, TakeAway
<1>16. CASE UNCHANGED vars
  BY <1>16, <1>1 DEF vars
<1> QED
  BY <1>3, <1>4, <1>5, <1>6, <1>7, <1>8, <1>9, <1>10, <1>11, <1>13, <1>14, <1>15, <1>16
     DEF Next, Drain, ItemStep

(* Only a confirmation and a mark change lists.                            *)
LEMMA ListsStay ==
  ASSUME CleanupInv, [Next]_vars, ~ \E c \in Call : Confirm(c), ~ Mark
  PROVE  UNCHANGED items
<1> USE DEF durable
<1>1. CASE ItemStep
  BY <1>1, ItemStepFrame
<1>2. CASE Next1 \/ BatchEnds \/ Fault \/ Halt \/ Restart
  BY <1>2 DEF Next1, BatchEnds, Fault, Halt, Restart
<1>3. CASE \E p \in Preview : Plan(p) \/ Planned(p)
  BY <1>3 DEF Plan, Planned
<1>4. CASE \E c \in Call : Asked(c) \/ Refused(c) \/ Cancel(c)
  BY <1>4 DEF Asked, Refused, Cancel
<1>5. CASE \E j \in Job : Retry(j)
  BY <1>5 DEF Retry
<1>6. CASE \E m \in Mem : Change(m)
  BY <1>6, Zenon DEF Change
<1>7. CASE \E f \in File : Put(f) \/ TakeAway(f)
  BY <1>7 DEF Put, TakeAway
<1>8. CASE UNCHANGED vars
  BY <1>8 DEF vars
<1> QED
  BY <1>1, <1>2, <1>3, <1>4, <1>5, <1>6, <1>7, <1>8 DEF Next, Drain, ItemStep

(* A mark takes one item from what is to be done.                          *)
LEMMA MarkTakes ==
  ASSUME CleanupInv, Mark
  PROVE  /\ J \in Job /\ job[J] # "none" /\ Item \in DOMAIN items[J]
         /\ work.place = "mark" /\ work.place \notin AtRest /\ work.batch # <<>>
         /\ \A j \in Job : DOMAIN items'[j] = DOMAIN items[j]
         /\ \A j \in Job : Pending(j)' = IF j = J THEN Pending(j) \ {Item} ELSE Pending(j)
         /\ UNCHANGED <<preview, job, row, epoch, files, call, theirs, puts>>
<1>1. /\ work.place = "mark" /\ items' = [items EXCEPT ![J][Item] = "done"]
      /\ UNCHANGED <<preview, job, row, epoch, files, call, theirs, puts>>
  BY DEF Mark, At, bounds
<1>2. work.place \notin AtRest /\ work.batch # <<>>
  BY <1>1 DEF AtRest, CleanupInv, InBatch
<1>3. J \in Job /\ job[J] # "none" /\ Item \in DOMAIN items[J]
  BY <1>2, AtAnItem
<1>4. items \in [Job -> Lists]
  BY DEF CleanupInv, CleanupTypes
<1>5. ASSUME NEW j \in Job
      PROVE  /\ DOMAIN items'[j] = DOMAIN items[j]
             /\ \A i \in DOMAIN items[j] :
                  items'[j][i] = IF j = J /\ i = Item THEN "done" ELSE items[j][i]
  BY <1>1, <1>3, <1>4
<1>6. ASSUME NEW j \in Job
      PROVE  Pending(j)' = IF j = J THEN Pending(j) \ {Item} ELSE Pending(j)
  BY <1>5, <1>6 DEF Pending
<1> QED
  BY <1>1, <1>2, <1>3, <1>5, <1>6

(* A confirmation is of a preview that has no job, and closes it.          *)
LEMMA ConfirmCloses ==
  ASSUME CleanupInv, NEW c \in Call, Confirm(c), NEW p, p = PreviewOf[c]
  PROVE  /\ p \in Preview /\ preview[p].state = "pending" /\ preview[p].epoch = epoch
         /\ job[p] = "none" /\ DOMAIN items[p] = {} /\ Pending(p) = {}
         /\ preview' = [q \in Preview |->
              IF q = p \/ preview[q].state = "pending"
              THEN [preview[q] EXCEPT !.state = "closed"] ELSE preview[q]]
         /\ epoch' = epoch + 1 /\ call' = [call EXCEPT ![c] = "done"]
         /\ work' \in {work, Scheduled}
         /\ UNCHANGED <<files, theirs, puts>>
         /\ \/ Intent[p] # "empty" /\ UNCHANGED <<job, items, row>>
            \/ /\ Intent[p] = "empty"
               /\ job' = [job EXCEPT ![p] = "CLEANUP_PENDING"]
               /\ items' = [items EXCEPT ![p] = [i \in preview[p].items |-> "pending"]]
               /\ row' = [m \in Mem |-> IF m \in Target[p] /\ row[m] = "kept"
                                        THEN "retired" ELSE row[m]]
<1>1. p \in Preview
  BY CleanupAssumption
<1>2. preview[p].state = "pending" /\ preview[p].epoch = epoch
  BY DEF Confirm, Still
<1>3. job[p] = "none" /\ DOMAIN items[p] = {}
  BY <1>1, <1>2 DEF CleanupInv, Fresh
<1> QED
  BY <1>1, <1>2, <1>3 DEF Confirm, Pending

(* An emptied row was emptied before, or is being cleaned now; a text that *)
(* is not kept is never kept again; and the epoch does not go back.        *)
LEMMA RowsMove ==
  ASSUME CleanupInv, [Next]_vars
  PROVE  /\ \A m \in Mem : row[m] # "kept" => row'[m] # "kept"
         /\ \A m \in Mem : row'[m] = "emptied" =>
              row[m] = "emptied" \/ (CleanSql /\ m = Item.id)
         /\ epoch' \in {epoch, epoch + 1}
<1>0. row \in [Mem -> {"kept", "retired", "emptied"}]
  BY DEF CleanupInv, CleanupTypes
<1> USE DEF durable, bounds
<1>1. CASE row' = row /\ epoch' \in {epoch, epoch + 1}
  BY <1>1
<1>2. CASE CleanSql
  <2>1. row' = [row EXCEPT ![Item.id] = "emptied"] /\ epoch' = epoch + 1
    BY <1>2 DEF CleanSql
  <2> QED BY <2>1, <1>0, <1>2
<1>3. CASE Look \/ Rename \/ Verify \/ Link \/ Unlinked \/ Unlink \/ Absent \/ Discharge
  BY <1>3, <1>1 DEF Look, Rename, Verify, Link, Unlinked, Unlink, Absent, Discharge
<1>4. CASE Next1 \/ BatchEnds \/ Mark \/ Fault \/ Halt \/ Restart
  BY <1>4, <1>1 DEF Next1, BatchEnds, Mark, Fault, Halt, Restart
<1>5. CASE \E p \in Preview : Plan(p) \/ Planned(p)
  BY <1>5, <1>1 DEF Plan, Planned
<1>6. CASE \E c \in Call : Asked(c) \/ Refused(c) \/ Cancel(c)
  BY <1>6, <1>1 DEF Asked, Refused, Cancel
<1>7. ASSUME NEW c \in Call, Confirm(c)
      PROVE  /\ \A m \in Mem : row[m] # "kept" => row'[m] # "kept"
             /\ \A m \in Mem : row'[m] = "emptied" => row[m] = "emptied"
             /\ epoch' = epoch + 1
  BY <1>7, ConfirmCloses, <1>0
<1>8. CASE \E j \in Job : Retry(j)
  BY <1>8, <1>1 DEF Retry
<1>9. CASE \E m \in Mem : Change(m)
  BY <1>9, <1>1, NewVersionIsFree DEF CleanupInv
<1>10. CASE \E f \in File : Put(f) \/ TakeAway(f)
  BY <1>10, <1>1 DEF Put, TakeAway
<1>11. CASE UNCHANGED vars
  BY <1>11, <1>1 DEF vars
<1> QED
  BY <1>2, <1>3, <1>4, <1>5, <1>6, <1>7, <1>8, <1>9, <1>10, <1>11 DEF Next, Drain

(* A list has one item for a file.                                         *)
LEMMA OneItem ==
  ASSUME CleanupInv, NEW j \in Job, NEW i \in DOMAIN items[j], NEW k \in DOMAIN items[j],
         i.kind = "file", k.kind = "file", i.id = k.id
  PROVE  i = k
BY DEF CleanupInv, Listed, WellListed, Job

(* A text appears under a name only by a change of a memory that is kept:  *)
(* what is put back from a quarantine is not the text that was listed.     *)
LEMMA TextsOnlyGo ==
  ASSUME CleanupInv, [Next]_vars, NEW f \in File, disk'[f] = Text
  PROVE  \/ disk[f] = Text
         \/ row[f[1]] = "kept" /\ epoch' = epoch + 1
            /\ UNCHANGED <<job, items, row, preview, work, isolated>>
<1>0. disk \in [File -> Int] /\ puts \in Nat
  BY DEF CleanupInv, CleanupTypes
<1> USE DEF durable, files, bounds
<1>1. CASE UNCHANGED disk
  BY <1>1
<1>2. CASE Rename
  <2>1. disk' = disk \/ disk' = [disk EXCEPT ![Item.id] = Gone]
    BY <1>2 DEF Rename
  <2> QED BY <2>1, <1>0 DEF Gone, Text
<1>3. CASE Link
  <2>1. work.place = "back"
    BY <1>3 DEF Link, At
  <2>2. J \in Job /\ Item \in DOMAIN items[J] /\ Item \in FileItems /\ Item.id \in File
        /\ Item.kind = "file"
    BY <2>1, AtAFile DEF FilePlaces
  <2>3. disk' = disk \/ disk' = [disk EXCEPT ![Item.id] = isolated[J][Item.id]]
    BY <1>3 DEF Link
  <2>4. isolated[J][Item.id] # Text
    <3> SUFFICES ASSUME isolated[J][Item.id] = Text PROVE FALSE
      OBVIOUS
    <3>1. FileItem(Item.id, Text) \in DOMAIN items[J]
      BY <2>2 DEF CleanupInv, Quarantined, Pending
    <3>2. FileItem(Item.id, Text) = Item
      BY <3>1, <2>2, OneItem DEF FileItem
    <3>3. Item.hash = Text
      BY <3>2 DEF FileItem
    <3> QED BY <3>3, <2>1 DEF CleanupInv, AtItsFile
  <2> QED BY <2>2, <2>3, <2>4, <1>0
<1>4. CASE ItemStep /\ ~Rename /\ ~Link
  BY <1>4, <1>1, ItemStepFiles DEF Unlinked, Unlink
<1>5. CASE Next1 \/ BatchEnds \/ Mark \/ Fault \/ Halt \/ Restart
  BY <1>5, <1>1 DEF Next1, BatchEnds, Mark, Fault, Halt, Restart
<1>6. CASE \E p \in Preview : Plan(p) \/ Planned(p)
  BY <1>6, <1>1 DEF Plan, Planned
<1>7. CASE \E c \in Call : Asked(c) \/ Refused(c) \/ Cancel(c) \/ Confirm(c)
  BY <1>7, <1>1 DEF Asked, Refused, Cancel, Confirm
<1>8. CASE \E j \in Job : Retry(j)
  BY <1>8, <1>1 DEF Retry
<1>9. ASSUME NEW m \in Mem, Change(m)
      PROVE  \/ disk[f] = Text
             \/ row[f[1]] = "kept" /\ epoch' = epoch + 1
                /\ UNCHANGED <<job, items, row, preview, work, isolated>>
  <2>1. PICK v \in 1..MaxVersion :
          /\ disk' = [disk EXCEPT ![<<m, v>>] = Text] /\ row[m] = "kept"
          /\ epoch' = epoch + 1
          /\ UNCHANGED <<preview, job, items, row, isolated, call, work, theirs, puts>>
    BY <1>9, NewVersionIsFree DEF CleanupInv
  <2>2. f = <<m, v>> \/ disk[f] = Text
    BY <2>1, <1>0
  <2> QED BY <2>1, <2>2
<1>10. CASE \E g \in File : Put(g) \/ TakeAway(g)
  <2>1. PICK g \in File : disk' = [disk EXCEPT ![g] = puts + 1] \/ disk' = [disk EXCEPT ![g] = Gone]
    BY <1>10 DEF Put, TakeAway
  <2> QED BY <2>1, <1>0 DEF Gone, Text
<1>11. CASE UNCHANGED vars
  BY <1>11, <1>1 DEF vars
<1> QED
  BY <1>2, <1>3, <1>4, <1>5, <1>6, <1>7, <1>8, <1>9, <1>10, <1>11
     DEF Next, Drain, ItemStep

-----------------------------------------------------------------------------
(***************************************************************************)
(* The parts of the invariant, one after the other.                        *)
(***************************************************************************)
(* The state a preview goes to: only a plan that is made begins or ends    *)
(* one that is not closed.                                                 *)
LEMMA ClosedStays ==
  ASSUME CleanupInv, [Next]_vars
  PROVE  \A p \in Preview : preview[p].state = "closed" => preview'[p].state = "closed"
<1>0. preview \in [Preview -> Plans]
  BY DEF CleanupInv, CleanupTypes
<1> USE DEF durable
<1>1. CASE UNCHANGED preview
  BY <1>1
<1>2. ASSUME NEW p \in Preview, Plan(p) \/ Planned(p)
      PROVE  \A q \in Preview : preview[q].state = "closed" => preview'[q].state = "closed"
  BY <1>2, <1>0 DEF Plan, Planned
<1>3. ASSUME NEW c \in Call, Confirm(c)
      PROVE  \A q \in Preview : preview[q].state = "closed" => preview'[q].state = "closed"
  BY <1>3, ConfirmCloses
<1>4. ASSUME NEW c \in Call, Cancel(c)
      PROVE  \A q \in Preview : preview[q].state = "closed" => preview'[q].state = "closed"
  BY <1>4, <1>0, CleanupAssumption DEF Cancel, Plans
<1>5. CASE Halt
  BY <1>5 DEF Halt
<1>6. CASE ItemStep
  BY <1>6, <1>1, ItemStepFrame
<1>7. CASE Next1 \/ BatchEnds \/ Mark \/ Fault \/ Restart
  BY <1>7, <1>1 DEF Next1, BatchEnds, Mark, Fault, Restart
<1>8. CASE \E c \in Call : Asked(c) \/ Refused(c)
  BY <1>8, <1>1 DEF Asked, Refused
<1>9. CASE \E j \in Job : Retry(j)
  BY <1>9, <1>1 DEF Retry
<1>10. CASE \E m \in Mem : Change(m)
  BY <1>10, <1>1, Zenon DEF Change
<1>11. CASE \E g \in File : Put(g) \/ TakeAway(g)
  BY <1>11, <1>1 DEF Put, TakeAway
<1>12. CASE UNCHANGED vars
  BY <1>12, <1>1 DEF vars
<1> QED
  BY <1>2, <1>3, <1>4, <1>5, <1>6, <1>7, <1>8, <1>9, <1>10, <1>11, <1>12
     DEF Next, Drain, ItemStep

(* A call is decided by a confirmation or a cancellation.                  *)
LEMMA CallsDecide ==
  ASSUME CleanupInv, [Next]_vars, NEW c \in Call, call'[c] \in Decided
  PROVE  \/ call[c] \in Decided
         \/ (Confirm(c) \/ Cancel(c)) /\ call' = [call EXCEPT ![c] = call'[c]]
<1>0. call \in [Call -> CallStates]
  BY DEF CleanupInv, CleanupTypes
<1> USE DEF durable, Decided, bounds
<1>1. CASE UNCHANGED call
  BY <1>1
<1>2. ASSUME NEW d \in Call, Confirm(d) \/ Cancel(d)
      PROVE  \/ call[c] \in Decided
             \/ (Confirm(c) \/ Cancel(c)) /\ call' = [call EXCEPT ![c] = call'[c]]
  <2>1. call' = [call EXCEPT ![d] = "done"] \/ call' = [call EXCEPT ![d] = "cancelled"]
    BY <1>2 DEF Confirm, Cancel
  <2> QED BY <1>2, <2>1, <1>0
<1>3. ASSUME NEW d \in Call, Asked(d) \/ Refused(d) PROVE call[c] \in Decided
  BY <1>3, <1>0 DEF Asked, Refused
<1>4. CASE Halt
  BY <1>4 DEF Halt
<1>5. CASE ItemStep
  BY <1>5, <1>1, ItemStepFrame
<1>6. CASE Next1 \/ BatchEnds \/ Mark \/ Fault \/ Restart
  BY <1>6, <1>1 DEF Next1, BatchEnds, Mark, Fault, Restart
<1>7. CASE \E p \in Preview : Plan(p) \/ Planned(p)
  BY <1>7, <1>1 DEF Plan, Planned
<1>8. CASE \E j \in Job : Retry(j)
  BY <1>8, <1>1 DEF Retry
<1>9. CASE \E m \in Mem : Change(m)
  BY <1>9, <1>1, Zenon DEF Change
<1>10. CASE \E g \in File : Put(g) \/ TakeAway(g)
  BY <1>10, <1>1 DEF Put, TakeAway
<1>11. CASE UNCHANGED vars
  BY <1>11, <1>1 DEF vars
<1> QED
  BY <1>2, <1>3, <1>4, <1>5, <1>6, <1>7, <1>8, <1>9, <1>10, <1>11
     DEF Next, Drain, ItemStep

LEMMA FreshKept == ASSUME CleanupInv, [Next]_vars PROVE Fresh'
<1>1. ASSUME NEW p \in Preview, preview'[p].state # "closed" PROVE job'[p] = "none"
  <2>1. job[p] = "none"
    BY <1>1, ClosedStays DEF CleanupInv, Fresh
  <2>2. CASE ~ \E c \in Call : Confirm(c)
    BY <2>1, <2>2, JobsStay DEF Job
  <2>3. ASSUME NEW c \in Call, Confirm(c) PROVE job'[p] = "none"
    <3>0. preview \in [Preview -> Plans] /\ job \in [Job -> JobStates]
      BY DEF CleanupInv, CleanupTypes
    <3>1. /\ preview' = [q \in Preview |->
               IF q = PreviewOf[c] \/ preview[q].state = "pending"
               THEN [preview[q] EXCEPT !.state = "closed"] ELSE preview[q]]
          /\ job' = job \/ job' = [job EXCEPT ![PreviewOf[c]] = "CLEANUP_PENDING"]
      BY <2>3, ConfirmCloses
    <3>2. PreviewOf[c] # p
      BY <1>1, <3>0, <3>1 DEF Plans
    <3> QED BY <2>1, <3>0, <3>1, <3>2 DEF Job
  <2> QED BY <2>2, <2>3
<1>2. ASSUME NEW p \in Preview, job'[p] = "none" PROVE DOMAIN items'[p] = {}
  <2>0. job \in [Job -> JobStates] /\ items \in [Job -> Lists]
    BY DEF CleanupInv, CleanupTypes
  <2>1. CASE ~ \E c \in Call : Confirm(c)
    <3>1. DOMAIN items[p] = {}
      BY <1>2, <2>1, JobsStay DEF CleanupInv, Fresh, Job
    <3> QED BY <2>1, <3>1, ListsStay, MarkTakes DEF Job
  <2>2. ASSUME NEW c \in Call, Confirm(c) PROVE DOMAIN items'[p] = {}
    <3>1. CASE Intent[PreviewOf[c]] # "empty"
      BY <1>2, <2>2, <3>1, ConfirmCloses DEF CleanupInv, Fresh
    <3>2. CASE Intent[PreviewOf[c]] = "empty"
      <4>1. job' = [job EXCEPT ![PreviewOf[c]] = "CLEANUP_PENDING"]
        BY <2>2, <3>2, ConfirmCloses
      <4>2. items'[p] = items[p] /\ job[p] = "none"
        BY <1>2, <2>2, <3>2, <4>1, <2>0, ConfirmCloses DEF Job
      <4> QED BY <4>2 DEF CleanupInv, Fresh
    <3> QED BY <3>1, <3>2
  <2> QED BY <2>1, <2>2
<1>3. ASSUME NEW c \in Call, call'[c] \in Decided
      PROVE  preview'[PreviewOf[c]].state = "closed"
  <2>0. PreviewOf[c] \in Preview /\ preview \in [Preview -> Plans]
    BY CleanupAssumption DEF CleanupInv, CleanupTypes
  <2>1. CASE call[c] \in Decided
    BY <2>0, <2>1, ClosedStays DEF CleanupInv, Fresh
  <2>2. CASE Confirm(c)
    BY <2>0, <2>2, ConfirmCloses DEF Plans
  <2>3. CASE Cancel(c)
    BY <2>0, <2>3 DEF Cancel, Plans
  <2> QED BY <1>3, <2>1, <2>2, <2>3, CallsDecide
<1> QED
  BY <1>1, <1>2, <1>3 DEF Fresh

(* What plan() lists of a text has one item for each of its files.         *)
LEMMA ListedOnce ==
  ASSUME disk \in [File -> Int], NEW m \in Mem, NEW i \in ItemsOf(m)
  PROVE  /\ i.kind = "file" =>
              /\ i.id[1] = m
              /\ i = FileItem(i.id, IF i.id[2] \in known[m] /\ row[m] # "emptied"
                                    THEN Text ELSE disk[i.id])
         /\ i.kind # "file" => i.id = m
<1>1. CASE \E v \in 1..MaxVersion :
             i = FileItem(<<m, v>>, IF v \in known[m] /\ row[m] # "emptied"
                                    THEN Text ELSE disk[<<m, v>>])
  BY <1>1 DEF FileItem
<1>2. CASE i \in {EmptyItem(m), RowItem(m)}
  BY <1>2 DEF EmptyItem, RowItem
<1> QED
  BY <1>1, <1>2 DEF ItemsOf

LEMMA PlanIsWellListed ==
  ASSUME disk \in [File -> Int], NEW p \in Preview
  PROVE  WellListed(UNION {ItemsOf(m) : m \in Target[p]}, p)
<1>0. Target[p] \subseteq Mem
  BY CleanupAssumption
<1> DEFINE list == UNION {ItemsOf(m) : m \in Target[p]}
<1>1. ASSUME NEW i \in list, i.kind = "file"
      PROVE  /\ i.id[1] \in Target[p]
             /\ i = FileItem(i.id, IF i.id[2] \in known[i.id[1]] /\ row[i.id[1]] # "emptied"
                                   THEN Text ELSE disk[i.id])
  <2>1. PICK m \in Target[p] : i \in ItemsOf(m)
    OBVIOUS
  <2> QED BY <2>1, <1>0, <1>1, ListedOnce
<1>2. ASSUME NEW i \in list, i.kind # "file" PROVE i.id \in Target[p]
  <2>1. PICK m \in Target[p] : i \in ItemsOf(m)
    OBVIOUS
  <2> QED BY <2>1, <1>0, <1>2, ListedOnce
<1>3. ASSUME NEW i \in list, NEW k \in list, i.kind = "file", k.kind = "file", k.id = i.id
      PROVE  k = i
  <2> HIDE DEF list
  <2> QED BY <1>1, <1>3
<1> HIDE DEF list
<1>4. WellListed(list, p)
  BY <1>1, <1>2, <1>3 DEF WellListed
<1> QED BY <1>4 DEF list

(* ... and the texts that lie there now.                                   *)
LEMMA PlanCovers ==
  ASSUME disk \in [File -> Int], NEW p \in Preview
  PROVE  Covers(UNION {ItemsOf(m) : m \in Target[p]}, p)
<1> SUFFICES ASSUME NEW m \in Target[p], NEW v \in 1..MaxVersion, disk[<<m, v>>] = Text
             PROVE  FileItem(<<m, v>>, Text) \in ItemsOf(m)
  BY DEF Covers
<1>1. disk[<<m, v>>] # Gone
  BY DEF Text, Gone
<1> QED
  BY <1>1 DEF ItemsOf

(* What a step makes of a preview: its list and its epoch stay, or it is   *)
(* planned, or dropped.                                                    *)
LEMMA PreviewsMove ==
  ASSUME CleanupInv, [Next]_vars, NEW p \in Preview
  PROVE  \/ /\ preview'[p].items = preview[p].items /\ preview'[p].epoch = preview[p].epoch
            /\ preview'[p].state = "pending" => preview[p].state = "pending"
         \/ preview'[p].items = {} /\ preview'[p].epoch \in {0, epoch}
            /\ preview'[p].state # "pending"
         \/ /\ UNCHANGED <<disk, epoch>> /\ preview'[p].epoch = epoch
            /\ \/ Intent[p] # "empty" /\ preview'[p].items = {}
               \/ preview'[p].items = UNION {ItemsOf(m) : m \in Target[p]}
<1> DEFINE Moved ==
     \/ /\ preview'[p].items = preview[p].items /\ preview'[p].epoch = preview[p].epoch
        /\ preview'[p].state = "pending" => preview[p].state = "pending"
     \/ preview'[p].items = {} /\ preview'[p].epoch \in {0, epoch}
        /\ preview'[p].state # "pending"
     \/ /\ UNCHANGED <<disk, epoch>> /\ preview'[p].epoch = epoch
        /\ \/ Intent[p] # "empty" /\ preview'[p].items = {}
           \/ preview'[p].items = UNION {ItemsOf(m) : m \in Target[p]}
<1>0. preview \in [Preview -> Plans] /\ preview[p] \in Plans
  BY DEF CleanupInv, CleanupTypes
<1> USE DEF durable
<1>1. CASE UNCHANGED preview
  BY <1>1
<1>2. ASSUME NEW q \in Preview, Plan(q) PROVE Moved
  <2>1. preview' = [preview EXCEPT ![q] = [state |-> "planned", epoch |-> epoch, items |-> {}]]
    BY <1>2 DEF Plan
  <2> QED BY <2>1, <1>0
<1>3. ASSUME NEW q \in Preview, Planned(q) PROVE Moved
  <2>1. /\ preview' = [preview EXCEPT ![q] =
               IF epoch # @.epoch THEN NoPreview
               ELSE [@ EXCEPT !.state = "pending",
                      !.items = IF Intent[q] = "empty"
                                THEN UNION {ItemsOf(m) : m \in Target[q]} ELSE {}]]
        /\ UNCHANGED <<disk, epoch>>
    BY <1>3 DEF Planned, files
  <2>2. CASE q # p
    BY <2>1, <2>2, <1>0
  <2>3. CASE q = p /\ epoch # preview[p].epoch
    <3>1. preview'[p] = NoPreview
      BY <2>1, <2>3, <1>0
    <3> QED BY <3>1 DEF NoPreview
  <2>4. CASE q = p /\ epoch = preview[p].epoch
    <3> DEFINE list == UNION {ItemsOf(m) : m \in Target[p]}
    <3>1. preview'[p] = [preview[p] EXCEPT !.state = "pending",
                            !.items = IF Intent[p] = "empty" THEN list ELSE {}]
      BY <2>1, <2>4, <1>0
    <3> HIDE DEF list
    <3>2. preview'[p].epoch = epoch /\ preview'[p].items = IF Intent[p] = "empty" THEN list ELSE {}
      BY <3>1, <2>4, <1>0 DEF Plans
    <3> QED BY <2>1, <3>2 DEF list
  <2> QED BY <2>2, <2>3, <2>4
<1>4. ASSUME NEW c \in Call, Confirm(c) PROVE Moved
  <2>1. preview' = [q \in Preview |->
              IF q = PreviewOf[c] \/ preview[q].state = "pending"
              THEN [preview[q] EXCEPT !.state = "closed"] ELSE preview[q]]
    BY <1>4, ConfirmCloses
  <2> QED BY <2>1, <1>0 DEF Plans
<1>5. ASSUME NEW c \in Call, Cancel(c) PROVE Moved
  <2>1. preview' = [preview EXCEPT ![PreviewOf[c]].state = "closed"] /\ PreviewOf[c] \in Preview
    BY <1>5, CleanupAssumption DEF Cancel
  <2> QED BY <2>1, <1>0 DEF Plans
<1>6. CASE Halt
  BY <1>6, <1>0 DEF Halt, NoPreview
<1>7. CASE ItemStep
  BY <1>7, <1>1, ItemStepFrame
<1>8. CASE Next1 \/ BatchEnds \/ Mark \/ Fault \/ Restart
  BY <1>8, <1>1 DEF Next1, BatchEnds, Mark, Fault, Restart
<1>9. CASE \E c \in Call : Asked(c) \/ Refused(c)
  BY <1>9, <1>1 DEF Asked, Refused
<1>10. CASE \E j \in Job : Retry(j)
  BY <1>10, <1>1 DEF Retry
<1>11. CASE \E m \in Mem : Change(m)
  BY <1>11, <1>1, Zenon DEF Change
<1>12. CASE \E g \in File : Put(g) \/ TakeAway(g)
  BY <1>12, <1>1 DEF Put, TakeAway
<1>13. CASE UNCHANGED vars
  BY <1>13, <1>1 DEF vars
<1> QED
  BY <1>2, <1>3, <1>4, <1>5, <1>6, <1>7, <1>8, <1>9, <1>10, <1>11, <1>12, <1>13
     DEF Next, Drain, ItemStep

LEMMA ListedKept == ASSUME CleanupInv, [Next]_vars PROVE Listed'
<1>0. /\ disk \in [File -> Int] /\ epoch \in Nat /\ preview \in [Preview -> Plans]
      /\ items \in [Job -> Lists]
  BY DEF CleanupInv, CleanupTypes
<1> SUFFICES ASSUME NEW p \in Preview
             PROVE  /\ WellListed(preview'[p].items, p)
                    /\ WellListed(DOMAIN items'[p], p)
                    /\ preview'[p].epoch <= epoch'
                    /\ (preview'[p].state = "pending" /\ preview'[p].epoch = epoch'
                         /\ Intent[p] = "empty") => Covers(preview[p].items, p)'
  BY DEF Listed, WellListed
<1>1. /\ WellListed(preview[p].items, p) /\ WellListed(DOMAIN items[p], p)
      /\ preview[p].epoch <= epoch /\ preview[p].epoch \in Nat
      /\ (preview[p].state = "pending" /\ preview[p].epoch = epoch
           /\ Intent[p] = "empty") => Covers(preview[p].items, p)
  BY <1>0 DEF CleanupInv, Listed, Plans
<1>2. epoch' \in {epoch, epoch + 1}
  BY RowsMove
<1>3. WellListed({}, p)
  BY DEF WellListed
<1>4. WellListed(preview'[p].items, p) /\ preview'[p].epoch <= epoch'
  <2>1. \/ preview'[p].items = preview[p].items /\ preview'[p].epoch = preview[p].epoch
        \/ preview'[p].items = {} /\ preview'[p].epoch \in {0, epoch}
        \/ /\ preview'[p].epoch = epoch
           /\ preview'[p].items = UNION {ItemsOf(m) : m \in Target[p]}
    BY PreviewsMove
  <2>2. preview'[p].epoch <= epoch'
    BY <1>0, <1>1, <1>2, <2>1
  <2>3. WellListed(UNION {ItemsOf(m) : m \in Target[p]}, p)
    BY <1>0, PlanIsWellListed
  <2> QED BY <1>1, <1>3, <2>1, <2>2, <2>3
<1>5. WellListed(DOMAIN items'[p], p)
  <2>1. CASE ~ \E c \in Call : Confirm(c)
    BY <1>1, <2>1, ListsStay, MarkTakes DEF Job
  <2>2. ASSUME NEW c \in Call, Confirm(c) PROVE WellListed(DOMAIN items'[p], p)
    BY <1>0, <1>1, <2>2, ConfirmCloses DEF Job
  <2> QED BY <2>1, <2>2
<1>6. ASSUME preview'[p].state = "pending", preview'[p].epoch = epoch', Intent[p] = "empty",
             NEW m \in Target[p], NEW v \in 1..MaxVersion, disk'[<<m, v>>] = Text
      PROVE  FileItem(<<m, v>>, Text) \in preview'[p].items
  <2>0. <<m, v>> \in File
    BY CleanupAssumption DEF File
  <2>1. CASE /\ preview'[p].items = preview[p].items /\ preview'[p].epoch = preview[p].epoch
             /\ preview[p].state = "pending"
    <3>1. epoch' = epoch
      BY <1>0, <1>1, <1>2, <1>6, <2>1
    <3>2. disk[<<m, v>>] = Text
      BY <1>0, <1>6, <2>0, <3>1, TextsOnlyGo
    <3> QED BY <1>1, <1>6, <2>1, <3>1, <3>2 DEF Covers
  <2>2. CASE UNCHANGED disk /\ preview'[p].items = UNION {ItemsOf(n) : n \in Target[p]}
    BY <1>0, <1>6, <2>2, PlanCovers DEF Covers
  <2> QED BY <1>6, <2>1, <2>2, PreviewsMove
<1>7. (preview'[p].state = "pending" /\ preview'[p].epoch = epoch'
         /\ Intent[p] = "empty") => Covers(preview[p].items, p)'
  BY <1>6 DEF Covers
<1> QED
  BY <1>4, <1>5, <1>7

LEMMA RetiredKept == ASSUME CleanupInv, [Next]_vars PROVE Retired'
<1>0. /\ job \in [Job -> JobStates] /\ items \in [Job -> Lists]
      /\ row \in [Mem -> {"kept", "retired", "emptied"}]
  BY DEF CleanupInv, CleanupTypes
<1>a. \A j \in Job :
        /\ job[j] # "none" => /\ \A m \in Target[j] : row[m] # "kept"
                              /\ Covers(Pending(j), j)
        /\ job[j] = "COMPLETED" => Pending(j) = {}
  BY DEF CleanupInv, Retired
<1>b. \A j \in Job : Target[j] \subseteq Mem
  BY CleanupAssumption DEF Job
<1>1. CASE ~ \E c \in Call : Confirm(c)
  <2>1. ASSUME NEW j \in Job, NEW i \in Pending(j),
               ~ (Mark /\ j = J /\ i = Item)
        PROVE  i \in Pending(j)'
    <3>1. CASE Mark
      BY <2>1, <3>1, MarkTakes
    <3>2. CASE ~ Mark
      BY <1>1, <2>1, <3>2, ListsStay DEF Pending
    <3> QED BY <3>1, <3>2
  <2>2. ASSUME NEW j \in Job, job'[j] # "none", NEW m \in Target[j] PROVE row'[m] # "kept"
    BY <1>1, <1>a, <1>b, <2>2, JobsStay, RowsMove
  <2>3. ASSUME NEW j \in Job, job'[j] # "none", NEW m \in Target[j], NEW v \in 1..MaxVersion,
               disk'[<<m, v>>] = Text
        PROVE  FileItem(<<m, v>>, Text) \in Pending(j)'
    <3>0. <<m, v>> \in File /\ job[j] # "none"
      BY <1>1, <1>b, <2>3, JobsStay DEF File
    <3>1. disk[<<m, v>>] = Text
      BY <1>a, <2>3, <3>0, TextsOnlyGo
    <3>2. FileItem(<<m, v>>, Text) \in Pending(j)
      BY <1>a, <3>0, <3>1 DEF Covers
    <3>3. ASSUME Mark, j = J, FileItem(<<m, v>>, Text) = Item PROVE FALSE
      <4>1. Item.kind = "file" /\ Item.id = <<m, v>>
        BY <3>3, Zenon DEF FileItem
      <4> QED BY <3>1, <3>3, <4>1, MarkTakes DEF CleanupInv, AtItsFile
    <3> QED BY <2>1, <3>2, <3>3
  <2>4. ASSUME NEW j \in Job, job'[j] = "COMPLETED" PROVE Pending(j)' = {}
    <3>1. Pending(j) = {}
      BY <1>1, <1>a, <2>4, JobsStay
    <3> QED BY <1>1, <3>1, ListsStay, MarkTakes DEF Pending
  <2> QED BY <2>2, <2>3, <2>4 DEF Retired, Covers
<1>2. ASSUME NEW c \in Call, Confirm(c) PROVE Retired'
  <2>p. PICK p : p = PreviewOf[c]
    OBVIOUS
  <2>0. /\ p \in Job /\ UNCHANGED disk /\ preview[p].items \in SUBSET AnyItem
        /\ preview[p].state = "pending" /\ preview[p].epoch = epoch
    BY <1>2, <2>p, ConfirmCloses DEF Job, CleanupInv, CleanupTypes, Plans, files
  <2>1. CASE Intent[p] # "empty"
    <3>1. UNCHANGED <<job, items, row, disk>>
      BY <1>2, <2>p, <2>0, <2>1, ConfirmCloses
    <3> QED BY <1>a, <3>1 DEF Retired, Covers, Pending
  <2>2. CASE Intent[p] = "empty"
    <3>1. /\ job' = [job EXCEPT ![p] = "CLEANUP_PENDING"]
          /\ items' = [items EXCEPT ![p] = [i \in preview[p].items |-> "pending"]]
          /\ row' = [m \in Mem |-> IF m \in Target[p] /\ row[m] = "kept"
                                   THEN "retired" ELSE row[m]]
      BY <1>2, <2>p, <2>2 DEF Confirm
    <3>2. Covers(preview[p].items, p)
      BY <2>0, <2>2 DEF CleanupInv, Listed, Job
    <3>3. ASSUME NEW j \in Job, j # p
          PROVE  /\ job'[j] # "none" => /\ \A m \in Target[j] : row'[m] # "kept"
                                        /\ Covers(Pending(j), j)'
                 /\ job'[j] = "COMPLETED" => Pending(j)' = {}
      <4>1. job'[j] = job[j] /\ items'[j] = items[j]
        BY <1>0, <3>1, <3>3
      <4>2. Pending(j)' = Pending(j)
        BY <4>1 DEF Pending
      <4>3. \A m \in Target[j] : row[m] # "kept" => row'[m] # "kept"
        BY <1>b, <3>1
      <4> QED BY <1>a, <2>0, <4>1, <4>2, <4>3 DEF Covers
    <3>4. /\ job'[p] = "CLEANUP_PENDING" /\ \A m \in Target[p] : row'[m] # "kept"
          /\ Covers(Pending(p), p)'
      <4>1. Pending(p)' = preview[p].items
        BY <1>0, <2>0, <3>1 DEF Pending
      <4>2. \A m \in Target[p] : row'[m] # "kept"
        BY <1>b, <2>0, <3>1
      <4> QED BY <1>0, <2>0, <3>1, <3>2, <4>1, <4>2 DEF Covers
    <3> QED BY <3>3, <3>4 DEF Retired
  <2> QED BY <2>1, <2>2
<1> QED
  BY <1>1, <1>2

(* Only a rename fills a quarantine, with what lies under the name.        *)
LEMMA QuarantinesFill ==
  ASSUME CleanupInv, [Next]_vars, NEW j \in Job, NEW f \in File
  PROVE  \/ isolated'[j][f] = isolated[j][f]
         \/ (Unlinked \/ Unlink) /\ j = J /\ f = Item.id /\ isolated'[j][f] = Gone
         \/ Rename /\ j = J /\ f = Item.id /\ isolated'[j][f] = disk[f] /\ disk[f] # Gone
<1>0. isolated \in [Job -> [File -> Int]]
  BY DEF CleanupInv, CleanupTypes
<1> USE DEF files, bounds
<1>1. CASE UNCHANGED isolated
  BY <1>1
<1>2. CASE Rename \/ Unlinked \/ Unlink
  <2>1. J \in Job /\ Item.id \in File
    BY <1>2, AtAFile DEF Rename, Unlinked, Unlink, At, FilePlaces
  <2>2. \/ UNCHANGED isolated
        \/ (Unlinked \/ Unlink) /\ isolated' = [isolated EXCEPT ![J][Item.id] = Gone]
        \/ /\ Rename /\ disk[Item.id] # Gone
           /\ isolated' = [isolated EXCEPT ![J][Item.id] = disk[Item.id]]
    BY <1>2 DEF Rename, Unlinked, Unlink
  <2> QED BY <1>0, <2>1, <2>2
<1>3. CASE ItemStep /\ ~ (Rename \/ Unlinked \/ Unlink)
  BY <1>3, <1>1, ItemStepFiles DEF Link
<1>4. CASE Next1 \/ BatchEnds \/ Mark \/ Fault \/ Halt \/ Restart
  BY <1>4, <1>1 DEF Next1, BatchEnds, Mark, Fault, Halt, Restart
<1>5. CASE \E p \in Preview : Plan(p) \/ Planned(p)
  BY <1>5, <1>1 DEF Plan, Planned
<1>6. CASE \E c \in Call : Asked(c) \/ Refused(c) \/ Cancel(c) \/ Confirm(c)
  BY <1>6, <1>1 DEF Asked, Refused, Cancel, Confirm
<1>7. CASE \E k \in Job : Retry(k)
  BY <1>7, <1>1 DEF Retry
<1>8. CASE \E m \in Mem : Change(m)
  BY <1>8, <1>1, Zenon DEF Change
<1>9. CASE \E g \in File : Put(g) \/ TakeAway(g)
  BY <1>9, <1>1 DEF Put, TakeAway
<1>10. CASE UNCHANGED vars
  BY <1>10, <1>1 DEF vars
<1> QED
  BY <1>2, <1>3, <1>4, <1>5, <1>6, <1>7, <1>8, <1>9, <1>10 DEF Next, Drain, ItemStep

LEMMA QuarantinedKept == ASSUME CleanupInv, [Next]_vars PROVE Quarantined'
<1> SUFFICES ASSUME NEW j \in Job, NEW f \in File, isolated'[j][f] = Text
             PROVE  FileItem(f, Text) \in Pending(j)'
  BY DEF Quarantined
<1>0. items \in [Job -> Lists]
  BY DEF CleanupInv, CleanupTypes
<1>1. FileItem(f, Text) \in Pending(j)
  <2>1. CASE isolated[j][f] = Text
    BY <2>1 DEF CleanupInv, Quarantined
  <2>2. CASE Rename /\ j = J /\ f = Item.id /\ disk[f] = Text
    <3>1. J \in Job /\ Item \in DOMAIN items[J] /\ Item.kind = "file" /\ job[J] # "none"
      BY <2>2, AtAFile DEF Rename, At, FilePlaces
    <3>2. PICK m \in Mem, v \in 1..MaxVersion : f = <<m, v>>
      BY DEF File
    <3>3. m \in Target[j]
      <4>1. Item.id[1] \in Target[J]
        BY <3>1 DEF CleanupInv, Listed, WellListed, Job
      <4> QED BY <2>2, <3>2, <4>1
    <3> QED BY <2>2, <3>1, <3>2, <3>3 DEF CleanupInv, Retired, Covers
  <2> QED BY <2>1, <2>2, QuarantinesFill DEF Gone, Text
<1>2. CASE Mark
  <2>1. isolated[j][f] = Text
    BY <1>2, MarkTakes DEF files
  <2>2. ASSUME j = J, FileItem(f, Text) = Item PROVE FALSE
    <3>1. Item.kind = "file" /\ Item.id = f
      BY <2>2, Zenon DEF FileItem
    <3> QED BY <1>2, <2>1, <2>2, <3>1, MarkTakes DEF CleanupInv, AtItsFile
  <2> QED BY <1>1, <1>2, <2>2, MarkTakes
<1>3. ASSUME NEW c \in Call, Confirm(c) PROVE FileItem(f, Text) \in Pending(j)'
  <2>1. j # PreviewOf[c]
    BY <1>1, <1>3, ConfirmCloses
  <2>2. items'[j] = items[j]
    BY <1>0, <1>3, <2>1, ConfirmCloses
  <2> QED BY <1>1, <2>2 DEF Pending
<1>4. CASE ~ Mark /\ ~ \E c \in Call : Confirm(c)
  BY <1>1, <1>4, ListsStay DEF Pending
<1> QED
  BY <1>2, <1>3, <1>4

LEMMA EmptiedKept == ASSUME CleanupInv, [Next]_vars PROVE Emptied'
<1> SUFFICES ASSUME NEW m \in Mem, NEW v \in 1..MaxVersion, row'[m] = "emptied",
                    disk'[<<m, v>>] = Text
             PROVE  FALSE
  BY DEF Emptied
<1>0. <<m, v>> \in File
  BY DEF File
<1>1. CASE row[m] = "emptied"
  BY <1>0, <1>1, TextsOnlyGo DEF CleanupInv, Emptied
<1>2. CASE CleanSql /\ m = Item.id
  <2>1. work.place \notin AtRest /\ work.batch # <<>> /\ Item.kind = "row" /\ UNCHANGED disk
    BY <1>2 DEF CleanSql, At, AtRest, files
  <2>2. /\ J \in Job /\ job[J] # "none" /\ Item \in DOMAIN items[J]
        /\ 1 \in DOMAIN work.batch /\ Item = work.batch[1]
    BY <2>1, AtAnItem
  <2>3. \A i \in Pending(J) : i.kind = "row"
    <3>1. \A i \in Pending(J) : i.kind = "row" \/ \E l \in 1..1 : work.batch[l] = i
      BY <2>1, <2>2 DEF CleanupInv, InBatch
    <3> QED BY <2>1, <2>2, <3>1
  <2>4. m \in Target[J]
    BY <1>2, <2>1, <2>2 DEF CleanupInv, Listed, WellListed, Job
  <2>5. disk[<<m, v>>] = Text
    BY <2>1
  <2>6. FileItem(<<m, v>>, Text) \in Pending(J)
    BY <2>2, <2>4, <2>5 DEF CleanupInv, Retired, Covers
  <2> QED BY <2>3, <2>6 DEF FileItem
<1> QED
  BY <1>1, <1>2, RowsMove

(* A job that was made stays, with what it has to do, until it is marked.  *)
LEMMA MadeStays ==
  ASSUME CleanupInv, [Next]_vars, NEW j \in Job, job[j] # "none"
  PROVE  job'[j] # "none" /\ (~ Mark => items'[j] = items[j] /\ Pending(j)' = Pending(j))
<1>0. job \in [Job -> JobStates] /\ items \in [Job -> Lists]
  BY DEF CleanupInv, CleanupTypes
<1>1. CASE ~ \E c \in Call : Confirm(c)
  BY <1>1, JobsStay, ListsStay DEF Pending
<1>2. ASSUME NEW c \in Call, Confirm(c)
      PROVE  job'[j] # "none" /\ items'[j] = items[j]
  <2>1. j # PreviewOf[c]
    BY <1>2, ConfirmCloses
  <2>2. /\ \/ job' = job
           \/ job' = [job EXCEPT ![PreviewOf[c]] = "CLEANUP_PENDING"]
        /\ \/ items' = items
           \/ items' = [items EXCEPT ![PreviewOf[c]] =
                          [i \in preview[PreviewOf[c]].items |-> "pending"]]
    BY <1>2 DEF Confirm
  <2> QED BY <1>0, <2>1, <2>2
<1> QED
  BY <1>1, <1>2 DEF Pending

(* Where the drain goes.                                                   *)
LEMMA WorkMoves ==
  ASSUME CleanupInv, [Next]_vars
  PROVE  \/ work'.job = None /\ work'.place \in AtRest
         \/ UNCHANGED work
         \/ Mark
         \/ ItemStep /\ \E p \in Places \ AtRest : Go(p)
         \/ \E j \in Job : /\ job[j] # "none" /\ UNCHANGED items
                           /\ \E s \in Batches(j) :
                                work' = [job |-> j, batch |-> s, place |-> "item"]
<1>0. work \in Works /\ (work.job = None => work.place \in AtRest)
  BY DEF CleanupInv, CleanupTypes, InBatch
<1>1. CASE UNCHANGED work
  BY <1>1
<1>2. CASE work' = [Idle EXCEPT !.place = "next"] \/ work' = Idle
  BY <1>2 DEF Idle, AtRest
<1>3. CASE work' = Scheduled
  BY <1>0, <1>3 DEF Scheduled, Works, AtRest
<1> USE DEF durable
<1>4. CASE ItemStep
  BY <1>2, <1>4, ItemStepMoves DEF Moves, Failed
<1>5. CASE Next1
  <2>1. UNCHANGED items
    BY <1>5 DEF Next1
  <2> QED BY <1>2, <1>5, <2>1, NextJobIsDue
<1>6. CASE BatchEnds \/ Fault \/ Halt \/ Restart
  BY <1>2, <1>6 DEF BatchEnds, Fault, Failed, Halt, Restart
<1>7. CASE \E p \in Preview : Plan(p) \/ Planned(p)
  BY <1>7, <1>1 DEF Plan, Planned
<1>8. CASE \E c \in Call : Asked(c) \/ Refused(c) \/ Cancel(c)
  BY <1>8, <1>1 DEF Asked, Refused, Cancel
<1>9. CASE \E c \in Call : Confirm(c)
  BY <1>9, <1>1, <1>3 DEF Confirm
<1>10. CASE \E j \in Job : Retry(j)
  BY <1>10, <1>3 DEF Retry
<1>11. CASE \E m \in Mem : Change(m)
  BY <1>11, <1>1, Zenon DEF Change
<1>12. CASE \E g \in File : Put(g) \/ TakeAway(g)
  BY <1>12, <1>1 DEF Put, TakeAway
<1>13. CASE UNCHANGED vars
  BY <1>13, <1>1 DEF vars
<1> QED
  BY <1>4, <1>5, <1>6, <1>7, <1>8, <1>9, <1>10, <1>11, <1>12, <1>13
     DEF Next, Drain, ItemStep

LEMMA InBatchKept == ASSUME CleanupInv, [Next]_vars PROVE InBatch'
<1>0. work \in Works /\ InBatch /\ None \notin Job
  BY CleanupAssumption DEF CleanupInv, CleanupTypes, Job
<1>1. CASE work'.job = None /\ work'.place \in AtRest
  BY <1>1 DEF InBatch
<1>2. CASE UNCHANGED work /\ ~ Mark
  <2>1. CASE work.place \in AtRest
    BY <1>0, <1>2, <2>1 DEF InBatch
  <2>2. CASE work.place \notin AtRest
    <3>1. J' = J /\ job'[J] # "none" /\ items'[J] = items[J] /\ Pending(J)' = Pending(J)
      BY <1>2, <2>2, AtAJob, MadeStays DEF J
    <3> QED BY <1>0, <1>2, <3>1 DEF InBatch, J
  <2> QED BY <2>1, <2>2
<1>3. CASE ItemStep /\ \E p \in Places \ AtRest : Go(p)
  <2>1. work.place \notin AtRest /\ UNCHANGED items /\ ~ Mark
    <3>1. work.place # "mark"
      BY <1>3 DEF ItemStep, Look, Rename, Verify, Link, Unlinked, Unlink, Absent,
                  Discharge, CleanSql, At
    <3> QED BY <1>3, <3>1, ItemStepFrame DEF Mark, At
  <2>2. work.batch # <<>>
    BY <1>0, <1>3, <2>1 DEF InBatch, ItemStep, Look, Rename, Verify, Link, Unlinked,
         Unlink, Absent, Discharge, CleanSql, At
  <2>3. J' = J /\ work'.batch = work.batch /\ work'.job = work.job /\ work'.place \notin AtRest
    BY <1>0, <1>3 DEF Go, Works, J
  <2>4. job'[J] # "none" /\ items'[J] = items[J] /\ Pending(J)' = Pending(J)
    <3>1. J \in Job /\ job[J] # "none"
      BY <2>1, AtAJob
    <3>2. PICK j \in Job : j = J
      BY <3>1
    <3>3. job'[j] # "none" /\ items'[j] = items[j] /\ Pending(j)' = Pending(j)
      BY <2>1, <3>1, <3>2, MadeStays
    <3> QED BY <2>3, <3>2, <3>3
  <2> QED BY <1>0, <2>1, <2>2, <2>3, <2>4 DEF InBatch, J
<1>4. CASE Mark
  <2>0. J' = J
    BY <1>0, <1>4 DEF Mark, Works, J
  <2>1. /\ J \in Job /\ Item \in DOMAIN items[J]
        /\ work.place \notin AtRest /\ work.batch # <<>>
        /\ DOMAIN items'[J] = DOMAIN items[J]
        /\ Pending(J)' = Pending(J) \ {Item}
    <3>1. /\ J \in Job /\ Item \in DOMAIN items[J]
          /\ work.place \notin AtRest /\ work.batch # <<>>
          /\ DOMAIN items'[J] = DOMAIN items[J]
      BY <1>4, MarkTakes
    <3>2. PICK j \in Job : j = J
      BY <3>1
    <3>3. Pending(j)' = Pending(j) \ {Item}
      BY <1>4, <3>2, MarkTakes
    <3> QED BY <2>0, <3>1, <3>2, <3>3
  <2>2. work.batch \in Seq(AnyItem) /\ Item = work.batch[1] /\ J # None
    BY <2>1, AtAJob, AtAnItem
  <2>3. /\ J' = J /\ work'.batch = Tail(work.batch) /\ work'.place = "item"
        /\ work'.job = work.job /\ work'.place \notin AtRest
    BY <1>0, <1>4 DEF Mark, Works, J, AtRest
  <2>4. /\ \A k \in DOMAIN work'.batch : k + 1 \in DOMAIN work.batch /\ k \in Nat
        /\ \A k \in DOMAIN work'.batch : work'.batch[k] = work.batch[k + 1]
        /\ \A k \in DOMAIN work.batch : k # 1 => k - 1 \in DOMAIN work'.batch
    BY <2>1, <2>2, <2>3
  <2>5. job'[J] # "none"
    BY <2>1, AtAJob, MadeStays
  <2>6. ASSUME NEW k \in DOMAIN work'.batch PROVE work'.batch[k] \in DOMAIN items'[J]
    BY <1>0, <2>1, <2>4 DEF InBatch
  <2>7. ASSUME NEW k \in DOMAIN work'.batch, work'.batch[k].kind = "row",
               NEW i \in Pending(J)', i.kind # "row"
        PROVE  \E l \in 1..k : work'.batch[l] = i
    <3>1. PICK l \in 1..(k + 1) : work.batch[l] = i
      BY <1>0, <2>1, <2>4, <2>7 DEF InBatch
    <3>2. l # 1
      BY <2>1, <2>2, <2>7, <3>1
    <3>3. l \in DOMAIN work.batch /\ k \in Nat
      BY <2>2, <2>4, <3>1
    <3>4. work'.batch[l - 1] = i /\ l - 1 \in 1..k
      BY <2>4, <3>1, <3>2, <3>3
    <3> QED BY <3>4
  <2> QED BY <2>2, <2>3, <2>5, <2>6, <2>7 DEF InBatch, J
<1>5. ASSUME NEW j \in Job, job[j] # "none", UNCHANGED items, NEW s \in Batches(j),
             work' = [job |-> j, batch |-> s, place |-> "item"]
      PROVE  InBatch'
  <2>1. /\ work'.place \notin AtRest /\ work'.place = "item" /\ work'.job = j
        /\ work'.batch = s /\ J' = j
    BY <1>5 DEF AtRest, J
  <2>2. job'[j] # "none" /\ Pending(j)' = Pending(j)
    BY <1>5, MadeStays DEF Pending
  <2>3. /\ \A k \in DOMAIN s : s[k] \in Pending(j)
        /\ \A k \in DOMAIN s : s[k].kind = "row" =>
             \A i \in Pending(j) : i.kind = "row" \/ \E l \in 1..k : s[l] = i
    BY BatchIsPending DEF CleanupInv
  <2>4. \A k \in DOMAIN s : s[k] \in DOMAIN items'[j]
    BY <1>5, <2>3 DEF Pending
  <2> QED BY <1>0, <2>1, <2>2, <2>3, <2>4 DEF InBatch
<1> QED
  BY <1>1, <1>2, <1>3, <1>4, <1>5, WorkMoves

LEMMA NumberedKept == ASSUME CleanupInv, [Next]_vars PROVE Numbered'
<1>0. /\ disk \in [File -> Int] /\ isolated \in [Job -> [File -> Int]] /\ puts \in Nat
      /\ \A f \in File : disk[f] <= puts
      /\ \A j \in Job, f \in File : isolated[j][f] <= puts
  BY DEF CleanupInv, CleanupTypes, Numbered
<1> USE DEF durable, files, bounds
<1>1. puts' \in {puts, puts + 1} /\ \A f \in File : disk'[f] <= puts'
  <2>1. CASE UNCHANGED <<disk, puts>>
    BY <1>0, <2>1
  <2>2. CASE ItemStep
    <3>1. UNCHANGED puts
      BY <2>2, ItemStepFrame
    <3>2. CASE UNCHANGED files
      BY <2>1, <3>1, <3>2
    <3>3. CASE Rename \/ Unlinked \/ Unlink
      <4>1. disk' = disk \/ disk' = [disk EXCEPT ![Item.id] = Gone]
        BY <3>3 DEF Rename, Unlinked, Unlink
      <4> QED BY <1>0, <3>1, <4>1 DEF Gone
    <3>4. CASE Link
      <4>1. J \in Job /\ Item.id \in File
        BY <3>4, AtAFile DEF Link, At, FilePlaces
      <4>2. disk' = disk \/ disk' = [disk EXCEPT ![Item.id] = isolated[J][Item.id]]
        BY <3>4 DEF Link
      <4> QED BY <1>0, <3>1, <4>1, <4>2
    <3> QED BY <2>2, <3>2, <3>3, <3>4, ItemStepFiles
  <2>3. CASE Next1 \/ BatchEnds \/ Mark \/ Fault \/ Halt \/ Restart
    BY <2>1, <2>3 DEF Next1, BatchEnds, Mark, Fault, Halt, Restart
  <2>4. CASE \E p \in Preview : Plan(p) \/ Planned(p)
    BY <2>1, <2>4 DEF Plan, Planned
  <2>5. CASE \E c \in Call : Asked(c) \/ Refused(c) \/ Cancel(c) \/ Confirm(c)
    BY <2>1, <2>5 DEF Asked, Refused, Cancel, Confirm
  <2>6. CASE \E j \in Job : Retry(j)
    BY <2>1, <2>6 DEF Retry
  <2>7. ASSUME NEW m \in Mem, Change(m)
        PROVE  puts' \in {puts, puts + 1} /\ \A f \in File : disk'[f] <= puts'
    <3>1. PICK g : disk' = [disk EXCEPT ![g] = Text] /\ UNCHANGED puts
      BY <2>7, NewVersionIsFree, Zenon DEF CleanupInv
    <3> QED BY <1>0, <3>1 DEF Text
  <2>8. ASSUME NEW g \in File, Put(g) \/ TakeAway(g)
        PROVE  puts' \in {puts, puts + 1} /\ \A f \in File : disk'[f] <= puts'
    <3>1. /\ puts' = puts + 1
          /\ disk' = [disk EXCEPT ![g] = puts + 1] \/ disk' = [disk EXCEPT ![g] = Gone]
      BY <2>8 DEF Put, TakeAway
    <3> QED BY <1>0, <3>1 DEF Gone
  <2>9. CASE UNCHANGED vars
    BY <2>1, <2>9 DEF vars
  <2> QED BY <2>2, <2>3, <2>4, <2>5, <2>6, <2>7, <2>8, <2>9 DEF Next, Drain, ItemStep
<1>2. ASSUME NEW j \in Job, NEW f \in File PROVE isolated'[j][f] <= puts'
  <2>1. isolated'[j][f] \in {isolated[j][f], Gone, disk[f]}
    BY QuarantinesFill
  <2>2. isolated[j][f] \in Int /\ disk[f] \in Int
    BY <1>0
  <2> QED BY <1>0, <1>1, <2>1, <2>2 DEF Gone
<1> QED
  BY <1>1, <1>2 DEF Numbered

(* Who changes files: the drain, a memory, which takes a free name, and    *)
(* somebody outside.                                                       *)
LEMMA FilesMove ==
  ASSUME CleanupInv, [Next]_vars
  PROVE  \/ UNCHANGED <<files, theirs>>
         \/ ItemStep /\ UNCHANGED theirs
         \/ /\ UNCHANGED <<isolated, theirs, work, items>>
            /\ \E m \in Mem, v \in 1..MaxVersion :
                 /\ row[m] = "kept" /\ disk[<<m, v>>] = Gone
                 /\ disk' = [disk EXCEPT ![<<m, v>>] = Text]
         \/ /\ UNCHANGED <<isolated, work, items>>
            /\ \E f \in File :
                 \/ /\ disk' = [disk EXCEPT ![f] = puts + 1]
                    /\ theirs' = (theirs \ {disk[f]}) \cup {puts + 1}
                 \/ /\ disk' = [disk EXCEPT ![f] = Gone] /\ theirs' = theirs \ {disk[f]}
<1> USE DEF durable, bounds
<1>1. CASE UNCHANGED <<files, theirs>>
  BY <1>1
<1>2. CASE ItemStep
  BY <1>2, ItemStepFrame
<1>3. CASE Next1 \/ BatchEnds \/ Mark \/ Fault \/ Halt \/ Restart
  BY <1>1, <1>3 DEF Next1, BatchEnds, Mark, Fault, Halt, Restart
<1>4. CASE \E p \in Preview : Plan(p) \/ Planned(p)
  BY <1>1, <1>4 DEF Plan, Planned
<1>5. CASE \E c \in Call : Asked(c) \/ Refused(c) \/ Cancel(c) \/ Confirm(c)
  BY <1>1, <1>5 DEF Asked, Refused, Cancel, Confirm
<1>6. CASE \E j \in Job : Retry(j)
  BY <1>1, <1>6 DEF Retry
<1>7. ASSUME NEW m \in Mem, Change(m)
      PROVE  /\ UNCHANGED <<isolated, theirs, work, items>>
             /\ \E v \in 1..MaxVersion :
                  /\ row[m] = "kept" /\ disk[<<m, v>>] = Gone
                  /\ disk' = [disk EXCEPT ![<<m, v>>] = Text]
  BY <1>7, NewVersionIsFree, Zenon DEF CleanupInv
<1>8. CASE \E f \in File : Put(f) \/ TakeAway(f)
  BY <1>8 DEF Put, TakeAway
<1>9. CASE UNCHANGED vars
  BY <1>1, <1>9 DEF vars
<1> QED
  BY <1>2, <1>3, <1>4, <1>5, <1>6, <1>7, <1>8, <1>9 DEF Next, Drain, ItemStep

(* From one await to the next the drain stays with its item.               *)
LEMMA GoStays ==
  ASSUME CleanupInv, NEW p, Go(p)
  PROVE  work'.place = p /\ J' = J /\ Item' = Item
<1>1. work \in Works
  BY DEF CleanupInv, CleanupTypes
<1> QED
  BY <1>1 DEF Go, Works, J, Item

LEMMA AtItsFileStep ==
  ASSUME CleanupInv, ItemStep, UNCHANGED theirs, work'.place \notin AtRest
  PROVE  AtItsFile'
<1>0. /\ disk \in [File -> Int] /\ isolated \in [Job -> [File -> Int]]
      /\ AtItsFile /\ theirs \subseteq 1..puts /\ puts \in Nat
  BY DEF CleanupInv, CleanupTypes
<1>a. ~ Failed
  BY DEF Failed, Idle, AtRest
<1> USE DEF durable, files
<1>1. CASE Look
  <2>1. Item.kind = "file" /\ work.batch # <<>> /\ work.place \notin AtRest /\ UNCHANGED files
    BY <1>1 DEF Look, At, AtRest
  <2>2. CASE Go("verify")
    BY <2>1, <2>2, GoStays DEF AtItsFile, FilePlaces
  <2>3. CASE Go("mark") /\ isolated[J][Item.id] = Gone /\ disk[Item.id] = Gone
    BY <2>1, <2>3, GoStays DEF AtItsFile, FilePlaces, Gone, Text
  <2>4. CASE Go("rename") /\ isolated[J][Item.id] = Gone
    BY <2>1, <2>4, GoStays DEF AtItsFile, FilePlaces
  <2> QED BY <1>1, <1>a, <2>2, <2>3, <2>4 DEF Look
<1>2. CASE Rename
  <2>1. Go("verify") /\ work.place \in FilePlaces
    BY <1>2, <1>a DEF Rename, At, FilePlaces
  <2> QED BY <2>1, GoStays, AtAFile DEF AtItsFile, FilePlaces
<1>3. CASE Verify
  <2>1. UNCHANGED files /\ work.place \in FilePlaces
    BY <1>3 DEF Verify, At, FilePlaces
  <2>2. CASE Go("unlink") /\ isolated[J][Item.id] = Item.hash
    BY <2>1, <2>2, GoStays, AtAFile DEF AtItsFile, FilePlaces
  <2>3. CASE Go("back") /\ isolated[J][Item.id] # Item.hash
    BY <2>1, <2>3, GoStays, AtAFile DEF AtItsFile, FilePlaces
  <2> QED BY <1>3, <2>2, <2>3 DEF Verify
<1>4. CASE Link
  <2>1. /\ Go("linked") /\ disk' = [disk EXCEPT ![Item.id] = isolated[J][Item.id]]
        /\ work.place = "back" /\ UNCHANGED isolated
    BY <1>4, <1>a DEF Link, At
  <2>2. Item.id \in File /\ J \in Job /\ Item.kind = "file"
    BY <2>1, AtAFile DEF FilePlaces
  <2>3. isolated[J][Item.id] # Item.hash
    BY <1>0, <2>1 DEF AtItsFile
  <2>4. disk'[Item.id] = isolated[J][Item.id]
    BY <1>0, <2>1, <2>2
  <2> QED BY <2>1, <2>2, <2>3, <2>4, GoStays DEF AtItsFile, FilePlaces
<1>5. CASE Unlinked
  BY <1>5, <1>a DEF Unlinked
<1>6. CASE Unlink
  <2>1. /\ Go("gone") /\ isolated' = [isolated EXCEPT ![J][Item.id] = Gone]
        /\ work.place = "unlink"
    BY <1>6 DEF Unlink, At
  <2>2. Item.id \in File /\ J \in Job /\ Item.kind = "file"
    BY <2>1, AtAFile DEF FilePlaces
  <2>3. isolated'[J][Item.id] = Gone
    BY <1>0, <2>1, <2>2
  <2> QED BY <2>1, <2>2, <2>3, GoStays DEF AtItsFile, FilePlaces
<1>7. CASE Absent
  <2>1. /\ Go("mark") /\ disk[Item.id] = Gone /\ UNCHANGED files /\ work.place = "gone"
    BY <1>7, <1>a DEF Absent, At
  <2>2. isolated[J][Item.id] = Gone
    BY <1>0, <2>1 DEF AtItsFile
  <2> QED BY <2>1, <2>2, GoStays DEF AtItsFile, FilePlaces, Gone, Text
<1>8. CASE Discharge \/ CleanSql
  <2>1. Go("mark") /\ Item.kind # "file"
    BY <1>8, <1>a DEF Discharge, CleanSql
  <2> QED BY <2>1, GoStays DEF AtItsFile, FilePlaces
<1> QED
  BY <1>1, <1>2, <1>3, <1>4, <1>5, <1>6, <1>7, <1>8 DEF ItemStep

LEMMA AtItsFileKept == ASSUME CleanupInv, [Next]_vars PROVE AtItsFile'
<1>0. /\ disk \in [File -> Int] /\ isolated \in [Job -> [File -> Int]]
      /\ AtItsFile /\ theirs \subseteq 1..puts /\ puts \in Nat /\ work \in Works
  BY DEF CleanupInv, CleanupTypes
<1>1. CASE work'.place \in AtRest \cup {"item"}
  BY <1>1 DEF AtItsFile, AtRest, FilePlaces
<1>2. CASE work'.place \notin AtRest \cup {"item"}
  <2>1. CASE ItemStep
    <3>1. UNCHANGED theirs
      BY <2>1, ItemStepFrame
    <3> QED BY <1>2, <2>1, <3>1, AtItsFileStep
  <2>2. CASE ~ ItemStep
    <3>1. ~ Mark
      BY <1>0, <1>2 DEF Mark, Works
    <3>2. UNCHANGED work
      <4>1. ASSUME NEW j, NEW s, work' = [job |-> j, batch |-> s, place |-> "item"] PROVE FALSE
        BY <1>2, <4>1
      <4> QED BY <1>2, <2>2, <3>1, <4>1, WorkMoves
    <3>3. J' = J /\ Item' = Item /\ work.place \notin AtRest /\ work.place # "item"
      BY <1>2, <3>2 DEF J, Item
    <3>4. CASE UNCHANGED <<files, theirs>>
      BY <1>0, <3>2, <3>3, <3>4 DEF AtItsFile, files
    <3>5. CASE Item.kind # "file"
      <4>1. work.place \notin FilePlaces
        BY <1>0, <3>5 DEF AtItsFile
      <4> QED BY <3>2, <3>3, <3>5, <4>1 DEF AtItsFile, FilePlaces
    <3>6. CASE Item.kind = "file" /\ ~ UNCHANGED <<files, theirs>>
      <4>1. /\ J \in Job /\ job[J] # "none" /\ Item \in DOMAIN items[J] /\ Item.id \in File
        BY <1>2, <3>2, <3>6, AtAnItem DEF CleanupInv, InBatch
      <4>2. isolated' = isolated
        BY <2>2, <3>6, FilesMove
      <4>3. isolated[J][Item.id] \in theirs' => /\ isolated[J][Item.id] \in theirs
                                                /\ disk[Item.id] = isolated[J][Item.id] =>
                                                     disk'[Item.id] = isolated[J][Item.id]
        <5>1. isolated[J][Item.id] <= puts /\ disk[Item.id] \in Int
              /\ isolated[J][Item.id] \in Int
          BY <1>0, <4>1 DEF CleanupInv, Numbered
        <5>2. ASSUME NEW f \in File, disk[f] = Gone, disk' = [disk EXCEPT ![f] = Text],
                     UNCHANGED theirs
              PROVE  isolated[J][Item.id] \in theirs' =>
                       /\ isolated[J][Item.id] \in theirs
                       /\ disk[Item.id] = isolated[J][Item.id] =>
                            disk'[Item.id] = isolated[J][Item.id]
          BY <1>0, <4>1, <5>1, <5>2 DEF Gone
        <5>3. ASSUME NEW f \in File, theirs' \subseteq (theirs \ {disk[f]}) \cup {puts + 1},
                     \/ disk' = [disk EXCEPT ![f] = puts + 1]
                     \/ disk' = [disk EXCEPT ![f] = Gone]
              PROVE  isolated[J][Item.id] \in theirs' =>
                       /\ isolated[J][Item.id] \in theirs
                       /\ disk[Item.id] = isolated[J][Item.id] =>
                            disk'[Item.id] = isolated[J][Item.id]
          BY <1>0, <4>1, <5>1, <5>3
        <5>4. \A m \in Mem, v \in 1..MaxVersion : <<m, v>> \in File
          BY DEF File
        <5> QED BY <2>2, <3>6, <5>2, <5>3, <5>4, FilesMove
      <4>4. work.place = "mark" => disk'[Item.id] # Text
        <5> SUFFICES ASSUME work.place = "mark", disk'[Item.id] = Text PROVE FALSE
          OBVIOUS
        <5>1. disk[Item.id] # Text
          BY <1>0, <3>6 DEF AtItsFile
        <5>2. Item.id[1] \in Target[J] /\ row[Item.id[1]] # "kept"
          BY <3>6, <4>1 DEF CleanupInv, Listed, WellListed, Retired, Job
        <5> QED BY <4>1, <5>1, <5>2, TextsOnlyGo
      <4> QED BY <1>0, <3>2, <3>3, <3>6, <4>2, <4>3, <4>4 DEF AtItsFile
    <3> QED BY <3>4, <3>5, <3>6
  <2> QED BY <2>1, <2>2
<1> QED
  BY <1>1, <1>2

LEMMA CleanupInvInit == ASSUME Init PROVE CleanupInv
<1> USE DEF Init
<1>1. CleanupTypes
  <2>1. work \in Works
    BY RestIsWork
  <2>2. << >> \in Lists
    <3>1. << >> \in Seq({"pending", "done"})
      OBVIOUS
    <3>2. << >> \in [1..0 -> {"pending", "done"}]
      BY <3>1
    <3>3. 1..0 = {} /\ {} \in SUBSET AnyItem
      OBVIOUS
    <3> QED BY <3>2, <3>3, Zenon DEF Lists
  <2>3. NoPreview \in Plans
    BY DEF NoPreview, Plans
  <2>4. disk \in [File -> Int] /\ isolated \in [Job -> [File -> Int]]
    BY DEF Text, Gone
  <2> QED BY <2>1, <2>2, <2>3, <2>4 DEF CleanupTypes, JobStates, CallStates
<1>2. Fresh
  BY CleanupAssumption DEF Fresh, Job, NoPreview, Decided
<1>3. Listed
  BY DEF Listed, WellListed, Covers, NoPreview, Job
<1>4. Retired /\ Quarantined /\ Emptied
  BY DEF Retired, Quarantined, Emptied, Text, Gone
<1>5. InBatch /\ AtItsFile
  BY DEF InBatch, AtItsFile, Idle, AtRest, FilePlaces
<1>6. Numbered
  BY DEF Numbered, Text, Gone
<1> QED
  BY <1>1, <1>2, <1>3, <1>4, <1>5, <1>6 DEF CleanupInv

LEMMA CleanupInvKept == ASSUME CleanupInv, [Next]_vars PROVE CleanupInv'
<1>1. CleanupTypes' /\ Fresh' /\ Listed' /\ Retired'
  BY TypesKept, FreshKept, ListedKept, RetiredKept
<1>2. Quarantined' /\ Emptied' /\ InBatch' /\ AtItsFile' /\ Numbered'
  BY QuarantinedKept, EmptiedKept, InBatchKept, AtItsFileKept, NumberedKept
<1> QED
  BY <1>1, <1>2 DEF CleanupInv

(* The invariant: shapes, previews without a job, lists that cover the     *)
(* texts, the quarantines and what the drain knows from one await to the   *)
(* next hold together, though none of them is inductive alone.             *)
THEOREM CleanupInductive == Spec => []CleanupInv
<1>1. Init => CleanupInv
  BY CleanupInvInit
<1>2. CleanupInv /\ [Next]_vars => CleanupInv'
  BY CleanupInvKept
<1> QED
  BY <1>1, <1>2, PTL DEF Spec

-----------------------------------------------------------------------------
(***************************************************************************)
(* The properties.                                                         *)
(***************************************************************************)
(* When the rows of a text are emptied the text lies nowhere any more,     *)
(* except where a job that is not over still has it in its list: cleanSql  *)
(* comes after cleanFile() of every file that plan() saw, and no later     *)
(* step of anyone brings a text back (drain(), cleanFile(), plan()).       *)
THEOREM EmptiedTextsAreGone == Spec => []EmptiedIsGone
<1>1. CleanupInv => EmptiedIsGone
  <2> SUFFICES ASSUME CleanupInv, NEW m \in Mem, NEW v \in 1..MaxVersion,
                      row[m] = "emptied"
               PROVE  /\ disk[<<m, v>>] # Text
                      /\ \A j \in Job : isolated[j][<<m, v>>] = Text =>
                           job[j] # "COMPLETED" /\ \E i \in Pending(j) : i.id = <<m, v>>
    BY DEF EmptiedIsGone
  <2>1. disk[<<m, v>>] # Text
    BY DEF CleanupInv, Emptied
  <2>2. ASSUME NEW j \in Job, isolated[j][<<m, v>>] = Text
        PROVE  job[j] # "COMPLETED" /\ \E i \in Pending(j) : i.id = <<m, v>>
    <3>1. <<m, v>> \in File
      BY DEF File
    <3>2. FileItem(<<m, v>>, Text) \in Pending(j)
      BY <2>2, <3>1 DEF CleanupInv, Quarantined
    <3>3. job[j] # "COMPLETED"
      BY <3>2 DEF CleanupInv, Retired
    <3> QED BY <3>2, <3>3 DEF FileItem
  <2> QED BY <2>1, <2>2
<1> QED
  BY <1>1, CleanupInductive, PTL

(* The content e lies somewhere, or was listed by a job.                   *)
Kept(e) ==
  \/ \E f \in File : disk[f] = e \/ \E j \in Job : isolated[j][f] = e
  \/ \E j \in Job : \E i \in DOMAIN items[j] : i.kind = "file" /\ i.hash = e

(* No step loses it, unless it takes it from outside.                      *)
LEMMA KeptStaysInFiles ==
  ASSUME CleanupInv, [Next]_vars, NEW e \in theirs', e \in theirs, Kept(e)
  PROVE  Kept(e)'
<1>0. /\ disk \in [File -> Int] /\ isolated \in [Job -> [File -> Int]]
      /\ puts \in Nat /\ e \in 1..puts
  BY DEF CleanupInv, CleanupTypes
<1>1. CASE \E j \in Job : \E i \in DOMAIN items[j] : i.kind = "file" /\ i.hash = e
  <2>1. PICK j \in Job : \E i \in DOMAIN items[j] : i.kind = "file" /\ i.hash = e
    BY <1>1
  <2>2. job[j] # "none"
    BY <2>1 DEF CleanupInv, Fresh, Job
  <2>3. DOMAIN items'[j] = DOMAIN items[j]
    BY <2>2, MadeStays, MarkTakes
  <2> QED BY <2>1, <2>3 DEF Kept
<1>2. ASSUME NEW j \in Job, NEW f \in File, isolated[j][f] = e PROVE Kept(e)'
  <2>1. CASE isolated'[j][f] = isolated[j][f]
    BY <1>2, <2>1 DEF Kept
  <2>2. CASE Unlinked /\ j = J /\ f = Item.id
    <3>1. work.place = "linked" /\ UNCHANGED disk
      BY <2>2 DEF Unlinked, At
    <3>2. disk[f] = e
      BY <1>2, <2>2, <3>1 DEF CleanupInv, AtItsFile
    <3> QED BY <3>1, <3>2 DEF Kept
  <2>3. CASE Unlink /\ j = J /\ f = Item.id
    <3>1. work.place = "unlink" /\ UNCHANGED items
      BY <2>3 DEF Unlink, At, durable
    <3>2. Item.hash = e
      BY <1>2, <2>3, <3>1 DEF CleanupInv, AtItsFile
    <3>3. Item \in DOMAIN items[j] /\ Item.kind = "file"
      BY <2>3, <3>1, AtAFile DEF FilePlaces
    <3> QED BY <3>1, <3>2, <3>3 DEF Kept
  <2>4. CASE Rename /\ j = J /\ f = Item.id
    <3>1. isolated[j][f] = Gone
      BY <2>4 DEF Rename, At, CleanupInv, AtItsFile
    <3> QED BY <1>0, <1>2, <3>1 DEF Gone
  <2> QED BY <2>1, <2>2, <2>3, <2>4, QuarantinesFill
<1>3. ASSUME NEW f \in File, disk[f] = e PROVE Kept(e)'
  <2>1. CASE disk'[f] = e
    BY <2>1 DEF Kept
  <2>2. CASE UNCHANGED <<files, theirs>>
    BY <1>3, <2>1, <2>2 DEF files
  <2>3. CASE ItemStep
    <3>1. CASE UNCHANGED files \/ Unlinked \/ Unlink
      BY <1>3, <2>1, <3>1 DEF files, Unlinked, Unlink
    <3>2. CASE Link /\ disk[Item.id] = Gone
      <4>1. disk' = disk \/ disk' = [disk EXCEPT ![Item.id] = isolated[J][Item.id]]
        BY <3>2 DEF Link
      <4> QED BY <1>0, <1>3, <2>1, <3>2, <4>1 DEF Gone
    <3>3. CASE Rename /\ disk[Item.id] # Gone
      <4>1. /\ isolated' = [isolated EXCEPT ![J][Item.id] = disk[Item.id]]
            /\ disk' = [disk EXCEPT ![Item.id] = Gone]
        BY <3>3 DEF Rename
      <4>2. J \in Job /\ Item.id \in File
        BY <3>3, AtAFile DEF Rename, At, FilePlaces
      <4>3. isolated'[J][Item.id] = disk[Item.id]
        BY <1>0, <4>1, <4>2
      <4>4. CASE f = Item.id
        BY <1>3, <4>2, <4>3, <4>4 DEF Kept
      <4>5. CASE f # Item.id
        BY <1>0, <1>3, <2>1, <4>1, <4>5
      <4> QED BY <4>4, <4>5
    <3> QED BY <2>3, <3>1, <3>2, <3>3, ItemStepFiles
  <2>4. ASSUME NEW g, disk[g] = Gone, disk' = [disk EXCEPT ![g] = Text]
        PROVE  disk'[f] = e
    BY <1>0, <1>3, <2>4 DEF Gone
  <2>5. ASSUME NEW g \in File, theirs' \subseteq (theirs \ {disk[g]}) \cup {puts + 1},
               \/ disk' = [disk EXCEPT ![g] = puts + 1]
               \/ disk' = [disk EXCEPT ![g] = Gone]
        PROVE  disk'[f] = e
    BY <1>0, <1>3, <2>5
  <2> QED BY <2>1, <2>2, <2>3, <2>4, <2>5, FilesMove
<1> QED
  BY <1>1, <1>2, <1>3 DEF Kept

(* A file somebody else has put under a name is never lost: what a drain   *)
(* renames it keeps, what it did not expect it puts back, and what it      *)
(* unlinks was shown in the preview (cleanFile()).                         *)
THEOREM FilesOfOthersAreKept == Spec => []TheirsAreKept
<1>1. TheirsAreKept <=> \A e \in theirs : Kept(e)
  BY DEF TheirsAreKept, Kept
<1>2. Init => TheirsAreKept
  BY DEF Init, TheirsAreKept
<1>3. CleanupInv /\ TheirsAreKept /\ [Next]_vars => TheirsAreKept'
  <2> SUFFICES ASSUME CleanupInv, \A e \in theirs : Kept(e), [Next]_vars,
                      NEW e \in theirs'
               PROVE  Kept(e)'
    BY DEF TheirsAreKept, Kept
  <2>1. CASE e \in theirs
    BY <2>1, KeptStaysInFiles
  <2>2. CASE e \notin theirs
    <3>1. PICK f \in File : disk' = [disk EXCEPT ![f] = e]
      BY <2>2, FilesMove
    <3>2. disk'[f] = e
      BY <3>1 DEF CleanupInv, CleanupTypes
    <3> QED BY <3>2 DEF Kept
  <2> QED BY <2>1, <2>2
<1> QED
  BY <1>2, <1>3, CleanupInductive, PTL DEF Spec

(* A preview is decided once: the first decision closes it, and both       *)
(* confirm(), after its await, and the cancellation ask that it is open.   *)
THEOREM DecidedOnce == Spec => []ConfirmedOnce
<1>1. Init => ConfirmedOnce
  BY DEF Init, ConfirmedOnce, Decided
<1>2. CleanupInv /\ ConfirmedOnce /\ [Next]_vars => ConfirmedOnce'
  <2> SUFFICES ASSUME CleanupInv, ConfirmedOnce, [Next]_vars, NEW c \in Call, NEW d \in Call,
                      call'[c] \in Decided, call'[d] \in Decided,
                      PreviewOf[c] = PreviewOf[d], c # d
               PROVE  FALSE
    BY DEF ConfirmedOnce
  <2>1. ~ (call[c] \in Decided /\ call[d] \in Decided)
    BY DEF ConfirmedOnce
  <2>2. ASSUME NEW a \in Call, NEW b \in Call, call'[a] \in Decided, call'[b] \in Decided,
               PreviewOf[a] = PreviewOf[b], a # b, call[a] \notin Decided
        PROVE  FALSE
    <3>1. /\ Confirm(a) \/ Cancel(a)
          /\ call' = [call EXCEPT ![a] = call'[a]]
      BY <2>2, CallsDecide
    <3>2. preview[PreviewOf[a]].state = "pending"
      BY <3>1 DEF Confirm, Cancel, Still
    <3>3. call[b] \in Decided
      BY <2>2, <3>1 DEF CleanupInv, CleanupTypes
    <3> QED BY <2>2, <3>2, <3>3 DEF CleanupInv, Fresh
  <2> QED BY <2>1, <2>2
<1> QED
  BY <1>1, <1>2, CleanupInductive, PTL DEF Spec

-----------------------------------------------------------------------------
(***************************************************************************)
(* Originals are put aside, and put back, against what was accepted.       *)
(***************************************************************************)
(* A call that was found in order still is, unless its preview is decided  *)
(* or stale.                                                               *)
CheckedIsCurrent ==
  \A c \in Call : call[c] = "checked" =>
    /\ preview[PreviewOf[c]].state \in {"pending", "closed"}
    /\ (preview[PreviewOf[c]].state = "pending" /\ epoch = preview[PreviewOf[c]].epoch)
         => ~ Blocked(PreviewOf[c])

(* Everything a plan depends on moves the epoch (the triggers).            *)
LEMMA EpochGuards ==
  ASSUME CleanupInv, [Next]_vars, epoch' = epoch
  PROVE  UNCHANGED <<row, aside, known>>
<1>0. epoch \in Nat /\ epoch' # epoch + 1
  BY DEF CleanupInv, CleanupTypes
<1> USE DEF durable
<1>1. CASE ItemStep \/ Next1 \/ BatchEnds \/ Mark \/ Fault \/ Halt \/ Restart
  BY <1>0, <1>1 DEF ItemStep, Look, Rename, Verify, Link, Unlinked, Unlink, Absent,
     Discharge, CleanSql, Next1, BatchEnds, Mark, Fault, Halt, Restart
<1>2. CASE \E p \in Preview : Plan(p) \/ Planned(p)
  BY <1>2 DEF Plan, Planned
<1>3. CASE \E c \in Call : Asked(c) \/ Refused(c) \/ Cancel(c)
  BY <1>3 DEF Asked, Refused, Cancel
<1>4. CASE \E c \in Call : Confirm(c)
  BY <1>0, <1>4 DEF Confirm
<1>5. CASE \E j \in Job : Retry(j)
  BY <1>5 DEF Retry
<1>6. CASE \E m \in Mem : Change(m)
  BY <1>0, <1>6, NewVersionIsFree DEF CleanupInv
<1>7. CASE \E f \in File : Put(f) \/ TakeAway(f)
  BY <1>7 DEF Put, TakeAway
<1>8. CASE UNCHANGED vars
  BY <1>8 DEF vars
<1> QED
  BY <1>1, <1>2, <1>3, <1>4, <1>5, <1>6, <1>7, <1>8 DEF Next, Drain, ItemStep

(* A preview that is open stays as it is until it is closed.               *)
LEMMA OpenStays ==
  ASSUME CleanupInv, [Next]_vars, NEW p \in Preview, preview[p].state = "pending"
  PROVE  /\ preview'[p].state \in {"pending", "closed"}
         /\ preview'[p].epoch = preview[p].epoch
<1>0. preview \in [Preview -> Plans] /\ preview[p] \in Plans
  BY DEF CleanupInv, CleanupTypes
<1> USE DEF durable
<1>1. CASE UNCHANGED preview
  BY <1>1
<1>2. ASSUME NEW q \in Preview, Plan(q) \/ Planned(q) PROVE preview'[p] = preview[p]
  <2>1. preview[q].state \in {"none", "planned"}
    BY <1>2 DEF Plan, Planned
  <2>2. q # p
    BY <2>1
  <2> QED BY <1>0, <1>2, <2>2 DEF Plan, Planned
<1>3. ASSUME NEW c \in Call, Confirm(c) \/ Cancel(c)
      PROVE  /\ preview'[p].state \in {"pending", "closed"}
             /\ preview'[p].epoch = preview[p].epoch
  <2>0. PreviewOf[c] \in Preview
    BY CleanupAssumption
  <2>1. CASE Cancel(c)
    BY <1>0, <2>0, <2>1 DEF Cancel, Plans
  <2>2. CASE Confirm(c)
    BY <1>0, <2>2 DEF Confirm, Plans
  <2> QED BY <1>3, <2>1, <2>2
<1>4. CASE Halt
  BY <1>4 DEF Halt
<1>5. CASE ItemStep
  BY <1>1, <1>5, ItemStepFrame
<1>6. CASE Next1 \/ BatchEnds \/ Mark \/ Fault \/ Restart
  BY <1>1, <1>6 DEF Next1, BatchEnds, Mark, Fault, Restart
<1>7. CASE \E c \in Call : Asked(c) \/ Refused(c)
  BY <1>1, <1>7 DEF Asked, Refused
<1>8. CASE \E j \in Job : Retry(j)
  BY <1>1, <1>8 DEF Retry
<1>9. CASE \E m \in Mem : Change(m)
  BY <1>1, <1>9, Zenon DEF Change
<1>10. CASE \E f \in File : Put(f) \/ TakeAway(f)
  BY <1>1, <1>10 DEF Put, TakeAway
<1>11. CASE UNCHANGED vars
  BY <1>1, <1>11 DEF vars
<1> QED
  BY <1>2, <1>3, <1>4, <1>5, <1>6, <1>7, <1>8, <1>9, <1>10, <1>11
     DEF Next, Drain, ItemStep

(* Only Asked lets a call wait.                                            *)
LEMMA CallsWait ==
  ASSUME CleanupInv, [Next]_vars, NEW c \in Call, call'[c] = "checked"
  PROVE  \/ call[c] = "checked"
         \/ Asked(c)
<1>0. call \in [Call -> CallStates]
  BY DEF CleanupInv, CleanupTypes
<1> USE DEF durable, bounds
<1>1. CASE UNCHANGED call
  BY <1>1
<1>2. ASSUME NEW d \in Call, Confirm(d) \/ Cancel(d) \/ Refused(d)
      PROVE  call[c] = "checked"
  <2>1. \E s \in {"done", "cancelled", "refused"} : call' = [call EXCEPT ![d] = s]
    BY <1>2 DEF Confirm, Cancel, Refused
  <2> QED BY <1>0, <2>1
<1>3. ASSUME NEW d \in Call, Asked(d) PROVE call[c] = "checked" \/ Asked(c)
  BY <1>0, <1>3 DEF Asked
<1>4. CASE Halt
  BY <1>4 DEF Halt
<1>5. CASE ItemStep
  BY <1>1, <1>5, ItemStepFrame
<1>6. CASE Next1 \/ BatchEnds \/ Mark \/ Fault \/ Restart
  BY <1>1, <1>6 DEF Next1, BatchEnds, Mark, Fault, Restart
<1>7. CASE \E p \in Preview : Plan(p) \/ Planned(p)
  BY <1>1, <1>7 DEF Plan, Planned
<1>8. CASE \E j \in Job : Retry(j)
  BY <1>1, <1>8 DEF Retry
<1>9. CASE \E m \in Mem : Change(m)
  BY <1>1, <1>9, Zenon DEF Change
<1>10. CASE \E f \in File : Put(f) \/ TakeAway(f)
  BY <1>1, <1>10 DEF Put, TakeAway
<1>11. CASE UNCHANGED vars
  BY <1>1, <1>11 DEF vars
<1> QED
  BY <1>2, <1>3, <1>4, <1>5, <1>6, <1>7, <1>8, <1>9, <1>10, <1>11
     DEF Next, Drain, ItemStep

LEMMA CheckedKept ==
  ASSUME CleanupInv, CheckedIsCurrent, [Next]_vars PROVE CheckedIsCurrent'
<1> SUFFICES ASSUME NEW c \in Call, call'[c] = "checked", NEW p, p = PreviewOf[c]
             PROVE  /\ preview'[p].state \in {"pending", "closed"}
                    /\ (preview'[p].state = "pending" /\ epoch' = preview'[p].epoch)
                         => ~ Blocked(p)'
  BY DEF CheckedIsCurrent
<1>0. /\ p \in Preview /\ epoch \in Nat /\ preview[p].epoch \in Nat
      /\ preview[p].epoch <= epoch
  BY CleanupAssumption DEF CleanupInv, CleanupTypes, Plans, Listed
<1>1. /\ preview[p].state \in {"pending", "closed"}
      /\ (preview[p].state = "pending" /\ epoch = preview[p].epoch) => ~ Blocked(p)
  BY CallsWait DEF CheckedIsCurrent, Asked
<1>2. CASE preview[p].state = "closed"
  BY <1>0, <1>2, ClosedStays
<1>3. CASE preview[p].state = "pending"
  <2>1. /\ preview'[p].state \in {"pending", "closed"}
        /\ preview'[p].epoch = preview[p].epoch
    BY <1>0, <1>3, OpenStays
  <2>2. ASSUME epoch' = preview'[p].epoch PROVE ~ Blocked(p)'
    <3>1. epoch' = epoch /\ epoch = preview[p].epoch
      BY <1>0, <2>1, <2>2, RowsMove
    <3>2. UNCHANGED <<row, aside, known>>
      BY <3>1, EpochGuards
    <3>3. Blocked(p)' <=> Blocked(p)
      BY <3>2 DEF Blocked, Product
    <3> QED BY <1>1, <1>3, <3>1, <3>3
  <2> QED BY <2>1, <2>2
<1> QED
  BY <1>1, <1>2, <1>3

(* An original is put aside, and put back, only while the product accepted *)
(* for it is as it was shown: the checks made before the await of confirm()*)
(* still hold after it when the epoch has not moved.                       *)
THEOREM OriginalsAreBacked == Spec => []AsideIsBacked
<1>1. Init => CheckedIsCurrent /\ AsideIsBacked
  BY DEF Init, CheckedIsCurrent, AsideIsBacked
<1>2. CleanupInv /\ CheckedIsCurrent /\ AsideIsBacked /\ [Next]_vars
        => CheckedIsCurrent' /\ AsideIsBacked'
  <2> SUFFICES ASSUME CleanupInv, CheckedIsCurrent, backed, [Next]_vars PROVE backed'
    BY CheckedKept DEF AsideIsBacked
  <2> USE DEF bounds
  <2>1. CASE UNCHANGED backed
    BY <2>1
  <2>2. ASSUME NEW c \in Call, Confirm(c) PROVE backed'
    <3>1. ~ Blocked(PreviewOf[c])
      BY <2>2 DEF Confirm, Still, CheckedIsCurrent
    <3> QED BY <2>2, <3>1 DEF Confirm
  <2>3. CASE ItemStep \/ Next1 \/ BatchEnds \/ Mark \/ Fault \/ Halt \/ Restart
    BY <2>1, <2>3 DEF ItemStep, Look, Rename, Verify, Link, Unlinked, Unlink, Absent,
       Discharge, CleanSql, Next1, BatchEnds, Mark, Fault, Halt, Restart
  <2>4. CASE \E p \in Preview : Plan(p) \/ Planned(p)
    BY <2>1, <2>4 DEF Plan, Planned
  <2>5. CASE \E c \in Call : Asked(c) \/ Refused(c) \/ Cancel(c)
    BY <2>1, <2>5 DEF Asked, Refused, Cancel
  <2>6. CASE \E j \in Job : Retry(j)
    BY <2>1, <2>6 DEF Retry
  <2>7. CASE \E m \in Mem : Change(m)
    BY <2>1, <2>7, Zenon DEF Change
  <2>8. CASE \E f \in File : Put(f) \/ TakeAway(f)
    BY <2>1, <2>8 DEF Put, TakeAway
  <2>9. CASE UNCHANGED vars
    BY <2>1, <2>9 DEF vars
  <2> QED
    BY <2>2, <2>3, <2>4, <2>5, <2>6, <2>7, <2>8, <2>9 DEF Next, Drain, ItemStep
<1> QED
  BY <1>1, <1>2, CleanupInductive, PTL DEF Spec
=============================================================================
