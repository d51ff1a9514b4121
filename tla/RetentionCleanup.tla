---------------------------- MODULE RetentionCleanup ----------------------------
(***************************************************************************)
(* Clearing content for good: retention-service.ts.  A preview lists what  *)
(* would go; its confirmation retires the texts at once and leaves a job   *)
(* of single items: files, then rows.  A file is renamed to a quarantine   *)
(* of the job, looked at again and only then unlinked; whatever else lies  *)
(* under its name is not touched.  Originals of rounds are only put aside, *)
(* against an accepted product, and can be put back.                       *)
(*                                                                         *)
(* Every change of content or authority moves the epoch (triggers), which  *)
(* makes a preview stale.  Between two awaits other handlers, and changes  *)
(* of the files from outside, come; the process can die anywhere.          *)
(***************************************************************************)
EXTENDS Integers, Sequences, FiniteSets, FiniteSetsExt, SequencesExt

CONSTANTS
  Mem, Preview, Call,
  Target,        \* function: the texts a preview is about
  Intent,        \* function: "empty", "recycle" or "restore"
  PreviewOf,     \* function: the preview a call confirms
  Batch,         \* items taken at a time
  MaxVersion, MaxEpoch, MaxPuts, MaxStops, MaxFaults, MaxRetries,   \* bounds
  None

ASSUME CleanupAssumption ==
  /\ Target \in [Preview -> SUBSET Mem] /\ PreviewOf \in [Call -> Preview]
  /\ Intent \in [Preview -> {"empty", "recycle", "restore"}]
  /\ Batch \in Nat \ {0} /\ MaxVersion \in Nat
  /\ IsFiniteSet(Preview) /\ None \notin Preview

Job == Preview                      \* the job a preview leads to
File == Mem \X (1..MaxVersion)
Text == 0                           \* what the program wrote; others: 1, 2, ...
Gone == -1

VARIABLES
  preview,     \* durable: retention_previews, and plans still being made
  job, items,  \* durable: state of each job; its items: "pending", "done"
  known,       \* durable: versions of each text, by number
  row,         \* durable: each text is "kept", "retired" or "emptied"
  aside,       \* durable: the original is put aside, against which version
  epoch,       \* durable
  disk,        \* files: what lies under each name
  isolated,    \* files: the quarantine of each job
  call,        \* volatile: confirmations under way
  work,        \* volatile: the drain: its job, what is left of its batch, place
  up,
  theirs, backed, stops, puts, faults, retries     \* history and bounds

durable == <<preview, job, items, known, row, aside, epoch>>
files == <<disk, isolated>>
bounds == <<theirs, backed, stops, puts, faults, retries>>
vars == <<durable, files, call, work, up, bounds>>

Decided == {"done", "cancelled"}
Idle == [job |-> None, batch |-> <<>>, place |-> "rest"]
NoPreview == [state |-> "none", epoch |-> 0, items |-> {}]

(* Items: a file with the content expected in it, the rows of a text, or   *)
(* the empty name of rows that are cleared already.                        *)
FileItem(f, h) == [kind |-> "file", id |-> f, hash |-> h]
EmptyItem(m) == [kind |-> "empty", id |-> m, hash |-> Text]
RowItem(m) == [kind |-> "row", id |-> m, hash |-> Text]

Pending(j) == {i \in DOMAIN items[j] : items[j][i] = "pending"}
-----------------------------------------------------------------------------
(***************************************************************************)
(* plan() and preview(): many awaits, and stale if anything changed.       *)
(***************************************************************************)
(* cleanedVersion(): another job has emptied the rows and says so, after   *)
(* all of its files.                                                       *)
Cleaned(m, except) ==
  row[m] = "emptied" /\ \E j \in Job \ {except} :
    /\ RowItem(m) \in DOMAIN items[j] \ Pending(j)
    /\ \A i \in DOMAIN items[j] : i.kind = "file" => i \notin Pending(j)

Plan(p) ==
  /\ up /\ preview[p].state = "none" /\ epoch < MaxEpoch
  /\ preview' = [preview EXCEPT ![p] = [state |-> "planned", epoch |-> epoch,
                                        items |-> {}]]
  /\ UNCHANGED <<job, items, known, row, aside, epoch, files, call, work, up, bounds>>

ItemsOf(m) ==
  {FileItem(<<m, v>>, IF v \in known[m] /\ row[m] # "emptied" THEN Text
                      ELSE disk[<<m, v>>]) :
     v \in {v \in 1..MaxVersion : \/ v \in known[m] /\ row[m] # "emptied"
                                  \/ disk[<<m, v>>] # Gone}}
  \cup (IF row[m] = "emptied" /\ ~Cleaned(m, None) THEN {EmptyItem(m)} ELSE {})
  \cup {RowItem(m)}

Planned(p) ==
  /\ up /\ preview[p].state = "planned"
  /\ preview' = [preview EXCEPT ![p] =
       IF epoch # @.epoch THEN NoPreview
       ELSE [@ EXCEPT !.state = "pending",
                      !.items = IF Intent[p] = "empty"
                                THEN UNION {ItemsOf(m) : m \in Target[p]} ELSE {}]]
  /\ UNCHANGED <<job, items, known, row, aside, epoch, files, call, work, up, bounds>>
-----------------------------------------------------------------------------
(***************************************************************************)
(* confirm().                                                              *)
(***************************************************************************)
Product(p) == CHOOSE m \in Target[p] : TRUE      \* what was accepted for a round

(* inspectOriginal() and the checks of the plan.                           *)
Blocked(p) ==
  \/ Intent[p] = "recycle" /\ (row[Product(p)] # "kept" \/ aside # 0)
  \/ Intent[p] = "restore" /\ (row[Product(p)] # "kept" \/ aside = 0
                               \/ aside # Max(known[Product(p)] \cup {0}))

(* The first part, up to the await of the files of the products.           *)
Asked(c) ==
  LET p == PreviewOf[c] IN
  /\ up /\ call[c] = "none" /\ preview[p].state = "pending"
  /\ epoch = preview[p].epoch /\ ~Blocked(p)
  /\ call' = [call EXCEPT ![c] =
       IF \/ Intent[p] = "empty"
          \/ disk[<<Product(p), Max(known[Product(p)])>>] = Text
       THEN "checked" ELSE "refused"]
  /\ UNCHANGED <<durable, files, work, up, bounds>>

(* Wrong variants: the preview, the epoch, are not looked at again.        *)
StillAny(c) == epoch = preview[PreviewOf[c]].epoch

StillPending(c) == preview[PreviewOf[c]].state = "pending"

Still(c) ==
  /\ preview[PreviewOf[c]].state = "pending"
  /\ epoch = preview[PreviewOf[c]].epoch

Scheduled == IF work.job = None THEN [work EXCEPT !.place = "next"] ELSE work

Confirm(c) ==
  LET p == PreviewOf[c] IN
  /\ up /\ call[c] = "checked" /\ Still(c)
  /\ preview' = [q \in Preview |->
       IF q = p \/ preview[q].state = "pending"
       THEN [preview[q] EXCEPT !.state = "closed"] ELSE preview[q]]
  /\ epoch' = epoch + 1
  /\ call' = [call EXCEPT ![c] = "done"]
  /\ IF Intent[p] = "empty"
     THEN /\ job' = [job EXCEPT ![p] = "CLEANUP_PENDING"]
          /\ items' = [items EXCEPT ![p] = [i \in preview[p].items |-> "pending"]]
          /\ row' = [m \in Mem |-> IF m \in Target[p] /\ row[m] = "kept"
                                   THEN "retired" ELSE row[m]]
          /\ work' = Scheduled /\ UNCHANGED <<aside, backed>>
     ELSE /\ aside' = IF Intent[p] = "recycle" THEN Max(known[Product(p)]) ELSE 0
          /\ backed' = (backed /\ ~Blocked(p))
          /\ UNCHANGED <<job, items, row, work>>
  /\ UNCHANGED <<known, files, up, theirs, stops, puts, faults, retries>>

Refused(c) ==         \* stale, or the cancellation of a preview
  /\ up /\ call[c] = "checked" /\ ~Still(c)
  /\ call' = [call EXCEPT ![c] = "refused"]
  /\ UNCHANGED <<durable, files, work, up, bounds>>

Cancel(c) ==
  LET p == PreviewOf[c] IN
  /\ up /\ call[c] = "none" /\ preview[p].state = "pending"
  /\ preview' = [preview EXCEPT ![p].state = "closed"]
  /\ call' = [call EXCEPT ![c] = "cancelled"]
  /\ UNCHANGED <<job, items, known, row, aside, epoch, files, work, up, bounds>>
-----------------------------------------------------------------------------
(***************************************************************************)
(* drain(): one job after the other, its items in batches, files first.    *)
(***************************************************************************)
Order == CHOOSE s \in [1..Cardinality(Job) -> Job] : IsInjective(s)

(* Wrong variant: items are taken as they come.                            *)
BatchesAny(j) ==
  {s \in SeqOf(Pending(j), Batch) :
     Len(s) = Min({Batch, Cardinality(Pending(j))}) /\ IsInjective(s)}

Batches(j) ==
  {s \in SeqOf(Pending(j), Batch) :
     /\ Len(s) = Min({Batch, Cardinality(Pending(j))}) /\ IsInjective(s)
     /\ \A k \in DOMAIN s : s[k].kind = "row" =>
          {i \in Pending(j) : i.kind # "row"} \subseteq {s[l] : l \in 1..k}}

Next1 ==              \* the first job there is to do, or the end
  /\ up /\ work.place = "next"
  /\ LET todo == {k \in DOMAIN Order : job[Order[k]] \in {"CLEANUP_PENDING", "CLEANING"}}
     IN IF todo = {} THEN work' = Idle /\ UNCHANGED job
        ELSE LET j == Order[Min(todo)] IN
             /\ job' = [job EXCEPT ![j] = "CLEANING"]
             /\ \E s \in Batches(j) :
                  work' = [job |-> j, batch |-> s, place |-> "item"]
  /\ UNCHANGED <<preview, items, known, row, aside, epoch, files, call, up, bounds>>

J == work.job
Item == Head(work.batch)
At(p) == up /\ work.place = p
Go(p) == work' = [work EXCEPT !.place = p]

Failed ==             \* also FileError: FILE_CHANGED
  /\ job' = [job EXCEPT ![J] = "FAILED_RETRYABLE"]
  /\ work' = [Idle EXCEPT !.place = "next"]

(* Wrong variant: what is left after the batch is not asked for.           *)
BatchEndsAll ==
  /\ At("item") /\ work.batch = <<>>
  /\ job' = [job EXCEPT ![J] = "COMPLETED"]
  /\ work' = [Idle EXCEPT !.place = "next"]
  /\ UNCHANGED <<preview, items, known, row, aside, epoch, files, call, up, bounds>>

BatchEnds ==
  /\ At("item") /\ work.batch = <<>>
  /\ job' = [job EXCEPT ![J] = IF Pending(J) = {} THEN "COMPLETED" ELSE @]
  /\ work' = [Idle EXCEPT !.place = "next"]
  /\ UNCHANGED <<preview, items, known, row, aside, epoch, files, call, up, bounds>>

(* cleanFile().                                                            *)
(* Wrong variant: the quarantine of an earlier try is not looked for.      *)
LookAgain ==
  /\ At("item") /\ work.batch # <<>> /\ Item.kind = "file"
  /\ CASE disk[Item.id] = Gone -> Go("mark") /\ UNCHANGED job
       [] disk[Item.id] = Item.hash -> Go("rename") /\ UNCHANGED job
       [] OTHER -> Failed
  /\ UNCHANGED <<preview, items, known, row, aside, epoch, files, call, up, bounds>>

Look ==
  /\ At("item") /\ work.batch # <<>> /\ Item.kind = "file"
  /\ CASE isolated[J][Item.id] # Gone -> Go("verify") /\ UNCHANGED job
       [] isolated[J][Item.id] = Gone /\ disk[Item.id] = Gone ->
            Go("mark") /\ UNCHANGED job
       [] isolated[J][Item.id] = Gone /\ disk[Item.id] = Item.hash ->
            Go("rename") /\ UNCHANGED job
       [] OTHER -> Failed
  /\ UNCHANGED <<preview, items, known, row, aside, epoch, files, call, up, bounds>>

Rename ==             \* what lies there now, or nothing
  /\ At("rename")
  /\ IF disk[Item.id] = Gone THEN Failed /\ UNCHANGED files
     ELSE /\ isolated' = [isolated EXCEPT ![J][Item.id] = disk[Item.id]]
          /\ disk' = [disk EXCEPT ![Item.id] = Gone]
          /\ Go("verify") /\ UNCHANGED job
  /\ UNCHANGED <<preview, items, known, row, aside, epoch, call, up, bounds>>

(* Wrong variant: what was isolated goes.                                  *)
VerifyNot ==
  /\ At("verify") /\ Go("unlink")
  /\ UNCHANGED <<durable, files, call, up, bounds>>

Verify ==
  /\ At("verify")
  /\ Go(IF isolated[J][Item.id] = Item.hash THEN "unlink" ELSE "back")
  /\ UNCHANGED <<durable, files, call, up, bounds>>

(* Wrong variant: the file is moved back over whatever lies there.         *)
LinkOver ==
  /\ At("back")
  /\ disk' = [disk EXCEPT ![Item.id] = isolated[J][Item.id]]
  /\ Go("linked")
  /\ UNCHANGED <<durable, isolated, call, up, bounds>>

Link ==               \* refused where there is a file
  /\ At("back")
  /\ IF disk[Item.id] = Gone
     THEN /\ disk' = [disk EXCEPT ![Item.id] = isolated[J][Item.id]]
          /\ Go("linked") /\ UNCHANGED job
     ELSE Failed /\ UNCHANGED disk
  /\ UNCHANGED <<preview, items, known, row, aside, epoch, isolated, call, up, bounds>>

Unlinked ==           \* the second name of the file that was put back
  /\ At("linked")
  /\ isolated' = [isolated EXCEPT ![J][Item.id] = Gone] /\ Failed
  /\ UNCHANGED <<preview, items, known, row, aside, epoch, disk, call, up, bounds>>

Unlink ==
  /\ At("unlink")
  /\ isolated' = [isolated EXCEPT ![J][Item.id] = Gone]
  /\ Go("gone")
  /\ UNCHANGED <<durable, disk, call, up, bounds>>

Absent ==             \* nothing lies under the name now
  /\ At("gone")
  /\ IF disk[Item.id] = Gone THEN Go("mark") /\ UNCHANGED job ELSE Failed
  /\ UNCHANGED <<preview, items, known, row, aside, epoch, files, call, up, bounds>>

Discharge ==          \* completedEmptyResource()
  /\ At("item") /\ work.batch # <<>> /\ Item.kind = "empty"
  /\ IF Cleaned(Item.id, J) THEN Go("mark") /\ UNCHANGED job ELSE Failed
  /\ UNCHANGED <<preview, items, known, row, aside, epoch, files, call, up, bounds>>

CleanSql ==           \* the rows, whose update moves the epoch
  /\ At("item") /\ work.batch # <<>> /\ Item.kind = "row"
  /\ row' = [row EXCEPT ![Item.id] = "emptied"] /\ epoch' = epoch + 1
  /\ Go("mark")
  /\ UNCHANGED <<preview, job, items, known, aside, files, call, up, bounds>>

Mark ==
  /\ At("mark")
  /\ items' = [items EXCEPT ![J][Item] = "done"]
  /\ work' = [work EXCEPT !.batch = Tail(@), !.place = "item"]
  /\ UNCHANGED <<preview, job, known, row, aside, epoch, files, call, up, bounds>>

Fault ==              \* of storage or of the file system, before a step
  /\ up /\ work.job # None /\ faults < MaxFaults /\ faults' = faults + 1 /\ Failed
  /\ UNCHANGED <<preview, items, known, row, aside, epoch, files, call, up, theirs,
                 backed, stops, puts, retries>>

Retry(j) ==
  /\ up /\ job[j] = "FAILED_RETRYABLE" /\ retries < MaxRetries
  /\ retries' = retries + 1
  /\ job' = [job EXCEPT ![j] = "CLEANUP_PENDING"] /\ work' = Scheduled
  /\ UNCHANGED <<preview, items, known, row, aside, epoch, files, call, up, theirs,
                 backed, stops, puts, faults>>
-----------------------------------------------------------------------------
(***************************************************************************)
(* What others do: the memory changes a text, or leaves a file behind; a   *)
(* file is put or removed from outside.                                    *)
(***************************************************************************)
Change(m) ==
  LET v == Max({v \in 0..MaxVersion : v = 0 \/ v \in known[m] \/ disk[<<m, v>>] # Gone}) + 1
  IN /\ up /\ row[m] = "kept" /\ v <= MaxVersion /\ epoch < MaxEpoch
     /\ disk' = [disk EXCEPT ![<<m, v>>] = Text]
     /\ \E done \in BOOLEAN :
          known' = IF done THEN [known EXCEPT ![m] = @ \cup {v}] ELSE known
     /\ epoch' = epoch + 1
     /\ UNCHANGED <<preview, job, items, row, aside, isolated, call, work, up, bounds>>

Put(f) ==             \* in place of what lies there
  /\ puts < MaxPuts /\ puts' = puts + 1
  /\ disk' = [disk EXCEPT ![f] = puts + 1]
  /\ theirs' = (theirs \ {disk[f]}) \cup {puts + 1}
  /\ UNCHANGED <<durable, isolated, call, work, up, backed, stops, faults, retries>>

TakeAway(f) ==
  /\ disk[f] # Gone /\ puts < MaxPuts /\ puts' = puts + 1
  /\ disk' = [disk EXCEPT ![f] = Gone] /\ theirs' = theirs \ {disk[f]}
  /\ UNCHANGED <<durable, isolated, call, work, up, backed, stops, faults, retries>>

Halt ==
  /\ up /\ stops < MaxStops /\ stops' = stops + 1 /\ up' = FALSE
  /\ work' = Idle /\ call' = [c \in Call |-> IF call[c] = "checked" THEN "refused"
                                             ELSE call[c]]
  /\ preview' = [p \in Preview |-> IF preview[p].state = "planned" THEN NoPreview
                                   ELSE preview[p]]
  /\ UNCHANGED <<job, items, known, row, aside, epoch, files, theirs, backed, puts,
                 faults, retries>>

(* Wrong variant: a job that was at work, or failed, stays so.             *)
RestartIdle ==
  /\ ~up /\ up' = TRUE
  /\ UNCHANGED <<durable, files, call, work, bounds>>

Restart ==
  /\ ~up /\ up' = TRUE
  /\ job' = [j \in Job |-> IF job[j] \in {"CLEANING", "FAILED_RETRYABLE"}
                           THEN "CLEANUP_PENDING" ELSE job[j]]
  /\ work' = [Idle EXCEPT !.place = "next"]
  /\ UNCHANGED <<preview, items, known, row, aside, epoch, files, call, bounds>>

-----------------------------------------------------------------------------
Init ==
  /\ preview = [p \in Preview |-> NoPreview]
  /\ job = [j \in Job |-> "none"] /\ items = [j \in Job |-> << >>]
  /\ known = [m \in Mem |-> {1}] /\ row = [m \in Mem |-> "kept"] /\ aside = 0
  /\ epoch = 0 /\ disk = [f \in File |-> IF f[2] = 1 THEN Text ELSE Gone]
  /\ isolated = [j \in Job |-> [f \in File |-> Gone]]
  /\ call = [c \in Call |-> "none"]
  /\ work = [Idle EXCEPT !.place = "next"] /\ up = TRUE
  /\ theirs = {} /\ backed = TRUE /\ stops = 0 /\ puts = 0 /\ faults = 0 /\ retries = 0

Drain ==
  \/ Next1 \/ BatchEnds \/ Look \/ Rename \/ Verify \/ Link \/ Unlinked \/ Unlink
  \/ Absent \/ Discharge \/ CleanSql \/ Mark

Next ==
  \/ Drain \/ Fault \/ Halt \/ Restart
  \/ \E p \in Preview : Plan(p) \/ Planned(p)
  \/ \E c \in Call : Asked(c) \/ Confirm(c) \/ Refused(c) \/ Cancel(c)
  \/ \E j \in Job : Retry(j)
  \/ \E m \in Mem : Change(m)
  \/ \E f \in File : Put(f) \/ TakeAway(f)

Spec == Init /\ [][Next]_vars

(* The drain goes on by itself, and the program is started again.          *)
FairSpec == Spec /\ WF_vars(Drain) /\ WF_vars(Restart)
-----------------------------------------------------------------------------
(* Shapes of the variables, and a job has all its items done when it is    *)
(* completed.                                                              *)
TypeOK ==
  /\ \A p \in Preview : preview[p].state \in {"none", "planned", "pending", "closed"}
  /\ \A j \in Job :
       /\ job[j] \in {"none", "CLEANUP_PENDING", "CLEANING", "FAILED_RETRYABLE",
                      "COMPLETED"}
       /\ job[j] = "COMPLETED" => Pending(j) = {}
       /\ job[j] = "none" => DOMAIN items[j] = {}
  /\ \A m \in Mem : row[m] \in {"kept", "retired", "emptied"}
  /\ \A f \in File : disk[f] \in Gone..MaxPuts
  /\ work.job # None => job[work.job] = "CLEANING"

(* When the rows of a text are emptied, and its file names with them, the  *)
(* text lies nowhere any more, except where a job that is not over still   *)
(* has it in its list (drain(), cleanFile(), plan()).                      *)
EmptiedIsGone ==
  \A m \in Mem, v \in 1..MaxVersion : row[m] = "emptied" =>
    /\ disk[<<m, v>>] # Text
    /\ \A j \in Job : isolated[j][<<m, v>>] = Text =>
         job[j] # "COMPLETED" /\ \E i \in Pending(j) : i.id = <<m, v>>

(* A completed job says that every managed copy in its list is dealt with  *)
(* (RetentionPanel.tsx; drain() says so when its items are done, but a     *)
(* file that another job holds in its quarantine counts as gone).          *)
CompletedIsGone ==
  \A j \in Job : job[j] = "COMPLETED" =>
    \A i \in DOMAIN items[j] : i.kind = "file" /\ i.hash = Text =>
      disk[i.id] # Text /\ \A o \in Job : isolated[o][i.id] # Text

(* A file somebody else has put under a name is never lost: it lies there, *)
(* or in a quarantine; unless it was shown in the preview (cleanFile()).   *)
TheirsAreKept ==
  \A e \in theirs :
    \/ \E f \in File : disk[f] = e \/ \E j \in Job : isolated[j][f] = e
    \/ \E j \in Job : \E i \in DOMAIN items[j] : i.kind = "file" /\ i.hash = e

(* An original is put aside, and put back, only while the product accepted *)
(* for it is as it was shown (confirm(), after the await).                 *)
AsideIsBacked == backed

(* A preview is decided once, however often and in whatever order it is    *)
(* confirmed and cancelled: what was cancelled is never done (confirm()).  *)
ConfirmedOnce ==
  \A c, d \in Call :
    call[c] \in Decided /\ call[d] \in Decided /\ PreviewOf[c] = PreviewOf[d] => c = d

(* A job that was to be done is done or failed in the end, also after the  *)
(* process died in the middle or the user asked again (drain(), retry()).  *)
JobIsDecided ==
  \A j \in Job : job[j] \in {"CLEANUP_PENDING", "CLEANING"}
                 ~> job[j] \in {"COMPLETED", "FAILED_RETRYABLE"}
==============================================================================
