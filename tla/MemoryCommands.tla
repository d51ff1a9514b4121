----------------------------- MODULE MemoryCommands -----------------------------
(***************************************************************************)
(* Changes of the memory: memory-service.ts.  A command is recorded, its   *)
(* file is written and renamed, and one transaction makes the new version, *)
(* with what it depends on, what it suppresses, the index and the receipt. *)
(* A removal is shown first and confirmed later.                           *)
(*                                                                         *)
(* No handler waits for anything, so commands do not interleave; but the   *)
(* process can die, and storage can fail, between any two commits:         *)
(* "place" says how far the running command has come.                      *)
(***************************************************************************)
EXTENDS Integers, FiniteSets, FiniteSetsExt

CONSTANTS
  Mem, Cmd, Round,
  Kind,        \* function: "user", "tool" or "origin" (observations, jobs)
  RoundOf,     \* function: the round of a tool command
  Actions,     \* the changes commands may ask for
  MaxVersion, MaxEdits, MaxStops, MaxFaults, MaxGrants, MaxFull,  \* bounds
  None

MemoryAssumption ==
  /\ Kind \in [Cmd -> {"user", "tool", "origin"}]
  /\ RoundOf \in [Cmd -> Round]
  /\ Actions \subseteq {"remember", "correct", "delete", "withdraw", "restore"}
  /\ MaxVersion \in Nat /\ None \notin Cmd \cup Mem

Removals == {"delete", "withdraw"}
Node == Mem \X (1..MaxVersion)
Source ==             \* the user's command, a user's question, a round, a version
  Cmd \cup (Round \X {0}) \cup Round \cup Node

VARIABLES
  cmds,        \* durable: memory_commands
  previews,    \* durable: removal previews, by command
  obj,         \* durable: memory_objects
  deps,        \* durable: memory_dependencies of versions
  used,        \* durable: memory_dependencies of rounds
  withdrawn,   \* durable: suppressions of kind withdrawal
  index,       \* durable: memory_index
  accepted,    \* durable: text of the current version of an object
  disk,        \* files: what the file of the current version says
  temps,       \* files: temporary files left behind
  reload,      \* durable: previews of edited files
  grant,       \* durable: version and write permission
  full,        \* the persistent zone has reached its capacity
  run, place,  \* volatile: the command at work
  round,       \* each round: not begun, at work, or over, also when aborted
  up,
  effects, refused, edits, stops, faults, fills    \* history and bounds

durable == <<cmds, previews, obj, deps, used, withdrawn, index, accepted, reload>>
files == <<disk, temps>>
bounds == <<effects, refused, edits, stops, faults, fills>>
vars == <<durable, files, grant, full, run, place, round, up, bounds>>

NoMutation == [action |-> "none", m |-> None, version |-> 0, sources |-> {}]
NoCmd == [state |-> "none", mut |-> NoMutation]
NoRun == [c |-> None, m |-> None, confirmed |-> FALSE]
NoPreview == [state |-> "none", impact |-> {}, rounds |-> {}, grant |-> 0]
NoObj == [version |-> 0, state |-> "none", sources |-> {}]

Free == up /\ place = "rest"
-----------------------------------------------------------------------------
(***************************************************************************)
(* What depends on what.                                                   *)
(***************************************************************************)
Edges(n) == IF n \in Node THEN deps[n] ELSE IF n \in Round THEN used[n] ELSE {}

Deep == Cardinality(Mem) * MaxVersion + Cardinality(Round)

Closure(S) ==
  LET reach[k \in 0..Deep] ==
        IF k = 0 THEN S
        ELSE LET near == reach[k - 1] IN near \cup UNION {Edges(n) : n \in near}
  IN reach[Deep]

Tainted(S) == Closure(S) \cap withdrawn # {}

Current(m) == <<m, obj[m].version>>

Visible(m) == obj[m].state = "active" /\ ~Tainted(obj[m].sources)

(* Wrong variant: only the source itself is looked at.                     *)
UsableAlone(n) ==
  n \notin withdrawn /\ (n \in Node => n = Current(n[1]) /\ obj[n[1]].state = "active")

(* assertSource(): every source on every path is current, active and not   *)
(* withdrawn; an older version is passed over where the path has come      *)
(* through the current one.  A visit is a source and the current versions  *)
(* the path has come through.                                              *)
Visits(n) ==
  LET reach[k \in 0..Deep] ==
        IF k = 0 THEN {<<n, {}>>}
        ELSE LET near == reach[k - 1] IN
             near \cup UNION {{<<s, v[2] \cup ({v[1]} \cap Node)>> : s \in Edges(v[1])} :
                               v \in near}
  IN reach[Deep]

Usable(n) ==
  \A v \in Visits(n) :
    LET s == v[1] IN
    /\ s \notin withdrawn
    /\ s \in Node =>
         \/ s = Current(s[1]) /\ obj[s[1]].state = "active"
         \/ s[2] < obj[s[1]].version /\ Current(s[1]) \in v[2]

(* removalImpact(): what a removal would touch.                            *)
Removed(m, action) ==
  IF action = "withdraw" THEN Closure(obj[m].sources) ELSE {Current(m)}

Impact(m, action) ==
  {<<k, obj[k].version>> : k \in
     {k \in Mem : /\ obj[k].version > 0
                  /\ \/ k = m
                     \/ Closure(obj[k].sources) \cap Removed(m, action) # {}}}

ImpactRounds(m, action) ==
  {q \in Round : Closure(used[q]) \cap Removed(m, action) # {}}
-----------------------------------------------------------------------------
(***************************************************************************)
(* apply().                                                                *)
(***************************************************************************)
(* checkMutation(), whoever asks, and what it checks of a model's command; *)
(* the question of the round at work is no source to be checked.           *)
Sound(mut) ==
  /\ mut.m # None => obj[mut.m].version = mut.version
  /\ mut.action = "correct" => Visible(mut.m)

Own(c) == <<RoundOf[c], 0>>

Allowed(c, mut) ==
  /\ Sound(mut)
  /\ Kind[c] # "user" =>
       /\ grant.write
       /\ mut.m # None => Usable(Current(mut.m))
       /\ \A s \in mut.sources \ {Own(c)} : Usable(s)
  /\ Kind[c] = "tool" => round[RoundOf[c]] = "on"

Grounds(c) ==         \* what a command may rest on
  IF Kind[c] = "user" THEN {{c}}
  ELSE LET own == IF Kind[c] = "tool" THEN {Own(c)} ELSE {} IN
       {own \cup {s} : s \in {Current(m) : m \in {m \in Mem : obj[m].version > 0}}
                          \cup {q \in Round : round[q] = "over"}}
       \cup (IF own = {} THEN {} ELSE {own})

Mutations(c) ==       \* what can be asked for
  {mut \in [action : Actions, m : Mem \cup {None}, version : 0..MaxVersion - 1,
            sources : Grounds(c)] :
     /\ mut.action = "remember" <=> mut.m = None
     /\ Kind[c] = "origin" => mut.action \in {"remember", "correct"}
     /\ mut.version = IF mut.m = None THEN 0 ELSE obj[mut.m].version
     /\ mut.m # None => mut.version > 0}

Begin(c, mut, confirmed) ==
  \E m \in IF mut.m # None THEN {mut.m} ELSE {m \in Mem : obj[m].version = 0} :
    run' = [c |-> c, m |-> m, confirmed |-> confirmed] /\ place' = "prepared"

Issue(c) ==
  /\ Free /\ cmds[c].state = "none"
  /\ \E mut \in Mutations(c) :
       /\ Allowed(c, mut) /\ Begin(c, mut, FALSE)
       /\ cmds' = [cmds EXCEPT ![c] = [state |-> "PREPARED", mut |-> mut]]
  /\ UNCHANGED <<previews, obj, deps, used, withdrawn, index, accepted, reload,
                 files, grant, full, round, up, bounds>>

(* Wrong variant: whatever was asked by a service is done again.           *)
RepeatableAny(c) ==
  Kind[c] = "origin" /\ cmds[c].state \in {"NOT_APPLIED", "SUCCEEDED"}

(* The same command once more: a receipt is given again, and only what a   *)
(* service asked for and was not applied is tried again; the user's        *)
(* command is refused as a conflict.                                       *)
Repeatable(c) == Kind[c] = "origin" /\ cmds[c].state = "NOT_APPLIED"

Repeat(c) ==
  /\ Free /\ Repeatable(c) /\ Allowed(c, cmds[c].mut)
  /\ Begin(c, cmds[c].mut, FALSE)
  /\ UNCHANGED <<durable, files, grant, full, round, up, bounds>>

Mut == cmds[run.c].mut

Preview ==            \* a removal is only shown
  /\ up /\ place = "prepared" /\ Mut.action \in Removals /\ ~run.confirmed
  /\ previews' = [previews EXCEPT ![run.c] =
       [state |-> "pending", impact |-> Impact(run.m, Mut.action),
        rounds |-> ImpactRounds(run.m, Mut.action), grant |-> grant.version]]
  /\ used' = IF Kind[run.c] = "tool"
             THEN [used EXCEPT ![RoundOf[run.c]] = @ \cup {Current(run.m)}] ELSE used
  /\ cmds' = [cmds EXCEPT ![run.c].state = "PENDING_CONFIRMATION"]
  /\ run' = NoRun /\ place' = "rest"
  /\ UNCHANGED <<obj, deps, withdrawn, index, accepted, reload, files, grant,
                 full, round, up, bounds>>

Name == <<run.m, obj[run.m].version + 1, run.c>>

(* A new text has a new name each time; that of a new version stays.       *)
Left == Name \in temps /\ Mut.m # None

Write ==              \* the temporary file, refused where one is left
  /\ up /\ place = "prepared" /\ Mut.action \notin Removals
  /\ ~Left
  /\ temps' = temps \cup {Name} /\ place' = "temp"
  /\ UNCHANGED <<durable, disk, grant, full, run, round, up, bounds>>

(* Wrong variant: the text is taken up before it is committed.             *)
RenameTaken ==
  /\ up /\ place = "temp"
  /\ temps' = temps \ {Name} /\ place' = "filed"
  /\ accepted' = [accepted EXCEPT ![run.m] = <<run.c, 0>>]
  /\ UNCHANGED <<cmds, previews, obj, deps, used, withdrawn, index, reload, disk,
                 grant, full, run, round, up, bounds>>

Rename ==
  /\ up /\ place = "temp"
  /\ temps' = temps \ {Name} /\ place' = "filed"
  /\ UNCHANGED <<durable, disk, grant, full, run, round, up, bounds>>

NoFile ==             \* a removal keeps the file it has
  /\ up /\ place = "prepared" /\ Mut.action \in Removals /\ run.confirmed
  /\ place' = "filed"
  /\ UNCHANGED <<durable, files, grant, full, run, round, up, bounds>>

(* Wrong variant: a change forgets what the text rested on before.         *)
SourcesNew == {s \in Mut.sources : s \in Node => s[1] # run.m}

Sources ==            \* a text does not rest on itself
  {s \in obj[run.m].sources \cup
         (IF Mut.action \in {"remember", "correct"} THEN Mut.sources ELSE {}) :
     s \in Node => s[1] # run.m}

(* The retention guard: an addition needs room.                            *)
Refusal ==
  \/ Mut.action = "restore" /\ Sources \cap withdrawn # {}
  \/ full /\ Mut.action \notin Removals

(* Wrong variant: what depends on the withdrawn text stays in the index.   *)
IndexKept(after) ==
  IF Mut.action \in Removals THEN index \ {run.m} ELSE index \cup {run.m}

Indexed(after) ==     \* after: what is withdrawn from now on
  {k \in index \ {run.m} :
     Mut.action = "withdraw" => Closure(obj[k].sources) \cap after = {}}
  \cup (IF Mut.action \in Removals THEN {} ELSE {run.m})

(* Wrong variant: only the text itself is withdrawn.                       *)
WithdrawnSelf ==
  IF Mut.action = "withdraw" THEN withdrawn \cup {Current(run.m)} ELSE withdrawn

Withdrawn ==
  IF Mut.action = "withdraw" THEN withdrawn \cup Closure(Sources) ELSE withdrawn

(* Wrong variant: the receipt is left to a later commit.                   *)
ReceiptLater == cmds

Receipt == [cmds EXCEPT ![run.c].state = "SUCCEEDED"]

Commit ==
  /\ up /\ place = "filed" /\ ~Refusal
  /\ LET v == obj[run.m].version + 1
         active == Mut.action \notin Removals IN
     /\ obj' = [obj EXCEPT ![run.m] =
          [version |-> v, state |-> IF active THEN "active" ELSE "suppressed",
           sources |-> Sources]]
     /\ deps' = [deps EXCEPT ![<<run.m, v>>] = Sources]
     /\ used' = IF Kind[run.c] = "tool" /\ active
                THEN [used EXCEPT ![RoundOf[run.c]] = @ \cup {<<run.m, v>>}]
                ELSE used
     /\ accepted' = [accepted EXCEPT ![run.m] =
          IF Mut.action \in {"remember", "correct"} THEN <<run.c, 0>> ELSE @]
     /\ disk' = [disk EXCEPT ![run.m] = accepted'[run.m]]
  /\ withdrawn' = Withdrawn /\ index' = Indexed(Withdrawn)
  /\ cmds' = Receipt
  /\ effects' = [effects EXCEPT ![run.c] = @ + 1]
  /\ place' = "applied"
  /\ UNCHANGED <<previews, reload, temps, grant, full, run, round, up, refused, edits,
                 stops, faults, fills>>

Aborted(Q) == [q \in Round |-> IF q \in Q /\ round[q] = "on" THEN "over" ELSE round[q]]

Finish ==             \* the other rounds are aborted, and the preview is closed
  /\ up /\ place = "applied"
  /\ previews' = IF run.confirmed THEN [previews EXCEPT ![run.c].state = "closed"]
                 ELSE previews
  /\ round' = IF \/ Kind[run.c] = "origin" /\ Mut.action = "remember"
                 \/ cmds[run.c].state = "CANCELLED"
              THEN round
              ELSE Aborted(IF Kind[run.c] = "tool" /\ ~run.confirmed
                           THEN Round \ {RoundOf[run.c]} ELSE Round)
  /\ run' = NoRun /\ place' = "rest"
  /\ UNCHANGED <<cmds, obj, deps, used, withdrawn, index, accepted, reload,
                 files, grant, full, up, bounds>>

(* A refusal, a file that is there already, or a failure of storage: what  *)
(* a service asked for is marked as not applied.                           *)
Fails ==
  /\ up /\ place \in {"prepared", "temp", "filed"}
  /\ \/ /\ place = "filed" /\ Refusal
        /\ refused' = IF full THEN refused \cup {run.c} ELSE refused
        /\ UNCHANGED faults
     \/ /\ place = "prepared" /\ Mut.action \notin Removals /\ Left
        /\ UNCHANGED <<faults, refused>>
     \/ faults < MaxFaults /\ faults' = faults + 1 /\ UNCHANGED refused
  /\ cmds' = IF Kind[run.c] = "origin" /\ cmds[run.c].state = "PREPARED"
             THEN [cmds EXCEPT ![run.c].state = "NOT_APPLIED"] ELSE cmds
  /\ run' = NoRun /\ place' = "rest"
  /\ UNCHANGED <<previews, obj, deps, used, withdrawn, index, accepted, reload,
                 files, grant, full, round, up, effects, edits, stops, fills>>
-----------------------------------------------------------------------------
(***************************************************************************)
(* confirm(), previewReload(), acceptReload(), setPermissions().           *)
(***************************************************************************)
(* Wrong variant: only the text itself is compared.                        *)
AsShownSelf(c) == obj[cmds[c].mut.m].version = cmds[c].mut.version

AsShown(c) ==
  LET mut == cmds[c].mut IN
  /\ grant.version = previews[c].grant
  /\ obj[mut.m].version = mut.version
  /\ Impact(mut.m, mut.action) = previews[c].impact
  /\ ImpactRounds(mut.m, mut.action) = previews[c].rounds
  /\ Kind[c] # "user" => grant.write     \* only for the preview of a model

Confirm(c) ==         \* a declined command stays declined
  /\ Free /\ previews[c].state = "pending" /\ AsShown(c)
  /\ cmds[c].state = "PENDING_CONFIRMATION" /\ Sound(cmds[c].mut)
  /\ Begin(c, cmds[c].mut, TRUE)
  /\ UNCHANGED <<durable, files, grant, full, round, up, bounds>>

(* Wrong variant: the preview is closed first.                             *)
DeclineClosed(c) ==
  /\ Free /\ previews[c].state = "pending" /\ AsShown(c)
  /\ previews' = [previews EXCEPT ![c].state = "closed"]
  /\ run' = [c |-> c, m |-> cmds[c].mut.m, confirmed |-> TRUE] /\ place' = "applied"
  /\ UNCHANGED <<cmds, obj, deps, used, withdrawn, index, accepted, reload, files,
                 grant, full, round, up, bounds>>

Decline(c) ==         \* also what a crash has left declined
  /\ Free /\ previews[c].state = "pending" /\ AsShown(c)
  /\ cmds' = [cmds EXCEPT ![c].state = "CANCELLED"]
  /\ run' = [c |-> c, m |-> cmds[c].mut.m, confirmed |-> TRUE] /\ place' = "applied"
  /\ UNCHANGED <<previews, obj, deps, used, withdrawn, index, accepted, reload,
                 files, grant, full, round, up, bounds>>

Edit(m) ==            \* the file is changed from outside
  /\ Free /\ obj[m].version > 0 /\ edits < MaxEdits /\ edits' = edits + 1
  /\ disk' = [disk EXCEPT ![m] = <<None, edits + 1>>]
  /\ UNCHANGED <<durable, temps, grant, full, run, place, round, up, effects, refused,
                 stops, faults, fills>>

ShowFile(m) ==        \* previewReload()
  /\ Free /\ obj[m].state = "active"
  /\ reload' = [reload EXCEPT ![m] = [version |-> obj[m].version, text |-> disk[m]]]
  /\ UNCHANGED <<cmds, previews, obj, deps, used, withdrawn, index, accepted,
                 files, grant, full, run, place, round, up, bounds>>

(* Wrong variant: the file may have changed again.                         *)
SameVersion(m) == obj[m].version = reload[m].version

SameFile(m) ==
  obj[m].version = reload[m].version /\ disk[m] = reload[m].text

(* acceptReload(): the edited text becomes a new version of the user's; in *)
(* the model its command runs in one step.                                 *)
AcceptFile(m) ==
  /\ Free /\ reload[m].version > 0 /\ SameFile(m) /\ Visible(m)
  /\ obj[m].version < MaxVersion /\ ~full
  /\ LET v == obj[m].version + 1 IN
     /\ obj' = [obj EXCEPT ![m].version = v]
     /\ deps' = [deps EXCEPT ![<<m, v>>] = obj[m].sources]
  /\ accepted' = [accepted EXCEPT ![m] = disk[m]]
  /\ index' = index \cup {m}
  /\ reload' = [reload EXCEPT ![m] = [version |-> 0, text |-> None]]
  /\ round' = Aborted(Round)
  /\ UNCHANGED <<cmds, previews, used, withdrawn, files, grant, full, run, place,
                 up, bounds>>

SetPermissions(write) ==
  /\ Free /\ grant.version < MaxGrants
  /\ grant' = [version |-> grant.version + 1, write |-> write] /\ round' = Aborted(Round)
  /\ UNCHANGED <<durable, files, full, run, place, up, bounds>>

Search(q, m) ==       \* a round is given what it may use
  /\ Free /\ round[q] = "on" /\ obj[m].version > 0 /\ Usable(Current(m))
  /\ used' = [used EXCEPT ![q] = @ \cup {Current(m)}]
  /\ UNCHANGED <<cmds, previews, obj, deps, withdrawn, index, accepted, reload,
                 files, grant, full, run, place, round, up, bounds>>

RoundBegins(q) ==
  /\ Free /\ round[q] = "new" /\ round' = [round EXCEPT ![q] = "on"]
  /\ UNCHANGED <<durable, files, grant, full, run, place, up, bounds>>

RoundEnds(q) ==
  /\ Free /\ round[q] = "on" /\ round' = [round EXCEPT ![q] = "over"]
  /\ UNCHANGED <<durable, files, grant, full, run, place, up, bounds>>

Fill ==
  /\ Free /\ ~full /\ fills < MaxFull /\ fills' = fills + 1 /\ full' = TRUE
  /\ UNCHANGED <<durable, files, grant, run, place, round, up, effects, refused, edits,
                 stops, faults>>

MakeRoom ==
  /\ Free /\ full /\ full' = FALSE
  /\ UNCHANGED <<durable, files, grant, run, place, round, up, bounds>>
-----------------------------------------------------------------------------
Halt ==
  /\ up /\ stops < MaxStops /\ stops' = stops + 1
  /\ up' = FALSE /\ run' = NoRun /\ place' = "rest" /\ round' = Aborted(Round)
  /\ UNCHANGED <<durable, files, grant, full, effects, refused, edits, faults,
                 fills>>

(* Wrong variant: what was prepared stays prepared.                        *)
RestartAsIs ==
  ~up /\ up' = TRUE
  /\ UNCHANGED <<durable, files, grant, full, run, place, round, bounds>>

Restart ==            \* what was prepared is not applied
  /\ ~up /\ up' = TRUE
  /\ cmds' = [c \in Cmd |-> IF cmds[c].state = "PREPARED"
                            THEN [cmds[c] EXCEPT !.state = "NOT_APPLIED"]
                            ELSE cmds[c]]
  /\ UNCHANGED <<previews, obj, deps, used, withdrawn, index, accepted, reload,
                 files, grant, full, run, place, round, bounds>>

Rebuilt ==            \* rebuildIndex()
  {m \in Mem : obj[m].state = "active" /\ ~Tainted(obj[m].sources)}

Rebuild ==
  /\ Free /\ index' = Rebuilt
  /\ UNCHANGED <<cmds, previews, obj, deps, used, withdrawn, accepted, reload,
                 files, grant, full, run, place, round, up, bounds>>
-----------------------------------------------------------------------------
Init ==
  /\ cmds = [c \in Cmd |-> NoCmd] /\ previews = [c \in Cmd |-> NoPreview]
  /\ obj = [m \in Mem |-> NoObj] /\ deps = [n \in Node |-> {}]
  /\ used = [q \in Round |-> {}] /\ withdrawn = {} /\ index = {}
  /\ accepted = [m \in Mem |-> None] /\ disk = [m \in Mem |-> None] /\ temps = {}
  /\ reload = [m \in Mem |-> [version |-> 0, text |-> None]]
  /\ grant = [version |-> 0, write |-> TRUE] /\ full = FALSE
  /\ run = NoRun /\ place = "rest" /\ round = [q \in Round |-> "new"]
  /\ up = TRUE
  /\ effects = [c \in Cmd |-> 0] /\ refused = {}
  /\ edits = 0 /\ stops = 0 /\ faults = 0 /\ fills = 0

Work == Preview \/ Write \/ Rename \/ NoFile \/ Commit \/ Finish \/ Fails

Ask ==
  \/ \E c \in Cmd : Issue(c) \/ Repeat(c) \/ Confirm(c) \/ Decline(c)
  \/ \E m \in Mem : Edit(m) \/ ShowFile(m) \/ AcceptFile(m)
  \/ \E q \in Round : RoundBegins(q) \/ RoundEnds(q) \/ \E m \in Mem : Search(q, m)
  \/ \E write \in BOOLEAN : SetPermissions(write)

Next == Work \/ Ask \/ Fill \/ MakeRoom \/ Rebuild \/ Halt \/ Restart

Spec == Init /\ [][Next]_vars

(* A handler runs to its end and the user starts the program again.  Nobody *)
(* is obliged to ask again or to make room.                                *)
FairSpec == Spec /\ WF_vars(Work) /\ WF_vars(Restart)
-----------------------------------------------------------------------------
(* Shapes of the variables; a command waits for the user only with a       *)
(* preview to be confirmed.                                                *)
TypeOK ==
  /\ \A c \in Cmd :
       /\ cmds[c].state \in {"none", "PREPARED", "PENDING_CONFIRMATION",
                             "SUCCEEDED", "CANCELLED", "NOT_APPLIED"}
       /\ previews[c].state \in {"none", "pending", "closed"}
  /\ \A m \in Mem : obj[m].version \in 0..MaxVersion
  /\ withdrawn \subseteq Source /\ index \subseteq Mem
  /\ place \in {"rest", "prepared", "temp", "filed", "applied"}
  /\ \A c \in Cmd : cmds[c].state = "PENDING_CONFIRMATION" => previews[c].state = "pending"

(* A command takes effect once, exactly when its receipt says so, however  *)
(* often it is repeated or confirmed and wherever the process died         *)
(* (apply(), confirm(), the constructor).                                  *)
EffectIsReceipt ==
  \A c \in Cmd : effects[c] = IF cmds[c].state = "SUCCEEDED" THEN 1 ELSE 0

(* What was withdrawn is never seen again, whatever is restored, corrected *)
(* or repeated (apply(), visible()).                                       *)
WithdrawnStays ==
  \A c \in Cmd :
    cmds[c].state = "SUCCEEDED" /\ cmds[c].mut.action = "withdraw" =>
      ~Visible(cmds[c].mut.m)

(* What rests on something withdrawn stays unseen, too, however its        *)
(* sources and those of the rounds it rests on grow (apply(), closure()).  *)
TaintedStaysStep ==
  \A m \in Mem : obj[m].version > 0 /\ Tainted(obj[m].sources) => ~Visible(m)'

TaintedStays == [][TaintedStaysStep]_vars

(* A confirmed removal hides nothing that was not shown (confirm()).       *)
RemovalAsShownStep ==
  \A c \in Cmd :
    cmds[c].state = "PENDING_CONFIRMATION" /\ cmds'[c].state = "SUCCEEDED" =>
      {m \in Mem : Visible(m) /\ ~Visible(m)'}
        \subseteq {k[1] : k \in previews[c].impact}

RemovalAsShown == [][RemovalAsShownStep]_vars

(* A round is given, and leaves behind, only what is current and rests on *)
(* nothing withdrawn (assertSource(), search(), apply()).                  *)
UsedWasWholeStep ==
  \A q \in Round : \A n \in used'[q] \ used[q] :
    n = Current(n[1])' /\ Visible(n[1])'

UsedWasWhole == [][UsedWasWholeStep]_vars

(* The text of a version is what a command accepted, or an edit that was   *)
(* shown: no file left by a command that failed is taken up (apply(),      *)
(* acceptReload()).                                                        *)
TextIsAccepted ==
  /\ \A m \in Mem : obj[m].version > 0 =>
       \/ accepted[m][1] = None
       \/ accepted[m][1] \in Cmd /\ cmds[accepted[m][1]].state = "SUCCEEDED"

(* Reloading a text the user changed in its file accepts the text that was *)
(* shown to the user, or none (previewReload(), acceptReload()).           *)
ReloadAsShownStep ==
  \A m \in Mem : accepted'[m] # accepted[m] /\ accepted'[m][1] = None =>
    accepted'[m] = reload[m].text

ReloadAsShown == [][ReloadAsShownStep]_vars

(* The index is what rebuilding it would give (apply(), rebuildIndex()).   *)
(* It does not hold once a text that rests on a withdrawn one is restored. *)
IndexIsRebuilt == index = Rebuilt

(* What a service asked for does not stay PREPARED, at whichever commit it *)
(* was broken off: it is applied, or marked so that it can be asked again, *)
(* since the same command is refused until then (observationMutation(),    *)
(* the constructor).                                                       *)
BrokenOffIsMarked ==
  \A c \in Cmd :
    (Kind[c] = "origin" /\ cmds[c].state = "PREPARED")
      ~> (cmds[c].state \in {"SUCCEEDED", "NOT_APPLIED"})

(* Once it is asked again, whatever the earlier attempts left behind, it   *)
(* is applied if this attempt meets no failure, no exit and no full disk;  *)
(* but the temporary file of a new version refuses it (apply()).           *)
AskedAgainIsApplied ==
  \A c \in Cmd, s \in 0..MaxStops, f \in 0..MaxFaults :
    (Kind[c] = "origin" /\ run.c = c /\ stops = s /\ faults = f)
      ~> \/ cmds[c].state = "SUCCEEDED"
         \/ stops # s \/ faults # f \/ full
         \/ cmds[c].mut.m # None /\ \E t \in temps : t[3] = c

(* What a service asked for is applied or marked, and can be asked again.  *)
OriginIsDecided == BrokenOffIsMarked /\ AskedAgainIsApplied

(* What the user asked for and was refused for want of room can be asked   *)
(* again.  It does not hold: the panel asks with the same command, which   *)
(* conflicts with itself.                                                  *)
RefusedCanBeRepeated ==
  \A c \in refused : Free => cmds[c].state = "SUCCEEDED" \/ Repeatable(c)
==============================================================================
