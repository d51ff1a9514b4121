---------------------------- MODULE AppLifecycle ----------------------------
(***************************************************************************)
(* One run of the installed program: index.ts with the shell of            *)
(* reminder-runtime.ts, create-window.ts and the menu.  The start is cut   *)
(* where it awaits; what runs between two awaits is one step, and so is    *)
(* the handler of before-quit, which app.quit calls at once.  What opening *)
(* and maintaining a data set do is ProductionSession's subject: here they *)
(* end well or badly.                                                      *)
(***************************************************************************)
VARIABLES
  place,    \* where start or the handling of its failure awaits
  services, \* open services, each a writer of the database
  ipc,      \* handlers of the window's calls are registered
  runtime,  \* the reminder runtime and its tray are there
  window,   \* none, loading, open or hidden
  session,  \* the variable productionSession is set
  lease,    \* the data set: free, held, or being released
  lost,     \* productionOwnershipLost
  guard,    \* startupCleanupInProgress
  quitting, \* the runtime lets the window close
  release,  \* what the last before-quit awaits: none, the plan, the release
  plan,     \* plannedMaintenance is set
  planning, \* the menu: none, asking for a maintenance, begun
  restart,  \* the maintenance asks for a new start
  cleanup,  \* the outcome of the cleanup of a failed start
  life      \* up, or how the program ended

vars == <<place, services, ipc, runtime, window, session, lease, lost, guard,
          quitting, release, plan, planning, restart, cleanup, life>>

Services == {"assistant", "provider"}
Releasing == release # "none"
At(p) == life = "up" /\ place = p
Running == life = "up" /\ place # "failed"
Closing == <<services, ipc, runtime, quitting, session, lease, release, plan, life>>

(***************************************************************************)
(* app.quit: before-quit, then the windows close and the program ends      *)
(***************************************************************************)
CloseFailsStopped ==
  /\ "provider" \in services
  /\ quitting' = FALSE /\ runtime' = FALSE
  /\ life' = (IF lost THEN "exit" ELSE life)
  /\ UNCHANGED <<services, ipc, session, lease, release>>

CloseFailsQuitting ==
  /\ "provider" \in services
  /\ quitting' = runtime
  /\ life' = (IF lost THEN "exit" ELSE life)
  /\ UNCHANGED <<services, ipc, runtime, session, lease, release>>

(* The provider's close fails while it stores an interrupted answer; the   *)
(* services are as they were, and the next quit tries again.               *)
CloseFails ==
  /\ "provider" \in services
  /\ quitting' = FALSE
  /\ life' = (IF lost THEN "exit" ELSE life)
  /\ UNCHANGED <<services, ipc, runtime, session, lease, release>>

(* The runtime's stop throws: nothing prevents the end.                    *)
StopFails ==
  /\ runtime /\ quitting' = TRUE /\ runtime' = FALSE
  /\ life' = "quit" /\ UNCHANGED <<ipc, services, session, lease, release>>

ClosedKept == UNCHANGED services

Closed == services' = {}

AllClosed(planned) ==
  /\ quitting' = runtime /\ runtime' = FALSE /\ ipc' = FALSE /\ Closed
  /\ IF session
     THEN /\ session' = FALSE
          /\ release' = (IF planned THEN "plan" ELSE "release")
          /\ lease' = (IF planned THEN lease ELSE "going")
          /\ UNCHANGED life
     ELSE life' = "quit" /\ UNCHANGED <<session, lease, release>>

Unquit == UNCHANGED Closing

QuitWith(planned) ==
  \/ Releasing /\ Unquit
  \/ ~Releasing /\ (CloseFails \/ StopFails) /\ plan' = planned
  \/ ~Releasing /\ AllClosed(planned) /\ plan' = (planned /\ ~session)

Quit == QuitWith(plan)

(* window-all-closed                                                       *)
QuitsUnguarded == ~runtime

Quits == ~runtime /\ ~guard

AllWindowsClosed == IF Quits THEN Quit ELSE Unquit

(***************************************************************************)
(* The start.  At "failed" it has thrown, and the cleanup is what runs     *)
(* next: no event comes between.                                           *)
(***************************************************************************)
Menu == <<planning, restart>>

(* Another program of this user is running.                                *)
SecondInstance ==
  /\ At("begin") /\ place' = "over" /\ life' = "quit"
  /\ UNCHANGED <<services, ipc, runtime, window, session, lease, lost, guard,
                 quitting, release, plan, Menu, cleanup>>

OpenData ==
  /\ At("begin") /\ place' = "opening"
  /\ UNCHANGED <<Closing, window, lost, guard, Menu, cleanup>>

TakeLease ==
  /\ At("opening") /\ lease = "free" /\ lease' = "held"
  /\ UNCHANGED <<place, services, ipc, runtime, window, session, lost, guard,
                 quitting, release, plan, Menu, cleanup, life>>

(* The coordinator gives its lease back: it failed, or the user cancelled. *)
OpenEnds ==
  /\ At("opening") /\ lease' = "free"
  /\ \/ place' = "failed" /\ UNCHANGED life
     \/ place' = "over" /\ life' = "quit"
  /\ UNCHANGED <<services, ipc, runtime, window, session, lost, guard, quitting,
                 release, plan, Menu, cleanup>>

(* The services, then the handlers; the window's load is awaited.          *)
OpenServices ==
  /\ At("opening") /\ lease = "held" /\ session' = TRUE
  /\ \/ /\ services' \in {{}, {"assistant"}, Services}
        /\ ipc' = (services' = Services) /\ place' = "failed"
        /\ UNCHANGED <<window, guard>>
     \/ /\ services' = Services /\ ipc' = TRUE /\ place' = "window"
        /\ window' = "loading" /\ guard' = TRUE
  /\ UNCHANGED <<runtime, lease, lost, quitting, release, plan, Menu, cleanup, life>>

(* A failed load destroys the window, and then all windows are closed.     *)
LoadFails ==
  /\ At("window") /\ place' = "failed" /\ window' = "none"
  /\ \/ AllWindowsClosed /\ UNCHANGED cleanup
     \/ Unquit /\ cleanup' = "FAILED"
  /\ UNCHANGED <<lost, guard, Menu>>

(* Then the menu and the runtime.  A quit during the load has closed the   *)
(* services and taken the session: the start fails on it.                  *)
Loaded ==
  /\ At("window") /\ guard' = FALSE
  /\ \/ /\ place' = "failed" /\ window' = "open" /\ UNCHANGED runtime
        /\ cleanup' \in {cleanup} \cup (IF session THEN {"FAILED"} ELSE {})
     \/ /\ session /\ place' = "done" /\ runtime' = TRUE
        /\ window' \in {"open", "hidden"} /\ UNCHANGED cleanup
  /\ UNCHANGED <<services, ipc, session, lease, lost, quitting, release, plan,
                 Menu, life>>

(***************************************************************************)
(* handleStartupFailure                                                    *)
(***************************************************************************)
ReleasesAny(failed) == session

Releases(failed) == session /\ ~failed

(* cleanupFailedStartup: each part is closed, or is left.  The guard holds *)
(* off window-all-closed when the window is destroyed.                     *)
CleanUp ==
  /\ At("failed") /\ guard' = TRUE /\ window' = "none"
  /\ services' \in {{}, services \cap {"provider"}}
  /\ ipc' \in {FALSE, ipc} /\ runtime' \in {FALSE, runtime}
  /\ quitting' = runtime
  /\ LET failed == cleanup = "FAILED" \/ services' # {} \/ ipc' \/ runtime' IN
     IF Releases(failed)
     THEN place' = "cleaning" /\ lease' = "going" /\ UNCHANGED cleanup
     ELSE /\ place' = "dialog" /\ UNCHANGED lease
          /\ cleanup' = (IF failed THEN "FAILED" ELSE "COMPLETE")
  /\ UNCHANGED <<session, lost, release, plan, Menu, life>>

Cleaned ==
  /\ At("cleaning") /\ place' = "dialog"
  /\ \/ lease' = "free" /\ session' = FALSE /\ cleanup' = "COMPLETE"
     \/ cleanup' = "FAILED" /\ UNCHANGED <<lease, session>>
  /\ UNCHANGED <<services, ipc, runtime, window, lost, guard, quitting, release,
                 plan, Menu, life>>

(* The user ends the program, or opens the data management or a restore.   *)
Choose ==
  /\ At("dialog")
  /\ \/ place' = "over" /\ life' = "exit" /\ UNCHANGED lease
     \/ /\ cleanup = "COMPLETE" /\ ~lost /\ lease = "free"
        /\ place' = "recovering" /\ lease' = "held" /\ UNCHANGED life
  /\ UNCHANGED <<services, ipc, runtime, window, session, lost, guard, quitting,
                 release, plan, Menu, cleanup>>

(* The recovery fails or is cancelled, or gives a session to hand over.    *)
Recovered ==
  /\ At("recovering")
  /\ \/ place' = "over" /\ lease' = "free" /\ life' = "exit"
     \/ place' = "handing" /\ lease' = "going" /\ UNCHANGED life
  /\ UNCHANGED <<services, ipc, runtime, window, session, lost, guard, quitting,
                 release, plan, Menu, cleanup>>

Handed ==
  /\ At("handing") /\ place' = "over"
  /\ \/ lease' = "free" /\ life' = "relaunch"
     \/ UNCHANGED lease /\ life' = "exit"
  /\ UNCHANGED <<services, ipc, runtime, window, session, lost, guard, quitting,
                 release, plan, Menu, cleanup>>

(***************************************************************************)
(* What before-quit left under way                                         *)
(***************************************************************************)
PlanEnds ==
  /\ Running /\ release = "plan" /\ release' = "release" /\ lease' = "going"
  /\ restart' \in BOOLEAN
  /\ UNCHANGED <<place, services, ipc, runtime, window, session, lost, guard,
                 quitting, plan, planning, cleanup, life>>

EndedEither == IF restart THEN "relaunch" ELSE "exit"

Ended == "exit"

ReleasedUnknown ==
  lease' = "free" /\ release' = "done" /\ UNCHANGED life

ReleasedStill ==
  lease' = "free" /\ UNCHANGED <<release, life>>

(* The last app.quit finds nothing to close.                               *)
Released ==
  /\ lease' = "free" /\ release' = "none"
  /\ life' = (IF restart THEN "relaunch" ELSE "quit")

ReleaseEnds ==
  /\ Running /\ release = "release" /\ lease = "going"
  /\ Released \/ (UNCHANGED <<lease, release>> /\ life' = Ended)
  /\ UNCHANGED <<place, services, ipc, runtime, window, session, lost, guard,
                 quitting, plan, Menu, cleanup>>

(***************************************************************************)
(* Events                                                                  *)
(***************************************************************************)
LostQuitsStays == Quit

(* The flag is raised before app.quit is called: a quit that fails exits.  *)
LostQuits ==
  IF "provider" \in services /\ ~Releasing
  THEN \/ /\ life' = "exit" /\ quitting' = FALSE
          /\ UNCHANGED <<services, ipc, runtime, session, lease, release, plan>>
       \/ (StopFails \/ AllClosed(plan)) /\ plan' = (plan /\ ~session)
  ELSE Quit

(* The recovery only notes that it has lost the data set.                  *)
LoseOwnership ==
  /\ Running /\ lease = "held" /\ ~lost /\ lost' = TRUE
  /\ UNCHANGED <<place, window, guard, Menu, cleanup>>
  /\ IF place = "recovering" THEN Unquit ELSE LostQuits

QuitByUser ==
  /\ Running /\ runtime /\ Quit
  /\ UNCHANGED <<place, window, lost, guard, Menu, cleanup>>

AskPlan ==
  /\ Running /\ runtime /\ planning = "none" /\ planning' = "asking"
  /\ UNCHANGED <<Closing, place, window, lost, guard, restart, cleanup>>

(* The prepared maintenance begins with a quit, or is not prepared.        *)
PlanPrepared ==
  /\ Running /\ planning = "asking"
  /\ \/ planning' = "none" /\ Unquit
     \/ /\ planning' = "begun"
        /\ IF Releasing \/ plan THEN Unquit ELSE QuitWith(TRUE)
  /\ UNCHANGED <<place, window, lost, guard, restart, cleanup>>

(* Without the runtime's listener the window closes.                       *)
CloseWindow ==
  /\ Running /\ window = "open"
  /\ IF runtime /\ ~quitting THEN window' = "hidden" /\ Unquit
     ELSE window' = "none" /\ AllWindowsClosed
  /\ UNCHANGED <<place, lost, guard, Menu, cleanup>>

ShowWindow ==
  /\ Running /\ runtime /\ window = "hidden" /\ window' = "open"
  /\ UNCHANGED <<Closing, place, lost, guard, Menu, cleanup>>

Init ==
  /\ place = "begin" /\ services = {} /\ ipc = FALSE /\ runtime = FALSE
  /\ window = "none" /\ session = FALSE /\ lease = "free" /\ lost = FALSE
  /\ guard = FALSE /\ quitting = FALSE /\ release = "none" /\ plan = FALSE
  /\ planning = "none" /\ restart = FALSE /\ cleanup = "NOT_STARTED" /\ life = "up"

Next ==
  \/ SecondInstance \/ OpenData \/ TakeLease \/ OpenEnds \/ OpenServices
  \/ LoadFails \/ Loaded \/ CleanUp \/ Cleaned \/ Choose \/ Recovered \/ Handed
  \/ PlanEnds \/ ReleaseEnds \/ LoseOwnership
  \/ QuitByUser \/ AskPlan \/ PlanPrepared \/ CloseWindow \/ ShowWindow

Spec == Init /\ [][Next]_vars

(* What is awaited without the user comes to its end.                      *)
FairSpec ==
  Spec /\ WF_vars(CleanUp) /\ WF_vars(Cleaned) /\ WF_vars(Handed)
       /\ WF_vars(PlanEnds) /\ WF_vars(ReleaseEnds)

-----------------------------------------------------------------------------
(* The pieces of the state have their types.                               *)
TypeOK ==
  /\ place \in {"begin", "opening", "window", "done", "failed", "cleaning", "dialog",
                "recovering", "handing", "over"}
  /\ services \in {{}, {"assistant"}, {"provider"}, Services}
  /\ {ipc, runtime, session, lost, guard, quitting, plan, restart} \subseteq BOOLEAN
  /\ window \in {"none", "loading", "open", "hidden"}
  /\ lease \in {"free", "held", "going"}
  /\ release \in {"none", "plan", "release"} /\ planning \in {"none", "asking", "begun"}
  /\ cleanup \in {"NOT_STARTED", "COMPLETE", "FAILED"}
  /\ life \in {"up", "quit", "exit", "relaunch"}

(* The data set is given up, maintained or recovered only when no service, *)
(* no handler and no runtime of this program could still write to it: the  *)
(* checks of assertQuiescent never throw.                                  *)
NobodyWrites ==
  (life = "up" /\ (lease = "going" \/ release = "plan" \/ place = "recovering"))
    => services = {} /\ ~ipc /\ ~runtime

(* A cleanup reported as complete has left nothing: the recovery it offers *)
(* starts from a free data set.                                            *)
CompleteIsClean ==
  (life = "up" /\ cleanup = "COMPLETE")
    => /\ services = {} /\ ~ipc /\ ~runtime /\ window = "none"
       /\ (place = "dialog" /\ ~lost) => lease = "free"

(* A new program is started only after this one has released the data set. *)
HandedOver == life = "relaunch" => lease = "free"

(* A running program is within the user's reach: it has its tray, or is at *)
(* work that ends or asks, also after a quit that failed.                  *)
NoGhost == (life = "up" /\ place \in {"done", "over"}) => runtime \/ Releasing

(* While there is a tray, there is a window for it to show.                *)
TrayShows == (life = "up" /\ runtime /\ place = "done") => window \in {"open", "hidden"}

(* The dialog of a failed start and a recovery are ended by the user, or   *)
(* when the data set is lost, and never by their own window's closing.     *)
DialogIsNotCutStep ==
  (place \in {"failed", "cleaning", "dialog", "recovering", "handing"} /\ life' = "quit")
    => lost

DialogIsNotCut == [][DialogIsNotCutStep]_vars

(* A quit whose services have closed ends the program, also when its       *)
(* maintenance fails.                                                      *)
QuitEnds == Releasing ~> life # "up"

(* A program that lost its data set ends, unless a recovery is under way.  *)
LostEnds == lost ~> (life # "up" \/ place = "recovering")
=============================================================================
