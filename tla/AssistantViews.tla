--------------------------- MODULE AssistantViews ---------------------------
(***************************************************************************)
(* The two holders of the assistants' state in the renderer, App.tsx and   *)
(* AssistantPanel.tsx, over the durable state of Assistants.  Calls to the *)
(* main process are served in the order they were made; their answers and  *)
(* the event of a purge may reach the renderer in any order.  The version  *)
(* counters by which a component tells a late answer are one flag of the   *)
(* call, "live", that a counter's increment lowers.                        *)
(***************************************************************************)
EXTENDS Assistants, Sequences, FiniteSets, SequencesExt

CONSTANTS
  Starts,    \* durable states the program may open with
  MaxCalls   \* bound: calls under way

ViewsAssumption ==
  /\ Starts \subseteq States /\ \A d \in Starts : Consistent(d)
  /\ MaxCalls \in Nat

VARIABLES
  db,        \* durable: the assistants
  calls,     \* calls under way, each with its answer once served
  events,    \* purges whose event has not reached the renderer
  app,       \* App: the snapshot it holds, in a sequence of at most one
  switching, \* App: the header's choice waits
  route,     \* App: where it takes the user, and for which assistant
  panel,     \* AssistantPanel: the snapshot it holds, likewise
  busy,      \* AssistantPanel: its controls are disabled
  drafts,    \* AssistantPanel: assistants with an edited profile
  lost       \* history: a change was made whose answer no view took

view == <<app, switching, route, panel, busy, drafts>>
vars == <<db, calls, events, view, lost>>

AppKinds == {"header", "open", "discuss", "act", "fetch"}
Navigating == {"open", "discuss", "act"}
PanelKinds == {"first", "command", "save", "reread"}
Operating == {"command", "save", "reread"}
Pending == [kind |-> "none", state |-> Empty]
Failed(k) == [kind |-> k, state |-> Empty]
Answered(d) == [kind |-> "ok", state |-> d]
Nowhere == [what |-> "none", a |-> None]

Command(op, a, s) == [op |-> op, a |-> a, version |-> s.version[a], revision |-> s.revision]
Query(op, a) == [op |-> op, a |-> a, version |-> 0, revision |-> 0]
Call(kind, c, saw) ==
  [kind |-> kind, c |-> c, saw |-> saw, live |-> TRUE, answer |-> Pending]

(* Calls of some kinds are late from now on.                               *)
Late(q, kinds) ==
  [i \in DOMAIN q |-> [q[i] EXCEPT !.live = @ /\ q[i].kind \notin kinds]]

Room == Len(calls) < MaxCalls
Kept(s, ds) == {a \in ds : Listed(s, a)}

(***************************************************************************)
(* The main process serves the oldest call without an answer.  Storage may *)
(* fail it, and the archive's listener may throw after the commit.         *)
(***************************************************************************)
NextCall == CHOOSE i \in DOMAIN calls :
  calls[i].answer = Pending /\ \A j \in 1..(i - 1) : calls[j].answer # Pending

Answer(i, x) == calls' = [calls EXCEPT ![i].answer = x]

Serve ==
  /\ \E i \in DOMAIN calls : calls[i].answer = Pending
  /\ LET i == NextCall
         c == calls[i].c
     IN \/ /\ c.op = "list" /\ Answer(i, Answered(db)) /\ UNCHANGED <<db, lost>>
        \/ /\ c.op = "act" /\ Answer(i, [kind |-> "ok", state |-> Empty])
           /\ UNCHANGED <<db, lost>>
        \/ /\ Answer(i, Failed("refused")) /\ UNCHANGED <<db, lost>>
        \/ /\ c.op \notin {"list", "act"} /\ ~Fresh(db, c)
           /\ Answer(i, Failed("stale")) /\ UNCHANGED <<db, lost>>
        \/ /\ c.op \notin {"list", "act"} /\ Fresh(db, c) /\ ~Refuses(db, c)
           /\ ~Consistent(Done(db, c))
           /\ Answer(i, Failed("inconsistent")) /\ UNCHANGED <<db, lost>>
        \/ /\ c.op \notin {"list", "act"} /\ Fresh(db, c) /\ ~Refuses(db, c)
           /\ Consistent(Done(db, c)) /\ db.revision < MaxRevision
           /\ db' = Done(db, c)
           /\ \/ Answer(i, Answered(db')) /\ UNCHANGED lost
              \/ /\ c.op = "archive" /\ Answer(i, Failed("refused"))
                 /\ lost' = TRUE
  /\ UNCHANGED <<events, view>>

Purge(a) ==
  /\ Listed(db, a) /\ db.revision < MaxRevision
  /\ \E r \in Active(db) \cup {None} :
        Consistent(Purged(db, a, r)) /\ db' = Purged(db, a, r)
  /\ events' = events \cup {a}
  /\ UNCHANGED <<calls, view, lost>>

-----------------------------------------------------------------------------
(***************************************************************************)
(* What App does.  A choice in the header, a configuration or a source to  *)
(* open, a proposal to discuss: each makes every earlier one late.         *)
(***************************************************************************)
Held(s) == s # <<>>
Shown == app[1]
SendApp(kind, c) ==
  calls' = Append(Late(calls, AppKinds), Call(kind, c, Shown))

SwitchHeader(a) ==
  /\ Room /\ Held(app) /\ ~switching
  /\ Shown.status[a] = "active" /\ Shown.current # a
  /\ SendApp("header", Command("switch", a, Shown))
  /\ switching' = TRUE
  /\ UNCHANGED <<db, events, app, route, panel, busy, drafts, lost>>

Open(a) ==
  /\ Room /\ Held(app) /\ ~busy
  /\ Held(panel) /\ panel[1].status[a] = "active"
  /\ IF Shown.current = a
     THEN /\ calls' = Late(calls, AppKinds \cup Operating)
          /\ route' = [what |-> "focus", a |-> a]
     ELSE /\ calls' = Append(Late(calls, AppKinds \cup Operating),
                             Call("open", Command("switch", a, Shown), Shown))
          /\ UNCHANGED route
  /\ UNCHANGED <<db, events, app, switching, panel, busy, drafts, lost>>

Discuss(a) ==
  /\ Room /\ Held(app) /\ Listed(Shown, a)
  /\ LET op == IF Shown.status[a] = "archived" THEN "restore" ELSE "switch"
     IN IF Shown.current = a
        THEN SendApp("act", Query("act", a))
        ELSE SendApp("discuss", Command(op, a, Shown))
  /\ UNCHANGED <<db, events, view, lost>>

SelectView ==
  /\ calls' = Late(calls, Navigating)
  /\ route' = IF route.what = "focus" THEN Nowhere ELSE route
  /\ UNCHANGED <<db, events, app, switching, panel, busy, drafts, lost>>

(* Wrong variant: nothing is asked for again.                              *)
PurgeUnasked(a) ==
  /\ a \in events /\ Room
  /\ events' = events \ {a}
  /\ calls' = Late(calls, AppKinds)
  /\ route' = IF route.what = "talk" /\ route.a = a THEN Nowhere ELSE route
  /\ UNCHANGED <<db, app, switching, panel, busy, drafts, lost>>

(* The event of a purge: everything under way is late, and the assistants  *)
(* are asked for again.                                                    *)
PurgeEvent(a) ==
  /\ a \in events /\ Room
  /\ events' = events \ {a}
  /\ calls' = Append(Late(calls, AppKinds), Call("fetch", Query("list", None), Empty))
  /\ route' = IF route.what = "talk" /\ route.a = a THEN Nowhere ELSE route
  /\ UNCHANGED <<db, app, switching, panel, busy, drafts, lost>>

(***************************************************************************)
(* What the panel does.                                                    *)
(***************************************************************************)
SendPanel(kind, c) ==
  calls' = Append(Late(calls, Operating), Call(kind, c, panel[1]))

Operate(op, a) ==
  /\ Room /\ Held(panel) /\ ~busy
  /\ LET s == panel[1] IN
       /\ op = "create" => s.status[a] = "absent"
       /\ op # "create" => s.status[a] = "active"
       /\ op = "switch" => s.current # a
       /\ op \in {"setPrimary", "archive"} => s.primary # a
       /\ SendPanel("command", Command(op, a, s))
  /\ busy' = TRUE
  /\ UNCHANGED <<db, events, app, switching, route, panel, drafts, lost>>

Edit(a) ==
  /\ Held(panel) /\ ~busy /\ panel[1].status[a] = "active"
  /\ drafts' = drafts \cup {a}
  /\ UNCHANGED <<db, calls, events, app, switching, route, panel, busy, lost>>

Save(a) ==
  /\ Room /\ Held(panel) /\ ~busy /\ panel[1].status[a] = "active"
  /\ SendPanel("save", Command("rename", a, panel[1]))
  /\ busy' = TRUE
  /\ UNCHANGED <<db, events, app, switching, route, panel, drafts, lost>>

-----------------------------------------------------------------------------
(***************************************************************************)
(* An answer reaches the renderer.  A snapshot App takes                   *)
(* goes on to the panel, which takes a newer one and makes its own calls   *)
(* late; one the panel takes goes on to App, likewise.                     *)
(***************************************************************************)
Rest(i) == RemoveAt(calls, i)
Good(i) == calls[i].live /\ calls[i].answer.kind = "ok"

Newer(s) == ~Held(panel) \/ s.revision > panel[1].revision

(* Wrong variant: the panel keeps to what it has asked for itself.         *)
PanelIgnores(s, q) == calls' = q /\ UNCHANGED <<panel, busy, drafts>>

PanelSees(s, q) ==
  /\ calls' = IF Newer(s) THEN Late(q, PanelKinds) ELSE q
  /\ panel' = IF Newer(s) THEN <<s>> ELSE panel
  /\ busy' = (busy /\ ~Newer(s))
  /\ drafts' = IF Newer(s) THEN Kept(s, drafts) ELSE drafts

AppTakes(s, i) == app' = <<s>> /\ PanelSees(s, Rest(i))

(* Wrong variant: an answer to App is taken whenever it comes.             *)
TakenLate(i) == calls[i].answer.kind = "ok"

Taken(i) == Good(i)

DeliverHeader(i) ==
  /\ calls[i].kind = "header"
  /\ switching' = FALSE
  /\ IF Taken(i)
     THEN /\ AppTakes(calls[i].answer.state, i)
          /\ route' = IF route.what = "focus" THEN Nowhere ELSE route
     ELSE calls' = Rest(i) /\ UNCHANGED <<app, route, panel, busy, drafts>>

DeliverOpen(i) ==
  /\ calls[i].kind = "open"
  /\ IF Taken(i)
     THEN /\ AppTakes(calls[i].answer.state, i)
          /\ route' = IF app'[1].current = calls[i].c.a
                      THEN [what |-> "focus", a |-> calls[i].c.a] ELSE route
     ELSE calls' = Rest(i) /\ UNCHANGED <<app, route, panel, busy, drafts>>
  /\ UNCHANGED switching

DeliverDiscuss(i) ==
  /\ calls[i].kind = "discuss"
  /\ IF Taken(i)
     THEN /\ app' = <<calls[i].answer.state>>
          /\ PanelSees(calls[i].answer.state,
                       Append(Rest(i), Call("act", Query("act", calls[i].c.a), Empty)))
     ELSE calls' = Rest(i) /\ UNCHANGED <<app, panel, busy, drafts>>
  /\ UNCHANGED <<switching, route>>

(* Wrong variant: the discussion opens whatever was chosen meanwhile.      *)
ActedLate(i) == calls[i].answer.kind = "ok"

Acted(i) == Good(i)

DeliverAct(i) ==
  /\ calls[i].kind = "act"
  /\ route' = IF Acted(i) THEN [what |-> "talk", a |-> calls[i].c.a] ELSE route
  /\ calls' = Rest(i)
  /\ UNCHANGED <<app, switching, panel, busy, drafts>>

DeliverFetch(i) ==
  /\ calls[i].kind = "fetch"
  /\ IF Taken(i) THEN AppTakes(calls[i].answer.state, i)
              ELSE calls' = Rest(i) /\ UNCHANGED <<app, panel, busy, drafts>>
  /\ UNCHANGED <<switching, route>>

(* The panel accepts a snapshot and hands it to App.                       *)
Accepts(s) == ~Held(panel) \/ s.revision >= panel[1].revision

Receive(s, q) ==
  /\ calls' = Late(q, AppKinds)
  /\ app' = IF Held(app) /\ Shown.revision > s.revision THEN app ELSE <<s>>

(* Wrong variant: a refreshed state takes every draft with it.             *)
AcceptAll(s, ds, i) ==
  IF Accepts(s) THEN panel' = <<s>> /\ drafts' = {} /\ Receive(s, Rest(i))
                ELSE calls' = Rest(i) /\ UNCHANGED <<app, panel, drafts>>

Accept(s, ds, i) ==
  IF Accepts(s) THEN panel' = <<s>> /\ drafts' = Kept(s, ds) /\ Receive(s, Rest(i))
                ELSE calls' = Rest(i) /\ UNCHANGED <<app, panel, drafts>>

DeliverFirst(i) ==
  /\ calls[i].kind = "first"
  /\ IF Good(i) THEN Accept(calls[i].answer.state, drafts, i)
             ELSE calls' = Rest(i) /\ UNCHANGED <<app, panel, drafts>>
  /\ UNCHANGED <<switching, route, busy>>

(* Wrong variant: only an answer with a state ends the wait.               *)
EndsWaitWell(i) == Good(i)

EndsWait(i) == calls[i].live

DeliverCommand(i) ==
  /\ calls[i].kind \in {"command", "reread"}
  /\ IF Good(i) THEN Accept(calls[i].answer.state, drafts, i)
             ELSE calls' = Rest(i) /\ UNCHANGED <<app, panel, drafts>>
  /\ busy' = (busy /\ ~EndsWait(i))
  /\ UNCHANGED <<switching, route>>

(* A profile refused as stale is compared with the state asked for again;  *)
(* the draft stays.                                                        *)
DeliverSave(i) ==
  /\ calls[i].kind = "save"
  /\ IF Good(i) THEN Accept(calls[i].answer.state, drafts \ {calls[i].c.a}, i)
     ELSE /\ calls' = IF calls[i].live /\ calls[i].answer.kind = "stale"
                      THEN Append(Rest(i), Call("reread", Query("list", None), panel[1]))
                      ELSE Rest(i)
          /\ UNCHANGED <<app, panel, drafts>>
  /\ busy' = (busy /\ (~calls[i].live \/ calls[i].answer.kind = "stale"))
  /\ UNCHANGED <<switching, route>>

Changes == {"header", "open", "discuss", "command", "save"}

Deliver(i) ==
  /\ calls[i].answer # Pending
  /\ \/ DeliverHeader(i) \/ DeliverOpen(i) \/ DeliverDiscuss(i) \/ DeliverAct(i)
     \/ DeliverFetch(i) \/ DeliverFirst(i) \/ DeliverCommand(i) \/ DeliverSave(i)
  /\ lost' = \/ lost /\ (app' = app \/ app' # <<db>>)
             \/ /\ ~calls[i].live /\ calls[i].answer.kind = "ok"
                /\ calls[i].kind \in Changes \cup {"fetch"}
             \/ calls[i].kind = "fetch" /\ calls[i].answer.kind # "ok"
  /\ UNCHANGED <<db, events>>

Init ==
  /\ db \in Starts
  /\ calls = <<Call("first", Query("list", None), Empty)>>
  /\ events = {} /\ app = <<>> /\ panel = <<>> /\ route = Nowhere
  /\ switching = FALSE /\ busy = FALSE /\ drafts = {} /\ lost = FALSE

Next ==
  \/ Serve \/ SelectView
  \/ \E i \in DOMAIN calls : Deliver(i)
  \/ \E a \in Assistant :
       \/ Purge(a) \/ PurgeEvent(a) \/ SwitchHeader(a) \/ Open(a) \/ Discuss(a)
       \/ Edit(a) \/ Save(a)
       \/ \E op \in {"create", "switch", "setPrimary", "archive"} : Operate(op, a)

Spec == Init /\ [][Next]_vars
Fairness ==
  /\ WF_vars(Serve) /\ WF_vars(calls # <<>> /\ Deliver(1))
  /\ \A a \in Assistant : WF_vars(PurgeEvent(a))
FairSpec == Spec /\ Fairness

-----------------------------------------------------------------------------
TypeOK ==
  /\ db \in States /\ Len(calls) <= MaxCalls + 1 /\ events \subseteq Assistant
  /\ \A i \in DOMAIN calls :
       /\ calls[i].kind \in AppKinds \cup PanelKinds
       /\ calls[i].answer.state \in States
  /\ Len(app) <= 1 /\ Len(panel) <= 1
  /\ \A i \in DOMAIN app : app[i] \in States
  /\ \A i \in DOMAIN panel : panel[i] \in States
  /\ route.a \in Assistant \cup {None} /\ drafts \subseteq Assistant
  /\ {switching, busy, lost} \subseteq BOOLEAN

(* What the renderer holds of the state, or is about to be given.          *)
Snapshots ==
  {db} \cup {app[i] : i \in DOMAIN app} \cup {panel[i] : i \in DOMAIN panel}
  \cup {calls[i].answer.state : i \in {j \in DOMAIN calls :
          calls[j].answer.kind = "ok" /\ calls[j].c.op # "act"}}

(* A revision names one state: whatever the renderer holds or is about to  *)
(* be given, two snapshots of a revision are the same, so that comparing   *)
(* revisions is enough to tell the newer one.                              *)
RevisionNamesState ==
  \A s, t \in Snapshots : s.revision = t.revision => s = t

(* No command is rolled back by the check every transaction ends with, that *)
(* the primary and the current assistant are active ones: what the guards  *)
(* of a command let pass keeps them so.                                    *)
NothingInconsistent ==
  \A i \in DOMAIN calls : calls[i].answer.kind # "inconsistent"

(* ... except, in this code, a restored assistant's when none is active:   *)
(* it becomes the current one and nobody is made the primary.              *)
GuardsKeepLeaders ==
  \A i \in DOMAIN calls :
    calls[i].answer.kind = "inconsistent" =>
      calls[i].c.op = "restore" /\ calls[i].saw.primary = None

(* A command changes the state only if its sender was looking at that very *)
(* state: nobody archives, renames or switches blindly over another change.*)
NoBlindWriteStep ==
  db' # db /\ events' = events => calls[NextCall].saw = db

NoBlindWrite == [][NoBlindWriteStep]_vars

(* Neither component goes back to an older state than it has shown.        *)
ViewsGoForwardStep ==
  /\ app # <<>> => app'[1].revision >= app[1].revision
  /\ panel # <<>> => panel'[1].revision >= panel[1].revision

ViewsGoForward == [][ViewsGoForwardStep]_vars

(* With nothing under way the two components show the same state.          *)
ViewsAgree == calls = <<>> => app = panel

(* ... which is the durable one, unless the answer to a change was dropped *)
(* as late, or was an error although the change was made.                  *)
RestIsCurrent ==
  calls = <<>> /\ events = {} /\ ~lost /\ app # <<>> => app[1] = db

(* App takes the user to an assistant's page or discussion only while it   *)
(* shows that assistant as the current one.                                *)
RouteIsShownStep ==
  route' # route /\ route'.what # "none" =>
    app'[1].current = route'.a /\ app'[1].status[route'.a] = "active"

RouteIsShown == [][RouteIsShownStep]_vars

(* An edited profile is dropped only by saving it or with its assistant.   *)
DraftsKeptStep ==
  \A x \in drafts \ drafts' :
    \/ panel'[1].status[x] = "purged"
    \/ \E i \in DOMAIN calls : calls[i].kind = "save" /\ calls[i].answer.kind = "ok"
                               /\ calls[i].c.a = x

DraftsKept == [][DraftsKeptStep]_vars

(* The disabled controls come back: of the panel, and of the header.       *)
ControlsComeBack == (busy ~> ~busy) /\ (switching ~> ~switching)
=============================================================================
