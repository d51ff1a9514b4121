------------------------- MODULE ReminderNavigation -------------------------
(***************************************************************************)
(* What a click on a notification does: ReminderService.activateVerified,  *)
(* the ReminderNavigationBroker of the main process and the effects of     *)
(* App.tsx that route and acknowledge.  The renderer's requests are served *)
(* in the order they were made.  A reply never overtakes an event sent     *)
(* before it, but may come after later events.  The versions by which the  *)
(* renderer tells a late reply are one flag of the message, "live".        *)
(***************************************************************************)
EXTENDS Naturals, Sequences, SequencesExt

CONSTANTS
  Assistants,  \* assistants that may be the current one
  Items,       \* items a reminder may be about
  Reminders,   \* reminders with a version
  ItemOf,      \* the item of each reminder
  Groups,      \* sets of reminders that share a notification
  None,        \* no assistant, no item, nothing
  MayFail,     \* storage may fail a call
  MaxAcked,    \* acknowledgements the broker remembers
  MaxDelivered,\* deliveries the renderer remembers
  MaxClicks,   \* bound: deliveries published
  MaxRev,      \* bound: changes of the current assistant's state
  MaxRuns,     \* bound: starts of the program and reloads of the window
  MaxMessages  \* bound: messages under way when something new happens

NavigationAssumption ==
  /\ None \notin Assistants \cup Items \cup Reminders
  /\ MayFail \in BOOLEAN
  /\ ItemOf \in [Reminders -> Items]
  /\ Groups \subseteq SUBSET Reminders /\ {} \notin Groups
  /\ {MaxAcked, MaxDelivered} \subseteq Nat \ {0}
  /\ {MaxClicks, MaxRev, MaxRuns, MaxMessages} \subseteq Nat

VARIABLES
  states,      \* durable: the current assistant at every revision so far
  current,     \* durable: reminders that are shown and not over
  items,       \* durable: items that exist
  activations, \* durable: the clicks recorded
  phase,       \* the program: down, loading its window, or attached
  clicked,     \* a click waiting for the program to attach
  clicks,      \* deliveries published so far
  pending,     \* broker: the delivery nobody has acknowledged
  acked,       \* broker: deliveries acknowledged, the oldest first
  outbox,      \* requests of the renderer
  inbox,       \* events and replies to the renderer
  view,        \* App: the assistant and revision it shows
  listener,    \* App: those its listener was made for
  delivered,   \* App: deliveries it has taken, the oldest first
  ack,         \* App: the delivery it is to acknowledge
  page,        \* App: the active view
  target,      \* App: the item to open, and for which assistant
  dirty,       \* App: effects wait for a render
  runs,        \* bound: starts and reloads so far
  routed,      \* history: deliveries routed, in order
  seen,        \* history: deliveries whose page was on the screen
  consumed,    \* history: deliveries the broker saw acknowledged
  told         \* history: deliveries whose target was said to have changed

durable == <<states, current, items>>
broker == <<pending, acked>>
renderer == <<view, listener, delivered, ack, page, target, dirty>>
history == <<routed, seen, consumed, told>>
vars == <<durable, activations, phase, clicked, clicks, broker, outbox, inbox,
          renderer, runs, history>>

Nobody == [a |-> None, rev |-> 0]
cur == Last(states)
At(r) == [a |-> states[r], rev |-> r]
Now == At(Len(states))
Of(d) == [a |-> d.a, rev |-> d.rev]
Room == Len(outbox) + Len(inbox) < MaxMessages
Live(d) == [kind |-> "live", at |-> Of(d), d |-> d, ok |-> "yes", live |-> TRUE]
Ask(kind, at, d) == [kind |-> kind, at |-> at, d |-> d, ok |-> "yes", live |-> TRUE]

(* Requests and replies of these kinds are late from now on.               *)
Late(q, kinds) ==
  [i \in DOMAIN q |-> [q[i] EXCEPT !.live = @ /\ q[i].kind \notin kinds]]

Navigable(d) == d.item = None \/ (d.a \in Assistants /\ d.item \in items)
Valid(d) == Of(d) = Now /\ Navigable(d)

(***************************************************************************)
(* The main process: a click and the broker's delivery                     *)
(***************************************************************************)
Delivery(g, members) ==
  [id |-> clicks + 1, a |-> cur, rev |-> Len(states), group |-> g,
   item |-> IF \E r \in members : members = {r}
            THEN ItemOf[CHOOSE r \in members : TRUE] ELSE None]

Published(d) ==
  IF cur = None \/ ~Navigable(d)
  THEN UNCHANGED <<clicks, pending, inbox>>
  ELSE /\ clicks' = clicks + 1 /\ pending' = d
       /\ inbox' = Append(inbox, Live(d))

Recorded(g) == activations' = activations \cup {g}

ActivateFirst(g) ==
  LET members == g \cap current IN
  /\ clicks < MaxClicks
  /\ \/ members = {} /\ UNCHANGED <<activations, clicks, pending, inbox>>
     \/ members # {} /\ UNCHANGED activations /\ Published(Delivery(g, members))
     \/ members # {} /\ Recorded(g) /\ Published(Delivery(g, members))
  /\ UNCHANGED <<durable, acked, outbox, renderer, runs, history>>

Activate(g) ==
  LET members == g \cap current IN
  /\ clicks < MaxClicks
  /\ \/ members = {} /\ UNCHANGED <<activations, clicks, pending, inbox>>
     \/ MayFail /\ UNCHANGED <<activations, clicks, pending, inbox>>
     \/ members # {} /\ Recorded(g) /\ Published(Delivery(g, members))
  /\ UNCHANGED <<durable, acked, outbox, renderer, runs, history>>

Click(g) ==
  /\ phase = "up" /\ Room
  /\ Activate(g) /\ UNCHANGED <<phase, clicked>>

(* With no program attached, the system keeps the click and starts one.    *)
ColdClick(g) ==
  /\ phase # "up" /\ clicked' = g
  /\ UNCHANGED <<durable, activations, phase, clicks, broker, outbox, inbox,
                 renderer, runs, history>>

(* The window has loaded and its effects may have run before the runtime   *)
(* attaches and takes the click that started the program.                  *)
Attach ==
  /\ phase = "loading"
  /\ phase' = "up" /\ clicked' = None
  /\ IF clicked = None \/ clicks = MaxClicks
     THEN UNCHANGED <<durable, activations, clicks, broker, outbox, inbox,
                      renderer, runs, history>>
     ELSE Activate(clicked)

(***************************************************************************)
(* The main process serves the renderer's oldest request                   *)
(***************************************************************************)
Reply(m, d, ok) == inbox' = Append(inbox, [m EXCEPT !.d = d, !.ok = ok])

(* A pending delivery that is no longer valid is forgotten when asked for. *)
ServePull(m) ==
  \/ /\ MayFail \/ cur = None \/ m.at # Now
     /\ Reply(m, None, "refused") /\ UNCHANGED <<broker, consumed>>
  \/ /\ cur # None /\ m.at = Now
     /\ IF pending # None /\ ~Valid(pending)
        THEN Reply(m, None, "yes") /\ pending' = None
        ELSE Reply(m, pending, "yes") /\ UNCHANGED pending
     /\ UNCHANGED <<acked, consumed>>

Waiting(d) == IF pending = None THEN FALSE ELSE pending.id = d.id
Acknowledged(m) == \E i \in DOMAIN acked : acked[i].id = m.d.id

RememberedLate(s, max) == IF Len(s) > max + 1 THEN Tail(s) ELSE s

Remembered(s, max) == IF Len(s) > max THEN Tail(s) ELSE s

ConsumedKept(d) ==
  /\ UNCHANGED pending
  /\ acked' = Remembered(Append(acked, d), MaxAcked)
  /\ consumed' = consumed \cup {d.id}

Consumed(d) ==
  /\ pending' = None
  /\ acked' = Remembered(Append(acked, d), MaxAcked)
  /\ consumed' = consumed \cup {d.id}

AckedAnew(m) ==
  /\ Acknowledged(m) /\ Reply(m, m.d, "no")
  /\ UNCHANGED <<broker, consumed>>

AckedAgain(m) ==
  /\ Acknowledged(m)
  /\ Reply(m, m.d, IF \E i \in DOMAIN acked : acked[i].id = m.d.id /\ Of(acked[i]) = Now
                   THEN "yes" ELSE "no")
  /\ UNCHANGED <<broker, consumed>>

ServeAck(m) ==
  \/ /\ MayFail \/ cur = None \/ m.at # Now
     /\ Reply(m, m.d, "refused") /\ UNCHANGED <<broker, consumed>>
  \/ /\ cur # None /\ m.at = Now
     /\ \/ AckedAgain(m)
        \/ /\ ~Acknowledged(m) /\ ~Waiting(m.d)
           /\ Reply(m, m.d, "no") /\ UNCHANGED <<broker, consumed>>
        \/ /\ ~Acknowledged(m) /\ Waiting(m.d)
           /\ IF Valid(pending)
              THEN Reply(m, m.d, "yes") /\ Consumed(pending)
              ELSE /\ Reply(m, m.d, "no") /\ pending' = None
                   /\ UNCHANGED <<acked, consumed>>

Serve ==
  /\ outbox # <<>> /\ outbox' = Tail(outbox)
  /\ \/ Head(outbox).kind = "pull" /\ ServePull(Head(outbox))
     \/ Head(outbox).kind = "ack" /\ ServeAck(Head(outbox))
  /\ UNCHANGED <<durable, activations, phase, clicked, clicks, renderer, runs,
                 routed, seen, told>>

(***************************************************************************)
(* App.tsx: what its listener does with an event or a pulled delivery      *)
(***************************************************************************)
Route(d) ==
  IF Contains(delivered, d.id)
  THEN UNCHANGED <<delivered, ack, page, target, dirty, routed>>
  ELSE /\ delivered' = Remembered(Append(delivered, d.id), MaxDelivered)
       /\ ack' = d /\ dirty' = TRUE
       /\ page' = (IF d.item = None THEN "reminders" ELSE "items")
       /\ target' = (IF d.item = None THEN target ELSE [a |-> listener.a, item |-> d.item])
       /\ routed' = Append(routed, d.id)

Listens == listener.a # None
Without(i) == RemoveAt(inbox, i)
Ignored == UNCHANGED <<delivered, ack, page, target, dirty, routed>>

(* An event for the listener's assistant and revision makes a pull late.   *)
TakeLiveOnly(i) ==
  /\ IF Listens /\ inbox[i].at = listener THEN Route(inbox[i].d) ELSE Ignored
  /\ inbox' = Without(i) /\ UNCHANGED <<outbox, told>>

TakeLive(i) ==
  IF Listens /\ inbox[i].at = listener
  THEN /\ Route(inbox[i].d)
       /\ inbox' = Late(Without(i), {"pull"}) /\ outbox' = Late(outbox, {"pull"})
       /\ UNCHANGED told
  ELSE Ignored /\ inbox' = Without(i) /\ UNCHANGED <<outbox, told>>

TakePull(i) ==
  LET m == inbox[i] IN
  /\ IF m.live /\ m.ok = "yes" /\ m.d # None /\ Of(m.d) = listener
     THEN Route(m.d) ELSE Ignored
  /\ inbox' = Without(i) /\ UNCHANGED <<outbox, told>>

(* The answer to an acknowledgement that is still the effect's own.        *)
TakeAck(i) ==
  LET m == inbox[i] IN
  /\ IF ~m.live THEN Ignored /\ UNCHANGED told
     ELSE /\ ack' = (IF ack # None /\ ack.id = m.d.id THEN None ELSE ack)
          /\ dirty' = (dirty \/ ack' # ack)
          /\ IF m.ok = "yes" THEN UNCHANGED <<delivered, told>>
             ELSE /\ delivered' = Remove(delivered, m.d.id)
                  /\ told' = told \cup (IF m.ok = "no" THEN {m.d.id} ELSE {})
          /\ UNCHANGED <<page, target, routed>>
  /\ inbox' = Without(i) /\ UNCHANGED outbox

Deliver ==
  \E i \in DOMAIN inbox :
    /\ \A j \in 1..(i - 1) : inbox[j].kind # "live"
    /\ \/ inbox[i].kind = "live" /\ TakeLive(i)
       \/ inbox[i].kind = "pull" /\ TakePull(i)
       \/ inbox[i].kind = "ack" /\ TakeAck(i)
    /\ UNCHANGED <<durable, activations, phase, clicked, clicks, broker, view,
                   listener, runs, seen, consumed>>

(***************************************************************************)
(* App.tsx: a render runs the effects whose inputs changed                 *)
(***************************************************************************)
OnScreen(d) ==
  IF d.item = None THEN page = "reminders"
  ELSE page = "items" /\ target = [a |-> view.a, item |-> d.item]

ReadyAlways(d) == d # None

Ready(d) == OnScreen(d)

Changed == view # listener
Forgotten == ack # None /\ view.a # None /\ Of(ack) # view
Acking == ack # None /\ view.a # None /\ Of(ack) = view /\ Ready(ack)
Stale == {"ack"} \cup (IF Changed THEN {"pull"} ELSE {})

PulledFirst ==
  IF listener.a = None /\ view.a # None THEN <<Ask("pull", view, None)>> ELSE <<>>

Pulled ==
  IF Changed /\ view.a # None THEN <<Ask("pull", view, None)>> ELSE <<>>

ShownStill == target

Shown == IF view.a = listener.a THEN target ELSE None

Render ==
  /\ dirty /\ dirty' = FALSE
  /\ listener' = view
  /\ target' = Shown
  /\ ack' = (IF Forgotten THEN None ELSE ack)
  /\ delivered' = (IF Forgotten THEN Remove(delivered, ack.id) ELSE delivered)
  /\ outbox' = Late(outbox, Stale) \o Pulled
               \o (IF Acking THEN <<Ask("ack", view, ack)>> ELSE <<>>)
  /\ inbox' = Late(inbox, Stale)
  /\ seen' = seen \cup (IF /\ ack # None
                          /\ \/ ack.item = None /\ page = "reminders"
                             \/ page = "items" /\ target = [a |-> view.a, item |-> ack.item]
                       THEN {ack.id} ELSE {})
  /\ UNCHANGED <<durable, activations, phase, clicked, clicks, broker, view,
                 page, runs, routed, consumed, told>>

Unseen == UNCHANGED <<durable, activations, phase, clicked, clicks, broker,
                      outbox, inbox, listener, delivered, ack, runs, history>>

(* App's snapshot may be of any revision it has not seen.                  *)
SeeState ==
  /\ phase # "down" /\ Room
  /\ \E r \in (view.rev + 1)..Len(states) : view' = At(r)
  /\ dirty' = TRUE /\ UNCHANGED <<page, target>> /\ Unseen

SelectPage(p) ==
  /\ phase # "down" /\ Room /\ page # p
  /\ page' = p /\ dirty' = TRUE /\ UNCHANGED <<view, target>> /\ Unseen

OpenItem(i) ==
  /\ phase # "down" /\ Room /\ Listens
  /\ page' = "items" /\ target' = [a |-> listener.a, item |-> i]
  /\ dirty' = TRUE /\ UNCHANGED view /\ Unseen

(***************************************************************************)
(* What happens around it                                                  *)
(***************************************************************************)
Around == UNCHANGED <<activations, phase, clicked, clicks, broker, outbox,
                      inbox, renderer, runs, history>>

ChangeState ==
  /\ Len(states) < MaxRev
  /\ \E a \in Assistants \cup {None} : states' = Append(states, a)
  /\ UNCHANGED <<current, items>> /\ Around

End(r) ==
  /\ r \in current /\ current' = current \ {r}
  /\ UNCHANGED <<states, items>> /\ Around

RemoveItem(i) ==
  /\ i \in items /\ items' = items \ {i}
  /\ current' = {r \in current : ItemOf[r] # i}
  /\ UNCHANGED states /\ Around

Blank ==
  /\ view' = Nobody /\ listener' = Nobody /\ delivered' = <<>> /\ ack' = None
  /\ page' = "chat" /\ target' = None /\ dirty' = FALSE

Start ==
  /\ phase = "down" /\ runs < MaxRuns
  /\ phase' = "loading" /\ runs' = runs + 1 /\ Blank
  /\ UNCHANGED <<durable, activations, clicked, clicks, broker, outbox, inbox,
                 history>>

(* The end of the program, by its stop or by a crash.                      *)
Stop ==
  /\ phase # "down" /\ phase' = "down"
  /\ pending' = None /\ acked' = <<>> /\ outbox' = <<>> /\ inbox' = <<>> /\ Blank
  /\ UNCHANGED <<durable, activations, clicked, clicks, runs, history>>

Reload ==
  /\ phase = "up" /\ runs < MaxRuns /\ runs' = runs + 1
  /\ outbox' = Late(outbox, {"pull", "ack"}) /\ inbox' = <<>> /\ Blank
  /\ UNCHANGED <<durable, activations, phase, clicked, clicks, broker, history>>

Pages == {"chat", "items", "reminders"}

Init ==
  /\ states \in [1..1 -> Assistants] /\ current = Reminders /\ items = Items
  /\ activations = {} /\ phase = "down" /\ clicked = None /\ clicks = 0
  /\ pending = None /\ acked = <<>> /\ outbox = <<>> /\ inbox = <<>>
  /\ view = Nobody /\ listener = Nobody /\ delivered = <<>> /\ ack = None
  /\ page = "chat" /\ target = None /\ dirty = FALSE /\ runs = 0
  /\ routed = <<>> /\ seen = {} /\ consumed = {} /\ told = {}

Next ==
  \/ \E g \in Groups : Click(g) \/ ColdClick(g)
  \/ Attach \/ Serve \/ Deliver \/ Render
  \/ SeeState \/ \E p \in Pages : SelectPage(p)
  \/ \E i \in Items : OpenItem(i) \/ RemoveItem(i)
  \/ ChangeState \/ \E r \in Reminders : End(r)
  \/ Start \/ Stop \/ Reload

Spec == Init /\ [][Next]_vars

(* The loops of both processes go on.                                      *)
FairSpec == Spec /\ WF_vars(Serve) /\ WF_vars(Deliver) /\ WF_vars(Render)

-----------------------------------------------------------------------------
(* The pieces of the state have their types, and what the broker and the   *)
(* renderer remember stays within their limits.                            *)
Ids == 1..MaxClicks
TypeOK ==
  /\ Len(states) \in 1..MaxRev /\ current \subseteq Reminders /\ items \subseteq Items
  /\ activations \subseteq Groups /\ phase \in {"down", "loading", "up"}
  /\ clicked \in Groups \cup {None} /\ clicks \in 0..MaxClicks
  /\ Len(acked) <= MaxAcked /\ Len(delivered) <= MaxDelivered
  /\ page \in Pages /\ dirty \in BOOLEAN /\ runs \in 0..MaxRuns
  /\ seen \subseteq Ids /\ consumed \subseteq Ids /\ told \subseteq Ids

(* An older click never takes the user away from where a later click has   *)
(* brought him: the delivery pulled at a listener's start is dropped when   *)
(* an event has come meanwhile.                                            *)
LatestWins == \A i, j \in DOMAIN routed : i < j => routed[i] <= routed[j]

(* A click that was followed and acknowledged is not followed again, by no *)
(* new listener and by no reloaded window.                                 *)
ConsumedOnceStep ==
  routed' # routed => Last(routed') \notin consumed

ConsumedOnce == [][ConsumedOnceStep]_vars

(* The broker forgets a delivery as acknowledged only after its page was   *)
(* on the user's screen.                                                   *)
ConsumedWasSeen == consumed \subseteq seen

(* Nobody is told that the target of a click has changed when the click    *)
(* was acknowledged: a repeated acknowledgement is answered as the first.  *)
NoFalseAlarm == told \cap consumed = {}

(* An item opened for one assistant is not shown under another.            *)
TargetIsOwn == (~dirty /\ target # None) => target.a = view.a

(* A click that navigates is in the records, also when storage fails.      *)
ClicksRecorded == pending # None => pending.group \in activations

(* A delivery that waits while App shows its assistant and revision is     *)
(* routed, also one that was sent before the window listened.              *)
Waits(n) == /\ pending # None /\ pending.id = n /\ Valid(pending)
            /\ phase = "up" /\ view = Of(pending)
Heard == \A n \in Ids : Waits(n) ~> (~Waits(n) \/ Contains(routed, n))
=============================================================================
