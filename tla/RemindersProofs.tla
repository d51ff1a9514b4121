--------------------------- MODULE RemindersProofs ---------------------------
(***************************************************************************)
(* Proofs about Reminders for every number of items, reminders, versions   *)
(* and instants: type correctness, and that a reminder version is shown at *)
(* most once whatever ticks, callbacks, crashes and restarts do.           *)
(***************************************************************************)
EXTENDS Reminders, TLAPS

USE DEF Versions, Time, Waiting, Outcomes, Terminal, States, Identity

(* Reconciling keeps the reminders table well formed.                      *)
LEMMA ReconciledType ==
  ASSUME TypeOK,
         NEW rm \in [Reminder -> [version : 0..MaxVersion, state : States,
                                  due : Time]]
  PROVE  Reconciled(rm) \in [Reminder -> [version : 0..MaxVersion,
                                          state : States, due : Time]]
  BY ReminderAssumption DEF Reconciled, TypeOK

(* Closing notifications only shrinks the two sets it works on.            *)
LEMMA CloseNoticesType ==
  ASSUME TypeOK, NEW rm, CloseNotices(rm)
  PROVE  /\ notices' \subseteq [key : Identity, group : SUBSET Identity]
         /\ native' \subseteq SUBSET Identity
  BY DEF CloseNotices, TypeOK

(* What a tick decides for a reminder is a state of the schema.            *)
LEMMA DecidedType ==
  ASSUME NEW rm, NEW rec, NEW r \in Reminder, rm[r].state \in States
  PROVE  Decided(rm, rec, r) \in States
  BY DEF Decided

(* Recording a dispatch result keeps both tables well formed.              *)
LEMMA SettleType ==
  ASSUME TypeOK, NEW g, NEW outcome \in Outcomes, Settle(g, outcome)
  PROVE  /\ reminders' \in [Reminder -> [version : 0..MaxVersion,
                                         state : States, due : Time]]
         /\ occurrences' \in [Reminder -> [Versions -> {"NONE"} \cup Outcomes]]
  BY DEF Settle, TypeOK

(* Counting a native call keeps the history well formed.                   *)
LEMMA CountedType ==
  ASSUME TypeOK, NEW g, Counted(g)
  PROVE  shown' \in [Reminder -> [Versions -> Nat]]
<1> HIDE DEF Versions
<1>1. shown \in [Reminder -> [Versions -> Nat]]
  BY DEF TypeOK
<1>2. \A r \in Reminder, v \in Versions :
        shown[r][v] \in Nat /\ shown[r][v] + 1 \in Nat
  BY <1>1
<1> QED
  BY <1>2, Zenon DEF Counted

(* A dispatched batch is a set of identities.                              *)
LEMMA DispatchableType ==
  ASSUME TypeOK, NEW batch \in batches
  PROVE  /\ Dispatchable(batch) \subseteq batch
         /\ Dispatchable(batch) \in SUBSET Identity
  BY DEF Dispatchable, TypeOK

(* An explicit mutation keeps every variable well typed.                   *)
LEMMA ApplyType ==
  ASSUME TypeOK, NEW r \in Reminder,
         NEW state \in {"SCHEDULED", "CANCELLED", "HANDLED"},
         NEW due \in Time, Apply(r, state, due)
  PROVE  TypeOK'
<1>1. [reminders EXCEPT ![r] = [version |-> NextVersion(r), state |-> state,
                                due |-> due]]
        \in [Reminder -> [version : 0..MaxVersion, state : States, due : Time]]
  BY ReminderAssumption DEF Apply, TypeOK, NextVersion
<1>2. reminders' \in [Reminder -> [version : 0..MaxVersion, state : States,
                                   due : Time]]
  BY <1>1, ReconciledType DEF Apply, Reconcile
<1>3. /\ notices' \subseteq [key : Identity, group : SUBSET Identity]
      /\ native' \subseteq SUBSET Identity
  BY CloseNoticesType DEF Apply, Reconcile
<1> QED
  BY <1>2, <1>3 DEF Apply, TypeOK, process, history, counters

(* What is alive when an item closes is an identity: it has a version.     *)
LEMMA AliveIdentities ==
  ASSUME TypeOK, NEW i \in Item
  PROVE  {IdentityOf(r) : r \in Alive(i)} \subseteq Identity
<1> SUFFICES ASSUME NEW r \in Reminder, r \in Alive(i)
             PROVE  <<r, reminders[r].version>> \in Identity
  BY DEF Alive, IdentityOf
<1>1. reminders[r].version \in 0..MaxVersion
  BY DEF TypeOK
<1>2. reminders[r].version > 0
  BY DEF Alive, Live
<1>3. reminders[r].version \in Versions
  BY <1>1, <1>2, ReminderAssumption DEF Versions
<1> QED BY <1>3 DEF Identity

(* Every step of the scheduler keeps every variable well typed.            *)
LEMMA TypeInductive ==
  ASSUME TypeOK, Numbered, [Next]_vars
  PROVE  TypeOK'
<1> USE ReminderAssumption
<1>1. ASSUME NEW r \in Reminder, Schedule(r) PROVE TypeOK'
  <2>1. PICK due \in Time : Apply(r, "SCHEDULED", due)
    BY <1>1 DEF Schedule
  <2> QED BY <2>1, ApplyType
<1>2. ASSUME NEW r \in Reminder, Resolve(r) PROVE TypeOK'
  <2>1. PICK state \in {"CANCELLED", "HANDLED"} :
          Apply(r, state, reminders[r].due)
    BY <1>2 DEF Resolve
  <2>2. reminders[r].due \in Time
    BY DEF TypeOK
  <2> QED BY <2>1, <2>2, ApplyType
<1>3. ASSUME NEW i \in Item, CloseItem(i) PROVE TypeOK'
  <2>1. reminders' \in [Reminder -> [version : 0..MaxVersion, state : States,
                                     due : Time]]
    BY <1>3 DEF CloseItem, StopReminders, TypeOK
  <2>2. halted' \subseteq Identity
    <3>1. halted' = halted \cup {IdentityOf(r) : r \in Alive(i)}
      BY <1>3 DEF CloseItem, WriteItem
    <3> QED BY <3>1, AliveIdentities DEF TypeOK
  <2> QED
    BY <1>3, <2>1, <2>2 DEF CloseItem, WriteItem, TypeOK, process, counters
<1>4. ASSUME NEW i \in Item, ReopenItem(i) PROVE TypeOK'
  BY <1>4 DEF ReopenItem, WriteItem, TypeOK, process, counters
<1>5. ASSUME NEW i \in Item, DeleteItem(i) PROVE TypeOK'
  <2>1. halted' = halted \cup {IdentityOf(r) : r \in Alive(i)}
    BY <1>5 DEF DeleteItem, WriteItem
  <2>2. halted' \subseteq Identity
    BY <2>1, AliveIdentities DEF TypeOK
  <2> QED BY <1>5, <2>2 DEF DeleteItem, WriteItem, TypeOK, process, counters
<1>6. ASSUME NEW policy \in Policies, Configure(policy) PROVE TypeOK'
  BY <1>6 DEF Configure, TypeOK, Idle, history, counters
<1>7. CASE Query
  BY <1>7, ReconciledType, CloseNoticesType
     DEF Query, Reconcile, TypeOK, process, history, counters
<1>8. ASSUME NEW recovery \in BOOLEAN, Claim(recovery),
             owed' \in {"none", "configure", "recover"}
      PROVE  TypeOK'
  <2> DEFINE rm == Reconciled(reminders)
             rec == Recovering(recovery)
  <2>1. rm \in [Reminder -> [version : 0..MaxVersion, state : States,
                             due : Time]]
    BY ReconciledType DEF TypeOK
  <2>2. reminders' \in [Reminder -> [version : 0..MaxVersion, state : States,
                                     due : Time]]
    <3>1. \A r \in Reminder : Decided(rm, rec, r) \in States
      BY <2>1, DecidedType
    <3> QED BY <1>8, <2>1, <3>1 DEF Claim
  <2>3. occurrences' \in [Reminder -> [Versions -> {"NONE"} \cup Outcomes]]
    BY <1>8 DEF Claim, TypeOK
  <2>4. batches' \subseteq SUBSET Identity
    <3>1. \A r \in Reminder : Claimed(rm, rec, r) =>
            <<r, rm[r].version>> \in Identity
      <4> SUFFICES ASSUME NEW r \in Reminder, Claimed(rm, rec, r)
                   PROVE  rm[r].version \in Versions
        OBVIOUS
      <4>1. rm[r].state \in Waiting /\ rm[r].version \in 0..MaxVersion
        BY <2>1 DEF Claimed, Due
      <4>2. reminders[r].state # "ABSENT" /\ reminders[r].version = rm[r].version
        BY <4>1 DEF Reconciled, Live, TypeOK
      <4> QED BY <4>1, <4>2 DEF Numbered
    <3> QED BY <1>8, <3>1 DEF Claim, Batched
  <2>5. /\ notices' \subseteq [key : Identity, group : SUBSET Identity]
        /\ native' \subseteq SUBSET Identity
    BY <1>8, CloseNoticesType DEF Claim
  <2> QED
    BY <1>8, <2>2, <2>3, <2>4, <2>5 DEF Claim, TypeOK, history, counters
<1>9. CASE \E recovery \in BOOLEAN : Tick(recovery)
  BY <1>8, <1>9 DEF Tick, TypeOK
<1>10. CASE OwedTick
  BY <1>8, <1>10 DEF OwedTick
<1>11. ASSUME NEW batch \in batches, Show(batch) PROVE TypeOK'
  <2> DEFINE g == Dispatchable(batch)
  <2>1. g \in SUBSET Identity
    BY DispatchableType
  <2>2. shown' \in [Reminder -> [Versions -> Nat]]
    BY <1>11, CountedType DEF Show
  <2>3. notices' \subseteq [key : Identity, group : SUBSET Identity]
    BY <1>11, <2>1 DEF Show, TypeOK
  <2> QED
    BY <1>11, <2>1, <2>2, <2>3 DEF Show, Begin, TypeOK
<1>12. ASSUME NEW batch \in batches, ShowThrows(batch) PROVE TypeOK'
  <2>1. Dispatchable(batch) \in SUBSET Identity
    BY DispatchableType
  <2>2. shown' \in [Reminder -> [Versions -> Nat]]
    <3>1. Counted(Dispatchable(batch)) \/ UNCHANGED shown
      BY <1>12 DEF ShowThrows
    <3> QED BY <3>1, CountedType DEF TypeOK
  <2>3. native' \subseteq SUBSET Identity
    BY <1>12, <2>1 DEF ShowThrows, TypeOK
  <2> QED
    BY <1>12, <2>2, <2>3, SettleType DEF ShowThrows, Begin, TypeOK
<1>13. ASSUME NEW batch \in batches, Unsupported(batch) PROVE TypeOK'
  BY <1>13, DispatchableType, SettleType DEF Unsupported, Begin, TypeOK
<1>14. CASE DispatchFault
  <2>1. shown' \in [Reminder -> [Versions -> Nat]]
    <3>1. UNCHANGED shown \/ \E batch \in batches : Counted(Dispatchable(batch))
      BY <1>14 DEF DispatchFault
    <3> QED BY <3>1, CountedType DEF TypeOK
  <2>2. native' \subseteq SUBSET Identity
    BY <1>14, DispatchableType DEF DispatchFault, TypeOK
  <2> QED
    BY <1>14, <2>1, <2>2 DEF DispatchFault, TypeOK
<1>15. ASSUME NEW g \in bound, NativeEvent(g) PROVE TypeOK'
  BY <1>15, SettleType DEF NativeEvent, TypeOK, process, history, counters
<1>16. ASSUME NEW g \in timers, ObservationTimeout(g) PROVE TypeOK'
  BY <1>16, SettleType DEF ObservationTimeout, TypeOK, history, counters
<1>17. CASE Start
  BY <1>17 DEF Start, TypeOK, history, counters
<1>18. CASE Recover
  BY <1>18 DEF Recover, TypeOK, history, counters
<1>19. CASE Stop
  <2>1. stops' \in 0..MaxStops
    BY <1>19 DEF Stop, TypeOK
  <2> QED
    BY <1>19, <2>1 DEF Stop, TypeOK, history
<1>22. CASE TickFault
  <2>1. \/ Reconcile(reminders)
        \/ UNCHANGED <<reminders, notices, native>>
    BY <1>22 DEF TickFault
  <2>2. /\ reminders' \in [Reminder -> [version : 0..MaxVersion,
                                        state : States, due : Time]]
        /\ notices' \subseteq [key : Identity, group : SUBSET Identity]
        /\ native' \subseteq SUBSET Identity
    <3>1. CASE Reconcile(reminders)
      BY <3>1, ReconciledType, CloseNoticesType DEF Reconcile, TypeOK
    <3>2. CASE UNCHANGED <<reminders, notices, native>>
      BY <3>2 DEF TypeOK
    <3> QED BY <2>1, <3>1, <3>2
  <2> QED
    BY <1>22, <2>2 DEF TickFault, TypeOK, history
<1>20. CASE Elapse \/ ClockJump
  <2>1. PICK t \in Time : SetClock(t)
    BY <1>20 DEF Elapse, ClockJump, TypeOK
  <2> QED
    BY <2>1 DEF SetClock, TypeOK, process, history, counters
<1>21. CASE UNCHANGED vars
  BY <1>21 DEF vars, TypeOK, process, history, counters
<1> QED
  BY <1>1, <1>2, <1>3, <1>4, <1>5, <1>6, <1>7, <1>9, <1>10, <1>11, <1>12,
     <1>13, <1>14, <1>15, <1>16, <1>17, <1>18, <1>19, <1>20, <1>21, <1>22
     DEF Next, UserStep, DispatchStep, CallbackStep

-----------------------------------------------------------------------------
(* The part of OccurrenceAgrees that speaks of the two tables alone.       *)
RowsAgree ==
  \A r \in Reminder :
    LET rm == reminders[r] IN
    /\ rm.state \in Waiting \cup {"EXPIRED"} =>
         occurrences[r][rm.version] = "NONE"
    /\ rm.state \in Outcomes => occurrences[r][rm.version] = rm.state

(* The next claim invariant follows from its parts and the tables' agreement.   *)
LEMMA ClaimInvParts ==
  ASSUME TypeOK', Numbered', AtMostOneShow', RowsAgree', FutureUnclaimed',
         ShownIsClaimed', PendingIsClaimed', OneHandler'
  PROVE  ClaimInv'
<1>1. \A r \in Reminder : reminders'[r].state # "ABSENT" =>
                             reminders'[r].version \in Versions
  BY DEF Numbered, TypeOK
<1>2. OccurrenceAgrees'
  BY <1>1 DEF OccurrenceAgrees, RowsAgree, ShownIsClaimed
<1> QED
  BY <1>2 DEF ClaimInv

(* A step that leaves occurrences alone and, for each reminder, changes    *)
(* nothing, cancels it, or gives it a fresh version, while no claim is     *)
(* pending, keeps the invariant.                                           *)
LEMMA MutationKeepsClaims ==
  ASSUME ClaimInv, TypeOK', OneHandler', batches = {}, batches' = {},
         UNCHANGED <<occurrences, shown>>,
         \A r \in Reminder :
           \/ reminders'[r] = reminders[r]
           \/ /\ reminders'[r].version = reminders[r].version
              /\ reminders[r].state # "ABSENT"
              /\ reminders'[r].state = "CANCELLED"
           \/ /\ reminders'[r].version = reminders[r].version + 1
              /\ reminders'[r].state \in {"SCHEDULED", "CANCELLED", "HANDLED"}
  PROVE  ClaimInv'
<1>0. \A r \in Reminder :
        /\ reminders[r].version \in 0..MaxVersion
        /\ reminders'[r].version \in 0..MaxVersion
  BY DEF ClaimInv, TypeOK
<1>1. Numbered'
  <2> SUFFICES ASSUME NEW r \in Reminder
               PROVE  (reminders'[r].version = 0 <=>
                       reminders'[r].state = "ABSENT")
    BY DEF Numbered
  <2> QED BY <1>0, ReminderAssumption DEF ClaimInv, Numbered
<1>2. RowsAgree'
  <2> SUFFICES ASSUME NEW r \in Reminder
               PROVE  /\ reminders'[r].state \in Waiting \cup {"EXPIRED"} =>
                           occurrences[r][reminders'[r].version] = "NONE"
                      /\ reminders'[r].state \in Outcomes =>
                           occurrences[r][reminders'[r].version]
                             = reminders'[r].state
    BY DEF RowsAgree
  <2>1. CASE reminders'[r] = reminders[r]
    BY <2>1 DEF ClaimInv, OccurrenceAgrees
  <2>2. CASE reminders'[r].version = reminders[r].version + 1
    <3>1. /\ reminders'[r].version \in Versions
          /\ reminders'[r].version > reminders[r].version
      BY <1>0, <2>2, ReminderAssumption
    <3>2. occurrences[r][reminders'[r].version] = "NONE"
      BY <3>1 DEF ClaimInv, FutureUnclaimed
    <3> QED BY <1>0, <2>2, <3>2
  <2> QED BY <2>1, <2>2
<1>3. FutureUnclaimed'
  <2> SUFFICES ASSUME NEW r \in Reminder, NEW v \in Versions,
                      v > reminders'[r].version
               PROVE  occurrences[r][v] = "NONE"
    BY DEF FutureUnclaimed
  <2>1. v > reminders[r].version
    BY <1>0, ReminderAssumption
  <2> QED BY <2>1 DEF ClaimInv, FutureUnclaimed
<1>4. AtMostOneShow' /\ ShownIsClaimed' /\ PendingIsClaimed'
  BY DEF ClaimInv, AtMostOneShow, ShownIsClaimed, PendingIsClaimed
<1> QED
  BY <1>1, <1>2, <1>3, <1>4, ClaimInvParts

(* A step that writes one outcome into both tables, for reminders that     *)
(* already have an outcome, keeps them in agreement.                       *)
LEMMA OutcomeKeepsRows ==
  ASSUME ClaimInv, TypeOK', NEW S \in SUBSET Reminder, NEW outcome \in Outcomes,
         \A r \in S : reminders[r].state \in Outcomes,
         reminders' = [r \in Reminder |->
                         IF r \in S THEN [reminders[r] EXCEPT !.state = outcome]
                                    ELSE reminders[r]],
         occurrences' = [r \in Reminder |-> [v \in Versions |->
                           IF r \in S /\ v = reminders[r].version
                           THEN outcome ELSE occurrences[r][v]]]
  PROVE  /\ Numbered' /\ RowsAgree' /\ FutureUnclaimed'
         /\ \A r \in Reminder, v \in Versions :
              occurrences'[r][v] = "NONE" => occurrences[r][v] = "NONE"
<1>1. \A r \in Reminder :
        /\ reminders'[r].version = reminders[r].version
        /\ reminders'[r].state = IF r \in S THEN outcome ELSE reminders[r].state
        /\ \A v \in Versions :
             occurrences'[r][v] = IF r \in S /\ v = reminders[r].version
                                  THEN outcome ELSE occurrences[r][v]
  BY DEF ClaimInv, TypeOK
<1>2. Numbered'
  BY <1>1 DEF ClaimInv, Numbered
<1>3. \A r \in Reminder : reminders[r].state # "ABSENT" =>
                             reminders[r].version \in Versions
  BY DEF ClaimInv, Numbered, TypeOK
<1>4. RowsAgree'
  BY <1>1, <1>3 DEF ClaimInv, OccurrenceAgrees, RowsAgree
<1>5. FutureUnclaimed'
  BY <1>1 DEF ClaimInv, FutureUnclaimed, TypeOK
<1> QED
  BY <1>1, <1>2, <1>4, <1>5

(* Settling keeps the tables in agreement, never forgets an occurrence and *)
(* touches nothing but the state of members of the group.                  *)
LEMMA SettleKeepsRows ==
  ASSUME ClaimInv, TypeOK', NEW g, NEW outcome \in Outcomes, Settle(g, outcome)
  PROVE  /\ Numbered' /\ RowsAgree' /\ FutureUnclaimed'
         /\ \A r \in Reminder, v \in Versions :
              occurrences'[r][v] = "NONE" => occurrences[r][v] = "NONE"
         /\ \A r \in Reminder :
              /\ reminders'[r].version = reminders[r].version
              /\ IdentityOf(r) \notin g => reminders'[r] = reminders[r]
<1> DEFINE S == {r \in Reminder : Settles(g, outcome, r)}
<1>1. \A r \in S : reminders[r].state \in Outcomes
  BY DEF Settles
<1>2. /\ reminders' = [r \in Reminder |->
                         IF r \in S THEN [reminders[r] EXCEPT !.state = outcome]
                                    ELSE reminders[r]]
      /\ occurrences' = [r \in Reminder |-> [v \in Versions |->
                           IF r \in S /\ v = reminders[r].version
                           THEN outcome ELSE occurrences[r][v]]]
  BY Zenon DEF Settle
<1>3. S \in SUBSET Reminder /\ \A r \in S : IdentityOf(r) \in g
  BY DEF Settles
<1> HIDE DEF S
<1>4. \A r \in Reminder :
        /\ reminders'[r].version = reminders[r].version
        /\ r \notin S => reminders'[r] = reminders[r]
  BY <1>2 DEF ClaimInv, TypeOK
<1> QED
  BY <1>1, <1>2, <1>3, <1>4, OutcomeKeepsRows

(* Recording a native result while no claim is pending keeps the           *)
(* invariant: late, repeated and contradictory callbacks included.         *)
LEMMA CallbackKeepsClaims ==
  ASSUME ClaimInv, TypeOK', OneHandler', NEW g, NEW outcome \in Outcomes,
         Settle(g, outcome), batches = {}, UNCHANGED <<batches, shown>>
  PROVE  ClaimInv'
<1>1. /\ Numbered' /\ RowsAgree' /\ FutureUnclaimed'
      /\ \A r \in Reminder, v \in Versions :
           occurrences'[r][v] = "NONE" => occurrences[r][v] = "NONE"
  BY SettleKeepsRows
<1>2. AtMostOneShow' /\ ShownIsClaimed' /\ PendingIsClaimed'
  BY <1>1 DEF ClaimInv, AtMostOneShow, ShownIsClaimed, PendingIsClaimed
<1> QED
  BY <1>1, <1>2, ClaimInvParts DEF ClaimInv

(* Dispatching one pending batch: g is what is left of it after the second *)
(* filter, and its reminders are all claimed and unshown.                  *)
LEMMA DispatchedIsClaimed ==
  ASSUME ClaimInv, NEW batch \in batches, NEW k \in Dispatchable(batch)
  PROVE  /\ k[1] \in Reminder /\ k[2] \in Versions /\ k = <<k[1], k[2]>>
         /\ reminders[k[1]].version = k[2]
         /\ reminders[k[1]].state = "DISPATCHING"
         /\ occurrences[k[1]][k[2]] = "DISPATCHING"
         /\ shown[k[1]][k[2]] = 0
<1>1. k \in batch /\ k \in Identity
  BY DispatchableType DEF ClaimInv
<1>2. /\ Current(reminders, k) /\ reminders[k[1]].state = "DISPATCHING"
      /\ shown[k[1]][k[2]] = 0
  BY <1>1 DEF ClaimInv, PendingIsClaimed
<1> QED
  BY <1>1, <1>2 DEF ClaimInv, OccurrenceAgrees, Current

(* Counting a dispatched batch shows each of its members once, and leaves  *)
(* the members of the other batches unshown.                               *)
LEMMA CountedOnce ==
  ASSUME ClaimInv, NEW batch \in batches, Counted(Dispatchable(batch))
  PROVE  /\ \A r \in Reminder, v \in Versions :
              /\ shown'[r][v] <= 1
              /\ occurrences[r][v] = "NONE" => shown'[r][v] = 0
         /\ \A other \in batches : \A k \in other :
              other # batch => shown'[k[1]][k[2]] = 0
<1> DEFINE g == Dispatchable(batch)
<1>1. \A r \in Reminder, v \in Versions :
        shown'[r][v] = IF <<r, v>> \in g THEN shown[r][v] + 1 ELSE shown[r][v]
  BY Zenon DEF Counted
<1>2. \A r \in Reminder, v \in Versions :
        /\ shown[r][v] <= 1
        /\ occurrences[r][v] = "NONE" => shown[r][v] = 0
        /\ <<r, v>> \in g => shown[r][v] = 0 /\ occurrences[r][v] # "NONE"
  <2> SUFFICES ASSUME NEW r \in Reminder, NEW v \in Versions, <<r, v>> \in g
               PROVE  shown[r][v] = 0 /\ occurrences[r][v] # "NONE"
    BY DEF ClaimInv, AtMostOneShow, ShownIsClaimed
  <2> QED BY DispatchedIsClaimed
<1>3. \A other \in batches : \A k \in other :
        other # batch => k \notin g /\ shown[k[1]][k[2]] = 0
  BY DispatchableType DEF ClaimInv, PendingIsClaimed
<1>4. \A other \in batches : \A k \in other :
        k[1] \in Reminder /\ k[2] \in Versions /\ k = <<k[1], k[2]>>
  BY DEF ClaimInv, TypeOK
<1> HIDE DEF g
<1> HIDE DEF Versions
<1>5. ASSUME NEW r \in Reminder, NEW v \in Versions
      PROVE  /\ shown'[r][v] <= 1
             /\ occurrences[r][v] = "NONE" => shown'[r][v] = 0
  <2>1. CASE <<r, v>> \in g
    <3>1. shown[r][v] = 0 /\ occurrences[r][v] # "NONE"
      BY <1>2, <2>1
    <3>2. shown'[r][v] = shown[r][v] + 1
      BY <1>1, <2>1, Zenon
    <3>3. shown'[r][v] = 1
      BY <3>1, <3>2
    <3> QED BY <3>1, <3>3
  <2>2. CASE <<r, v>> \notin g
    <3>1. shown'[r][v] = shown[r][v]
      BY <1>1, <2>2, Zenon
    <3> QED BY <1>2, <3>1
  <2> QED BY <2>1, <2>2
<1>6. ASSUME NEW other \in batches, NEW k \in other, other # batch
      PROVE  shown'[k[1]][k[2]] = 0
  <2>1. <<k[1], k[2]>> \notin g
    BY <1>3, <1>4, <1>6
  <2>2. shown[k[1]][k[2]] = 0
    BY <1>3, <1>6
  <2> QED BY <1>1, <1>4, <1>6, <2>1, <2>2
<1> QED
  BY <1>5, <1>6

(* Showing a batch, or failing to, keeps the invariant.                    *)
LEMMA DispatchKeepsClaims ==
  ASSUME ClaimInv, TypeOK', OneHandler', NEW batch \in batches,
         Show(batch) \/ ShowThrows(batch) \/ Unsupported(batch)
  PROVE  ClaimInv'
<1> DEFINE g == Dispatchable(batch)
<1>1. batches' = batches \ {batch}
  BY DEF Show, ShowThrows, Unsupported, Begin
<1>2. \/ UNCHANGED <<reminders, occurrences>>
      \/ \E outcome \in Outcomes : Settle(g, outcome)
  BY DEF Show, ShowThrows, Unsupported
<1>3. Counted(g) \/ UNCHANGED shown
  BY DEF Show, ShowThrows, Unsupported
<1>4. /\ Numbered' /\ RowsAgree' /\ FutureUnclaimed'
      /\ \A r \in Reminder, v \in Versions :
           occurrences'[r][v] = "NONE" => occurrences[r][v] = "NONE"
      /\ \A r \in Reminder :
           /\ reminders'[r].version = reminders[r].version
           /\ IdentityOf(r) \notin g => reminders'[r] = reminders[r]
  <2>1. CASE UNCHANGED <<reminders, occurrences>>
    BY <2>1 DEF ClaimInv, Numbered, RowsAgree, OccurrenceAgrees, FutureUnclaimed
  <2>2. CASE \E outcome \in Outcomes : Settle(g, outcome)
    BY <2>2, SettleKeepsRows
  <2> QED BY <1>2, <2>1, <2>2
<1>5. AtMostOneShow' /\ ShownIsClaimed'
  <2>1. CASE Counted(g)
    BY <1>4, <2>1, CountedOnce DEF AtMostOneShow, ShownIsClaimed
  <2>2. CASE UNCHANGED shown
    BY <1>4, <2>2 DEF ClaimInv, AtMostOneShow, ShownIsClaimed
  <2> QED BY <1>3, <2>1, <2>2
<1>6. PendingIsClaimed'
  <2> SUFFICES ASSUME NEW other \in batches', NEW k \in other
               PROVE  /\ Current(reminders', k)
                      /\ reminders'[k[1]].state = "DISPATCHING"
                      /\ shown'[k[1]][k[2]] = 0
                      /\ \A third \in batches' : k \in third => third = other
    BY DEF PendingIsClaimed, Current
  <2>1. other \in batches /\ other # batch
    BY <1>1
  <2>2. /\ k \in Identity /\ k[1] \in Reminder /\ k = <<k[1], k[2]>>
        /\ Current(reminders, k) /\ reminders[k[1]].state = "DISPATCHING"
        /\ shown[k[1]][k[2]] = 0
        /\ \A third \in batches : k \in third => third = other
    BY <2>1 DEF ClaimInv, TypeOK, PendingIsClaimed
  <2>3. IdentityOf(k[1]) = k /\ k \notin g
    BY <2>1, <2>2, DispatchableType DEF ClaimInv, Current, IdentityOf
  <2>4. reminders'[k[1]] = reminders[k[1]]
    BY <1>4, <2>2, <2>3
  <2>5. shown'[k[1]][k[2]] = 0
    BY <1>3, <2>1, <2>2, CountedOnce
  <2> QED
    BY <1>1, <2>1, <2>2, <2>4, <2>5 DEF Current
<1> QED
  BY <1>1, <1>4, <1>5, <1>6, ClaimInvParts DEF ClaimInv

(* A tick that claims keeps the invariant: what it claims had no           *)
(* occurrence, hence was never shown, and lands in exactly one batch.      *)
LEMMA TickKeepsClaims ==
  ASSUME ClaimInv, TypeOK', OneHandler', NEW recovery \in BOOLEAN,
         Claim(recovery), batches = {}
  PROVE  ClaimInv'
<1> DEFINE rm == Reconciled(reminders)
           rec == Recovering(recovery)
           claimed == {r \in Reminder : Claimed(rm, rec, r)}
           identities == {<<r, rm[r].version>> : r \in claimed}
<1>1. ASSUME NEW r \in Reminder
      PROVE  /\ rm[r].version = reminders[r].version
             /\ \/ rm[r] = reminders[r]
                \/ rm[r].state = "CANCELLED" /\ reminders[r].state # "ABSENT"
  <2>1. CASE Live(reminders, r) /\ ~Valid(r)
    <3>1. rm[r] = [reminders[r] EXCEPT !.state = "CANCELLED"]
      BY <2>1 DEF Reconciled
    <3>2. reminders[r].version > 0
      BY <2>1 DEF Live
    <3>3. reminders[r].state # "ABSENT"
      BY <3>2 DEF ClaimInv, Numbered
    <3> QED BY <3>1, <3>3 DEF ClaimInv, TypeOK
  <2>2. CASE ~(Live(reminders, r) /\ ~Valid(r))
    BY <2>2 DEF Reconciled
  <2> QED BY <2>1, <2>2
<1>2. \A r \in Reminder :
        /\ reminders'[r].version = reminders[r].version
        /\ reminders'[r].state = Decided(rm, rec, r)
  <2>1. rm \in [Reminder -> [version : 0..MaxVersion, state : States,
                             due : Time]]
    BY ReconciledType DEF ClaimInv, TypeOK
  <2>2. reminders' = [r \in Reminder |->
                        [rm[r] EXCEPT !.state = Decided(rm, rec, r)]]
    BY Zenon DEF Claim
  <2> HIDE DEF rm, rec
  <2> QED BY <1>1, <2>1, <2>2
<1>3. \A r \in Reminder : Decided(rm, rec, r) # rm[r].state =>
        rm[r].state \in Waiting
  BY DEF Decided, Held, Lapsed, Claimed, Missed, Due
<1>4. \A r \in Reminder :
        /\ Decided(rm, rec, r) = "DISPATCHING" =>
             r \in claimed \/ rm[r].state = "DISPATCHING"
        /\ Decided(rm, rec, r) \in Waiting \cup {"EXPIRED"} =>
             rm[r].state \in Waiting \cup {"EXPIRED"}
        /\ Decided(rm, rec, r) \in Outcomes \ {"DISPATCHING"} =>
             Decided(rm, rec, r) = rm[r].state
        /\ (rm[r].state = "ABSENT") <=> (Decided(rm, rec, r) = "ABSENT")
  BY <1>3 DEF Decided
<1>5. ASSUME NEW r \in claimed
      PROVE  /\ Decided(rm, rec, r) = "DISPATCHING"
             /\ occurrences[r][reminders[r].version] = "NONE"
             /\ rm[r].state \in Waiting /\ rm[r] = reminders[r]
             /\ reminders[r].version \in Versions
  <2>1. /\ ~Held(rm, rec, r) /\ ~Lapsed(rm, rec, r)
        /\ rm[r].state \in Waiting
        /\ occurrences[r][rm[r].version] = "NONE"
    BY DEF Claimed, Due
  <2>2. rm[r] = reminders[r]
    BY <1>1, <2>1
  <2>3. Decided(rm, rec, r) = "DISPATCHING"
    BY <2>1 DEF Decided
  <2>4. reminders[r].version \in Versions
    BY <2>1, <2>2 DEF ClaimInv, Numbered, TypeOK
  <2> QED BY <2>1, <2>2, <2>3, <2>4
<1>6. /\ \A r \in Reminder, v \in Versions :
             occurrences'[r][v] = IF r \in claimed /\ v = reminders[r].version
                                  THEN "DISPATCHING" ELSE occurrences[r][v]
      /\ batches' = Batched(identities) /\ UNCHANGED shown
  <2>1. /\ occurrences' = [r \in Reminder |-> [v \in Versions |->
                             IF r \in claimed /\ v = rm[r].version
                             THEN "DISPATCHING" ELSE occurrences[r][v]]]
        /\ batches' = Batched(identities) /\ UNCHANGED shown
    BY Zenon DEF Claim, history
  <2> HIDE DEF rm, claimed, identities
  <2> QED BY <1>1, <2>1
<1>7. identities = {<<r, reminders[r].version>> : r \in claimed}
  BY <1>1
<1> HIDE DEF rm, rec, claimed, identities
<1>8. claimed \subseteq Reminder
  BY DEF claimed
<1>9. \A r \in Reminder : reminders[r].state # "ABSENT" =>
                             reminders[r].version \in Versions
  BY DEF ClaimInv, Numbered, TypeOK
<1>10. Numbered'
  <2> SUFFICES ASSUME NEW r \in Reminder
               PROVE  (reminders'[r].version = 0 <=>
                       reminders'[r].state = "ABSENT")
    BY DEF Numbered
  <2>1. rm[r].state = "ABSENT" <=> reminders[r].state = "ABSENT"
    BY <1>1
  <2> QED BY <1>2, <1>4, <2>1 DEF ClaimInv, Numbered
<1>11. RowsAgree'
  <2> SUFFICES ASSUME NEW r \in Reminder
               PROVE  /\ reminders'[r].state \in Waiting \cup {"EXPIRED"} =>
                           occurrences'[r][reminders'[r].version] = "NONE"
                      /\ reminders'[r].state \in Outcomes =>
                           occurrences'[r][reminders'[r].version]
                             = reminders'[r].state
    BY DEF RowsAgree
  <2>1. CASE r \in claimed
    BY <1>2, <1>5, <1>6, <2>1
  <2>2. CASE r \notin claimed
    <3>1. \A v \in Versions : occurrences'[r][v] = occurrences[r][v]
      BY <1>6, <2>2
    <3>2. /\ reminders[r].state \in Waiting \cup {"EXPIRED"} =>
               occurrences[r][reminders[r].version] = "NONE"
          /\ reminders[r].state \in Outcomes =>
               occurrences[r][reminders[r].version] = reminders[r].state
      BY DEF ClaimInv, OccurrenceAgrees
    <3>3. CASE reminders'[r].state \in Waiting \cup {"EXPIRED"}
      <4>1. rm[r].state \in Waiting \cup {"EXPIRED"} /\ rm[r] = reminders[r]
        BY <1>1, <1>2, <1>4, <3>3
      <4> QED BY <1>2, <1>9, <3>1, <3>2, <3>3, <4>1
    <3>4. CASE reminders'[r].state \in Outcomes
      <4>1. rm[r].state = reminders'[r].state
        BY <1>2, <1>4, <2>2, <3>4
      <4>2. rm[r] = reminders[r]
        BY <1>1, <3>4, <4>1
      <4> QED BY <1>2, <1>9, <3>1, <3>2, <3>4, <4>1, <4>2
    <3> QED BY <3>3, <3>4
  <2> QED BY <2>1, <2>2
<1>12. FutureUnclaimed'
  <2> SUFFICES ASSUME NEW r \in Reminder, NEW v \in Versions,
                      v > reminders'[r].version
               PROVE  occurrences'[r][v] = "NONE"
    BY DEF FutureUnclaimed
  <2>1. v > reminders[r].version /\ v # reminders[r].version
    BY <1>2 DEF ClaimInv, TypeOK
  <2> QED BY <1>6, <2>1 DEF ClaimInv, FutureUnclaimed
<1>13. AtMostOneShow' /\ ShownIsClaimed'
  BY <1>6 DEF ClaimInv, AtMostOneShow, ShownIsClaimed
<1>14. PendingIsClaimed'
  <2>1. /\ \A batch \in batches' : batch \subseteq identities
        /\ \A batch, other \in batches' : \A k \in batch :
             k \in other => other = batch
    <3>1. \/ batches' = {identities} \ {{}}
          \/ batches' = {{k} : k \in identities}
      BY <1>6 DEF Batched
    <3> QED BY <3>1
  <2>2. ASSUME NEW k \in identities
        PROVE  /\ reminders'[k[1]].version = k[2]
               /\ reminders'[k[1]].state = "DISPATCHING"
               /\ shown'[k[1]][k[2]] = 0
    <3>1. PICK r \in claimed : k = <<r, reminders[r].version>>
      BY <1>7
    <3>2. /\ reminders[r].version \in Versions
          /\ occurrences[r][reminders[r].version] = "NONE"
          /\ Decided(rm, rec, r) = "DISPATCHING"
      BY <1>5
    <3>3. shown[r][reminders[r].version] = 0
      BY <1>8, <3>2 DEF ClaimInv, ShownIsClaimed
    <3> QED BY <1>2, <1>6, <1>8, <3>1, <3>2, <3>3
  <2> QED BY <2>1, <2>2 DEF PendingIsClaimed, Current
<1> QED
  BY <1>10, <1>11, <1>12, <1>13, <1>14, ClaimInvParts

(* Only one handler is ever half way through its work.                     *)
LEMMA OneHandlerInductive ==
  ASSUME TypeOK, OneHandler, [Next]_vars
  PROVE  OneHandler'
<1>1. ASSUME NEW r \in Reminder, Schedule(r) \/ Resolve(r) PROVE OneHandler'
  BY <1>1 DEF Schedule, Resolve, Apply, OneHandler, process
<1>2. ASSUME NEW i \in Item, CloseItem(i) \/ ReopenItem(i) \/ DeleteItem(i)
      PROVE  OneHandler'
  BY <1>2 DEF CloseItem, ReopenItem, DeleteItem, WriteItem, OneHandler, process
<1>3. ASSUME NEW policy \in Policies, Configure(policy) PROVE OneHandler'
  BY <1>3 DEF Configure, OneHandler, Idle, Up
<1>4. CASE Query \/ Start \/ Recover \/ Stop \/ DispatchFault \/ TickFault
  BY <1>4 DEF Query, Start, Recover, Stop, DispatchFault, TickFault, Idle, Up,
              OneHandler, process
<1>5. CASE OwedTick \/ \E recovery \in BOOLEAN : Tick(recovery)
  BY <1>5 DEF OwedTick, Tick, Claim, Idle, Up, OneHandler
<1>6. ASSUME NEW batch \in batches,
             Show(batch) \/ ShowThrows(batch) \/ Unsupported(batch)
      PROVE  OneHandler'
  BY <1>6 DEF Show, ShowThrows, Unsupported, Begin, OneHandler
<1>7. CASE CallbackStep
  BY <1>7 DEF CallbackStep, NativeEvent, ObservationTimeout, OneHandler, process
<1>8. CASE Elapse \/ ClockJump \/ UNCHANGED vars
  BY <1>8 DEF Elapse, ClockJump, SetClock, OneHandler, process, vars
<1> QED
  BY <1>1, <1>2, <1>3, <1>4, <1>5, <1>6, <1>7, <1>8
     DEF Next, UserStep, DispatchStep

(* A step that touches neither table nor a pending claim keeps the         *)
(* invariant.                                                              *)
LEMMA StutterKeepsClaims ==
  ASSUME ClaimInv, TypeOK', OneHandler',
         UNCHANGED <<reminders, occurrences, shown>>, batches' \subseteq batches
  PROVE  ClaimInv'
<1>1. Numbered' /\ RowsAgree' /\ FutureUnclaimed'
  BY DEF ClaimInv, Numbered, RowsAgree, OccurrenceAgrees, FutureUnclaimed
<1>2. AtMostOneShow' /\ ShownIsClaimed' /\ PendingIsClaimed'
  BY DEF ClaimInv, AtMostOneShow, ShownIsClaimed, PendingIsClaimed
<1> QED
  BY <1>1, <1>2, ClaimInvParts

(* What reconciling does to one reminder.                                  *)
LEMMA ReconciledStep ==
  ASSUME NEW rm, NEW r \in Reminder,
         rm[r] \in [version : 0..MaxVersion, state : States, due : Time],
         rm[r].version = 0 <=> rm[r].state = "ABSENT"
  PROVE  \/ Reconciled(rm)[r] = rm[r]
         \/ /\ Reconciled(rm)[r].version = rm[r].version
            /\ rm[r].state # "ABSENT"
            /\ Reconciled(rm)[r].state = "CANCELLED"
<1>1. CASE Live(rm, r) /\ ~Valid(r)
  <2>1. Reconciled(rm)[r] = [rm[r] EXCEPT !.state = "CANCELLED"]
    BY <1>1 DEF Reconciled
  <2>2. rm[r].version # 0
    BY <1>1 DEF Live
  <2> QED BY <2>1, <2>2
<1>2. CASE ~(Live(rm, r) /\ ~Valid(r))
  BY <1>2 DEF Reconciled
<1> QED BY <1>1, <1>2

(* An explicit mutation keeps the claim invariant.                         *)
LEMMA ApplyKeepsClaims ==
  ASSUME ClaimInv, TypeOK', OneHandler', NEW r \in Reminder,
         NEW state \in {"SCHEDULED", "CANCELLED", "HANDLED"},
         NEW due \in Time, Apply(r, state, due)
  PROVE  ClaimInv'
<1> DEFINE rm == [reminders EXCEPT ![r] = [version |-> NextVersion(r),
                                           state |-> state, due |-> due]]
<1>1. reminders' = Reconciled(rm)
  BY DEF Apply, Reconcile
<1>2. /\ rm[r] = [version |-> reminders[r].version + 1, state |-> state,
                  due |-> due]
      /\ \A q \in Reminder : q # r => rm[q] = reminders[q]
  BY DEF NextVersion, ClaimInv, TypeOK
<1>3. /\ reminders[r].version \in Nat
      /\ reminders[r].version + 1 \in 1..MaxVersion
  BY ReminderAssumption DEF Apply, NextVersion, ClaimInv, TypeOK
<1> HIDE DEF rm
<1>4. \A q \in Reminder :
        /\ rm[q] \in [version : 0..MaxVersion, state : States, due : Time]
        /\ rm[q].version = 0 <=> rm[q].state = "ABSENT"
  <2>1. rm[r] \in [version : 0..MaxVersion, state : States, due : Time]
    BY <1>2, <1>3, ReminderAssumption
  <2>2. rm[r].version # 0 /\ rm[r].state # "ABSENT"
    BY <1>2, <1>3
  <2>3. \A q \in Reminder :
          /\ reminders[q] \in [version : 0..MaxVersion, state : States,
                               due : Time]
          /\ reminders[q].version = 0 <=> reminders[q].state = "ABSENT"
    BY DEF ClaimInv, TypeOK, Numbered
  <2> QED BY <1>2, <2>1, <2>2, <2>3
<1>5. ASSUME NEW q \in Reminder
      PROVE  \/ reminders'[q] = reminders[q]
             \/ /\ reminders'[q].version = reminders[q].version
                /\ reminders[q].state # "ABSENT"
                /\ reminders'[q].state = "CANCELLED"
             \/ /\ reminders'[q].version = reminders[q].version + 1
                /\ reminders'[q].state \in {"SCHEDULED", "CANCELLED", "HANDLED"}
  <2>1. \/ reminders'[q] = rm[q]
        \/ /\ reminders'[q].version = rm[q].version
           /\ rm[q].state # "ABSENT"
           /\ reminders'[q].state = "CANCELLED"
    BY <1>1, <1>4, ReconciledStep
  <2> QED BY <1>2, <2>1
<1> QED
  BY <1>5, MutationKeepsClaims DEF Apply, process, history, Idle

(* Every step of the scheduler keeps the claim invariant.                  *)
LEMMA ClaimInvInductive ==
  ASSUME ClaimInv, [Next]_vars
  PROVE  ClaimInv'
<1>1. TypeOK' /\ OneHandler'
  BY TypeInductive, OneHandlerInductive DEF ClaimInv
<1>2. ASSUME NEW r \in Reminder, Schedule(r) PROVE ClaimInv'
  BY <1>1, <1>2, ApplyKeepsClaims DEF Schedule
<1>3. ASSUME NEW r \in Reminder, Resolve(r) PROVE ClaimInv'
  <2>1. reminders[r].due \in Time
    BY DEF ClaimInv, TypeOK
  <2> QED BY <1>1, <1>3, <2>1, ApplyKeepsClaims DEF Resolve
<1>4. ASSUME NEW i \in Item, CloseItem(i) PROVE ClaimInv'
  <2>1. ASSUME NEW r \in Reminder
        PROVE  \/ reminders'[r] = reminders[r]
               \/ /\ reminders'[r].version = reminders[r].version
                  /\ reminders[r].state # "ABSENT"
                  /\ reminders'[r].state = "CANCELLED"
    <3>1. reminders'[r] = IF r \in Alive(i)
                          THEN [reminders[r] EXCEPT !.state = "CANCELLED"]
                          ELSE reminders[r]
      BY <1>4, Zenon DEF CloseItem, StopReminders
    <3>2. r \in Alive(i) => reminders[r].state # "ABSENT"
      BY DEF Alive, Live, ClaimInv, Numbered
    <3>3. reminders[r] \in [version : 0..MaxVersion, state : States, due : Time]
      BY DEF ClaimInv, TypeOK
    <3> QED BY <3>1, <3>2, <3>3
  <2> QED
    BY <1>1, <1>4, <2>1, MutationKeepsClaims
       DEF CloseItem, WriteItem, Idle, process
<1>5. ASSUME NEW i \in Item, ReopenItem(i) \/ DeleteItem(i) PROVE ClaimInv'
  BY <1>1, <1>5, StutterKeepsClaims
     DEF ReopenItem, DeleteItem, WriteItem, process
<1>6. ASSUME NEW policy \in Policies, Configure(policy) PROVE ClaimInv'
  BY <1>1, <1>6, StutterKeepsClaims DEF Configure, history
<1>7. CASE Query
  <2>1. \A r \in Reminder :
          /\ reminders[r] \in [version : 0..MaxVersion, state : States,
                               due : Time]
          /\ reminders[r].version = 0 <=> reminders[r].state = "ABSENT"
    BY DEF ClaimInv, TypeOK, Numbered
  <2>2. \A r \in Reminder :
          \/ reminders'[r] = reminders[r]
          \/ /\ reminders'[r].version = reminders[r].version
             /\ reminders[r].state # "ABSENT"
             /\ reminders'[r].state = "CANCELLED"
    BY <1>7, <2>1, ReconciledStep DEF Query, Reconcile
  <2> QED
    BY <1>1, <1>7, <2>2, MutationKeepsClaims DEF Query, Idle, process, history
<1>8. ASSUME NEW recovery \in BOOLEAN, Tick(recovery) PROVE ClaimInv'
  BY <1>1, <1>8, TickKeepsClaims DEF Tick, Idle
<1>9. CASE OwedTick
  BY <1>1, <1>9, TickKeepsClaims DEF OwedTick, ClaimInv, OneHandler
<1>10. CASE DispatchStep
  BY <1>1, <1>10, DispatchKeepsClaims DEF DispatchStep
<1>11. CASE DispatchFault
  <2>1. CASE UNCHANGED shown
    BY <1>1, <1>11, <2>1, StutterKeepsClaims DEF DispatchFault
  <2>2. CASE \E batch \in batches : Counted(Dispatchable(batch))
    <3>1. Numbered' /\ RowsAgree' /\ FutureUnclaimed'
      BY <1>11 DEF DispatchFault, ClaimInv, Numbered, RowsAgree,
                   OccurrenceAgrees, FutureUnclaimed
    <3>2. AtMostOneShow' /\ ShownIsClaimed'
      BY <1>11, <2>2, CountedOnce DEF DispatchFault, AtMostOneShow, ShownIsClaimed
    <3>3. PendingIsClaimed'
      BY <1>11 DEF DispatchFault, PendingIsClaimed
    <3> QED BY <1>1, <3>1, <3>2, <3>3, ClaimInvParts
  <2> QED BY <1>11, <2>1, <2>2 DEF DispatchFault
<1>18. CASE TickFault
  <2>1. batches = {} /\ batches' = {}
    BY <1>18 DEF TickFault, Idle, ClaimInv, OneHandler
  <2>2. CASE UNCHANGED reminders
    BY <1>1, <1>18, <2>1, <2>2, StutterKeepsClaims DEF TickFault, history
  <2>3. CASE Reconcile(reminders)
    <3>1. \A r \in Reminder :
            /\ reminders[r] \in [version : 0..MaxVersion, state : States,
                                 due : Time]
            /\ reminders[r].version = 0 <=> reminders[r].state = "ABSENT"
      BY DEF ClaimInv, TypeOK, Numbered
    <3>2. \A r \in Reminder :
            \/ reminders'[r] = reminders[r]
            \/ /\ reminders'[r].version = reminders[r].version
               /\ reminders[r].state # "ABSENT"
               /\ reminders'[r].state = "CANCELLED"
      BY <2>3, <3>1, ReconciledStep DEF Reconcile
    <3> QED
      BY <1>1, <1>18, <2>1, <3>2, MutationKeepsClaims DEF TickFault, history
  <2> QED BY <1>18, <2>2, <2>3 DEF TickFault
<1>12. ASSUME NEW g \in bound, NativeEvent(g) PROVE ClaimInv'
  BY <1>1, <1>12, CallbackKeepsClaims DEF NativeEvent, Idle, process, history
<1>13. ASSUME NEW g \in timers, ObservationTimeout(g) PROVE ClaimInv'
  BY <1>1, <1>13, CallbackKeepsClaims DEF ObservationTimeout, Idle, history
<1>14. CASE Recover
  <2> DEFINE S == {r \in Reminder : Interrupted(r)}
  <2>1. /\ reminders' = [r \in Reminder |->
                  IF r \in S THEN [reminders[r] EXCEPT !.state = "RESULT_UNKNOWN"]
                             ELSE reminders[r]]
        /\ occurrences' = [r \in Reminder |-> [v \in Versions |->
                             IF r \in S /\ v = reminders[r].version
                             THEN "RESULT_UNKNOWN" ELSE occurrences[r][v]]]
    BY <1>14, Zenon DEF Recover
  <2>2. \A r \in S : reminders[r].state \in Outcomes
    BY DEF Interrupted
  <2>3. S \in SUBSET Reminder
    OBVIOUS
  <2> HIDE DEF S
  <2>4. /\ Numbered' /\ RowsAgree' /\ FutureUnclaimed'
        /\ \A r \in Reminder, v \in Versions :
             occurrences'[r][v] = "NONE" => occurrences[r][v] = "NONE"
    BY <1>1, <2>1, <2>2, <2>3, OutcomeKeepsRows
  <2>5. batches' = {} /\ UNCHANGED shown
    BY <1>14 DEF Recover, Idle, history
  <2>6. AtMostOneShow' /\ ShownIsClaimed' /\ PendingIsClaimed'
    BY <2>4, <2>5 DEF ClaimInv, AtMostOneShow, ShownIsClaimed, PendingIsClaimed
  <2> QED BY <1>1, <2>4, <2>6, ClaimInvParts
<1>15. CASE Start
  BY <1>1, <1>15, StutterKeepsClaims DEF Start, history
<1>16. CASE Stop
  BY <1>1, <1>16, StutterKeepsClaims DEF Stop, history
<1>17. CASE Elapse \/ ClockJump \/ UNCHANGED vars
  BY <1>1, <1>17, StutterKeepsClaims
     DEF Elapse, ClockJump, SetClock, process, history, vars
<1> QED
  BY <1>2, <1>3, <1>4, <1>5, <1>6, <1>7, <1>8, <1>9, <1>10, <1>11, <1>12,
     <1>13, <1>14, <1>15, <1>16, <1>17, <1>18
     DEF Next, UserStep, CallbackStep

(* The fresh installation satisfies the claim invariant.                   *)
LEMMA ClaimInvInit == Init => ClaimInv
<1> SUFFICES ASSUME Init PROVE ClaimInv
  OBVIOUS
<1> USE ReminderAssumption
<1>1. TypeOK
  <2>1. /\ item \in [Item -> {"open", "closed", "gone"}]
        /\ reminders \in [Reminder -> [version : 0..MaxVersion, state : States,
                                       due : Time]]
        /\ occurrences \in [Reminder -> [Versions -> {"NONE"} \cup Outcomes]]
        /\ shown \in [Reminder -> [Versions -> Nat]]
    BY DEF Init, NoReminder
  <2>2. settings \in [version : 0..MaxSettings, policy : Policy]
    BY DEF Init, Policy
  <2>3. now \in Time /\ stops \in 0..MaxStops /\ faults \in 0..MaxFaults
    BY DEF Init
  <2> QED BY <2>1, <2>2, <2>3 DEF Init, TypeOK
<1>2. Numbered /\ OneHandler /\ OccurrenceAgrees
  BY DEF Init, Numbered, OneHandler, OccurrenceAgrees, NoReminder
<1>3. AtMostOneShow /\ FutureUnclaimed /\ ShownIsClaimed /\ PendingIsClaimed
  BY DEF Init, AtMostOneShow, FutureUnclaimed, ShownIsClaimed, PendingIsClaimed
<1> QED
  BY <1>1, <1>2, <1>3 DEF ClaimInv

(* The claim invariant holds in every reachable state.                     *)
THEOREM ClaimsHold == Spec => []ClaimInv
<1>1. Init => ClaimInv
  BY ClaimInvInit
<1>2. ClaimInv /\ [Next]_vars => ClaimInv'
  BY ClaimInvInductive
<1> QED
  BY <1>1, <1>2, PTL DEF Spec

(* Type correctness of the scheduler's tables, sets and counters.          *)
THEOREM TypeCorrect == Spec => []TypeOK
<1>1. ClaimInv => TypeOK
  BY DEF ClaimInv
<1> QED
  BY <1>1, ClaimsHold, PTL

(* However ticks, resumes, callbacks, crashes and restarts interleave, the *)
(* native notification of a reminder version is requested at most once.    *)
THEOREM AtMostOnce == Spec => []AtMostOneShow
<1>1. ClaimInv => AtMostOneShow
  BY DEF ClaimInv
<1> QED
  BY <1>1, ClaimsHold, PTL

(* A waiting or expired reminder was never shown in its version, and a     *)
(* dispatch result is the same in the reminder and its occurrence row.     *)
THEOREM OccurrencesAgree == Spec => []OccurrenceAgrees
<1>1. ClaimInv => OccurrenceAgrees
  BY DEF ClaimInv
<1> QED
  BY <1>1, ClaimsHold, PTL
-----------------------------------------------------------------------------
(* Every step leaves a terminal reminder alone or raises its version, and  *)
(* never lowers the version of any reminder.                               *)
LEMMA ReminderStep ==
  ASSUME ClaimInv, [Next]_vars, NEW r \in Reminder
  PROVE  /\ reminders'[r].version >= reminders[r].version
         /\ \/ reminders'[r].version > reminders[r].version
            \/ reminders[r].state \in Terminal => reminders'[r] = reminders[r]
<1> USE ReminderAssumption
<1>1. /\ reminders[r].version \in Nat
      /\ reminders[r] \in [version : 0..MaxVersion, state : States, due : Time]
  BY DEF ClaimInv, TypeOK
<1>2. ASSUME NEW q \in Reminder, NEW state, NEW due, Apply(q, state, due)
      PROVE  /\ reminders'[r].version >= reminders[r].version
             /\ \/ reminders'[r].version > reminders[r].version
                \/ reminders[r].state \in Terminal => reminders'[r] = reminders[r]
  <2> DEFINE rm == [reminders EXCEPT ![q] = [version |-> NextVersion(q),
                                             state |-> state, due |-> due]]
  <2>1. reminders'[r] = IF Live(rm, r) /\ ~Valid(r)
                        THEN [rm[r] EXCEPT !.state = "CANCELLED"] ELSE rm[r]
    BY <1>2 DEF Apply, Reconcile, Reconciled
  <2>2. CASE q = r
    <3>1. rm[r] = [version |-> reminders[r].version + 1, state |-> state,
                   due |-> due]
      BY <2>2 DEF NextVersion, ClaimInv, TypeOK
    <3>2. reminders'[r].version = reminders[r].version + 1
      BY <2>1, <3>1
    <3> QED BY <1>1, <3>2
  <2>3. CASE q # r
    <3>1. rm[r] = reminders[r]
      BY <2>3 DEF ClaimInv, TypeOK
    <3> QED BY <1>1, <2>1, <3>1 DEF Live
  <2> QED BY <2>2, <2>3
<1>3. ASSUME NEW q \in Reminder, Schedule(q) \/ Resolve(q)
      PROVE  /\ reminders'[r].version >= reminders[r].version
             /\ \/ reminders'[r].version > reminders[r].version
                \/ reminders[r].state \in Terminal => reminders'[r] = reminders[r]
  BY <1>2, <1>3 DEF Schedule, Resolve
<1>4. CASE Reconcile(reminders)
  BY <1>1, <1>4 DEF Reconcile, Reconciled, Live
<1>5. ASSUME NEW i \in Item, CloseItem(i)
      PROVE  /\ reminders'[r].version = reminders[r].version
             /\ reminders[r].state \in Terminal => reminders'[r] = reminders[r]
  <2>1. reminders'[r] = IF r \in Alive(i)
                        THEN [reminders[r] EXCEPT !.state = "CANCELLED"]
                        ELSE reminders[r]
    BY <1>5, Zenon DEF CloseItem, StopReminders
  <2> QED BY <1>1, <2>1 DEF Alive, Live
<1>6. ASSUME NEW recovery \in BOOLEAN, Claim(recovery)
      PROVE  /\ reminders'[r].version = reminders[r].version
             /\ reminders[r].state \in Terminal => reminders'[r] = reminders[r]
  <2> DEFINE rm == Reconciled(reminders)
             rec == Recovering(recovery)
  <2>1. reminders' = [q \in Reminder |->
                        [rm[q] EXCEPT !.state = Decided(rm, rec, q)]]
    BY <1>6, Zenon DEF Claim
  <2>2. reminders'[r] = [rm[r] EXCEPT !.state = Decided(rm, rec, r)]
    BY <2>1, Zenon
  <2>3. /\ rm[r] \in [version : 0..MaxVersion, state : States, due : Time]
        /\ rm[r].version = reminders[r].version
        /\ reminders[r].state \in Terminal => rm[r] = reminders[r]
    BY <1>1 DEF Reconciled, Live
  <2>4. rm[r].state \in Terminal => Decided(rm, rec, r) = rm[r].state
    BY DEF Decided, Held, Lapsed, Claimed, Missed, Due
  <2> HIDE DEF rm, rec
  <2> QED BY <2>2, <2>3, <2>4
<1>7. CASE OwedTick \/ \E recovery \in BOOLEAN : Tick(recovery)
  <2>1. PICK recovery \in BOOLEAN : Claim(recovery)
    BY <1>7 DEF OwedTick, Tick
  <2>2. /\ reminders'[r].version = reminders[r].version
        /\ reminders[r].state \in Terminal => reminders'[r] = reminders[r]
    BY <1>6, <2>1
  <2> QED BY <1>1, <2>2
<1>8. ASSUME NEW g, NEW outcome \in Outcomes, Settle(g, outcome)
      PROVE  /\ reminders'[r].version = reminders[r].version
             /\ reminders[r].state \in Terminal => reminders'[r] = reminders[r]
  <2>1. reminders'[r] = IF Settles(g, outcome, r)
                        THEN [reminders[r] EXCEPT !.state = outcome]
                        ELSE reminders[r]
    BY <1>8, Zenon DEF Settle
  <2>2. Settles(g, outcome, r) => reminders[r].state \notin Terminal
    BY DEF Settles
  <2> QED BY <1>1, <2>1, <2>2
<1>9. CASE DispatchStep
  <2>1. UNCHANGED reminders \/ \E g, outcome : outcome \in Outcomes /\ Settle(g, outcome)
    BY <1>9 DEF DispatchStep, Show, ShowThrows, Unsupported
  <2> QED BY <1>1, <1>8, <2>1
<1>10. CASE CallbackStep
  <2>1. \E g, outcome : outcome \in Outcomes /\ Settle(g, outcome)
    BY <1>10 DEF CallbackStep, NativeEvent, ObservationTimeout
  <2> QED BY <1>1, <1>8, <2>1
<1>11. CASE Recover
  <2>1. reminders'[r] = IF Interrupted(r)
                        THEN [reminders[r] EXCEPT !.state = "RESULT_UNKNOWN"]
                        ELSE reminders[r]
    BY <1>11, Zenon DEF Recover
  <2> QED BY <1>1, <2>1 DEF Interrupted
<1>12. CASE UNCHANGED reminders
  BY <1>1, <1>12
<1>13. \/ \E q \in Reminder : Schedule(q) \/ Resolve(q)
       \/ Reconcile(reminders) \/ \E i \in Item : CloseItem(i)
       \/ OwedTick \/ \E recovery \in BOOLEAN : Tick(recovery)
       \/ DispatchStep \/ CallbackStep \/ Recover \/ UNCHANGED reminders
  BY DEF Next, UserStep, Query, ReopenItem, DeleteItem, Configure, TickFault,
         DispatchFault, Start, Stop, Elapse, ClockJump, SetClock, vars
<1> QED
  BY <1>1, <1>3, <1>4, <1>5, <1>7, <1>9, <1>10, <1>11, <1>12, <1>13

(* No late callback, timer, tick or restart leaves a terminal state: only  *)
(* a mutation that raises the version does.                                *)
THEOREM TerminalIsFinal == Spec => TerminalNeedsNewVersion
<1>1. ClaimInv /\ [Next]_vars =>
        [\A r \in Reminder :
           (reminders[r].state \in Terminal
              /\ reminders'[r].state # reminders[r].state)
             => reminders'[r].version > reminders[r].version]_vars
  <2> SUFFICES ASSUME ClaimInv, [Next]_vars, NEW r \in Reminder,
                      reminders[r].state \in Terminal,
                      reminders'[r].state # reminders[r].state
               PROVE  reminders'[r].version > reminders[r].version
    OBVIOUS
  <2> QED BY ReminderStep
<1> QED
  BY <1>1, ClaimsHold, PTL DEF Spec, TerminalNeedsNewVersion

(* A halted identity is never current and waiting for a dispatch again:    *)
(* its version is past, or its reminder terminal, or its item deleted.     *)
LEMMA HaltedInductive ==
  ASSUME ClaimInv, HaltedIsOver, [Next]_vars
  PROVE  HaltedIsOver'
<1> USE ReminderAssumption
<1>0. TypeOK'
  BY TypeInductive DEF ClaimInv
<1>1. ASSUME NEW k \in halted
      PROVE  \/ reminders'[k[1]].version > k[2]
             \/ /\ Current(reminders', k)
                /\ \/ reminders'[k[1]].state \in Terminal
                   \/ item[ItemOf[k[1]]] = "gone"
  <2>1. /\ k[1] \in Reminder /\ k[2] \in Nat
        /\ reminders[k[1]].version \in Nat /\ reminders'[k[1]].version \in Nat
    <3>1. k[1] \in Reminder /\ k[2] \in Nat
      BY DEF ClaimInv, TypeOK
    <3>2. /\ reminders[k[1]].version \in 0..MaxVersion
          /\ reminders'[k[1]].version \in 0..MaxVersion
      BY <1>0, <3>1 DEF ClaimInv, TypeOK
    <3> QED BY <3>1, <3>2
  <2>2. /\ reminders'[k[1]].version >= reminders[k[1]].version
        /\ \/ reminders'[k[1]].version > reminders[k[1]].version
           \/ reminders[k[1]].state \in Terminal =>
                reminders'[k[1]] = reminders[k[1]]
    BY <2>1, ReminderStep
  <2>3. CASE reminders[k[1]].version > k[2]
    BY <2>1, <2>2, <2>3
  <2>4. CASE reminders[k[1]].version = k[2] /\ reminders[k[1]].state \in Terminal
    BY <2>1, <2>2, <2>4 DEF Current
  <2>5. CASE reminders[k[1]].version = k[2] /\ item[ItemOf[k[1]]] = "gone"
    BY <2>1, <2>2, <2>5 DEF Current
  <2> QED BY <2>3, <2>4, <2>5 DEF HaltedIsOver, Current
<1>2. ASSUME UNCHANGED <<halted, item>> PROVE HaltedIsOver'
  BY <1>1, <1>2 DEF HaltedIsOver, Current
<1>3. ASSUME NEW i \in Item, CloseItem(i) \/ ReopenItem(i) \/ DeleteItem(i)
      PROVE  HaltedIsOver'
  <2>1. \A j \in Item : item[j] = "gone" => item'[j] = "gone"
    BY <1>3 DEF CloseItem, ReopenItem, DeleteItem, WriteItem, ClaimInv, TypeOK
  <2>2. ASSUME NEW k \in halted
        PROVE  \/ reminders'[k[1]].version > k[2]
               \/ /\ Current(reminders', k)
                  /\ \/ reminders'[k[1]].state \in Terminal
                     \/ item'[ItemOf[k[1]]] = "gone"
    BY <1>1, <2>1 DEF ClaimInv, TypeOK
  <2>3. CASE ReopenItem(i)
    BY <2>2, <2>3 DEF ReopenItem, WriteItem, HaltedIsOver, Current
  <2>4. CASE DeleteItem(i)
    <3>1. /\ halted' = halted \cup {IdentityOf(r) : r \in Alive(i)}
          /\ UNCHANGED reminders /\ item'[i] = "gone"
      BY <2>4 DEF DeleteItem, WriteItem, ClaimInv, TypeOK
    <3>2. \A r \in Alive(i) : /\ Current(reminders', IdentityOf(r))
                              /\ item'[ItemOf[IdentityOf(r)[1]]] = "gone"
      BY <3>1 DEF Alive, IdentityOf, Current
    <3> QED BY <2>2, <3>1, <3>2 DEF HaltedIsOver, Current
  <2>5. CASE CloseItem(i)
    <3>1. /\ halted' = halted \cup {IdentityOf(r) : r \in Alive(i)}
          /\ reminders' = StopReminders(i)
      BY <2>5 DEF CloseItem, WriteItem
    <3>2. ASSUME NEW r \in Alive(i)
          PROVE  /\ Current(reminders', IdentityOf(r))
                 /\ reminders'[r].state \in Terminal
                 /\ IdentityOf(r)[1] = r
      <4>1. r \in Reminder
        BY DEF Alive
      <4>2. reminders'[r] = [reminders[r] EXCEPT !.state = "CANCELLED"]
        BY <3>1, <4>1 DEF StopReminders
      <4>3. reminders[r] \in [version : 0..MaxVersion, state : States, due : Time]
        BY <4>1 DEF ClaimInv, TypeOK
      <4> QED BY <4>2, <4>3 DEF IdentityOf, Current
    <3> QED BY <2>2, <3>1, <3>2 DEF HaltedIsOver, Current
  <2> QED BY <1>3, <2>3, <2>4, <2>5
<1>4. \/ UNCHANGED <<halted, item>>
      \/ \E i \in Item : CloseItem(i) \/ ReopenItem(i) \/ DeleteItem(i)
  <2>1. ASSUME NEW r \in Reminder, Schedule(r) \/ Resolve(r)
        PROVE  UNCHANGED <<halted, item>>
    BY <2>1 DEF Schedule, Resolve, Apply, history
  <2>2. CASE OwedTick \/ \E recovery \in BOOLEAN : Tick(recovery)
    BY <2>2 DEF OwedTick, Tick, Claim, history
  <2>3. CASE DispatchStep
    BY <2>3 DEF DispatchStep, Show, ShowThrows, Unsupported, Begin
  <2>4. CASE CallbackStep
    BY <2>4 DEF CallbackStep, NativeEvent, ObservationTimeout, history
  <2> QED
    BY <2>1, <2>2, <2>3, <2>4
       DEF Next, UserStep, Query, Configure, TickFault, DispatchFault, Start,
           Recover, Stop,
           Elapse, ClockJump, SetClock, vars, history
<1> QED
  BY <1>2, <1>3, <1>4

(* An identity alive when its item was closed or deleted is not shown any  *)
(* more, whatever happens to the item and the process afterwards.          *)
THEOREM HaltedNotShown == Spec => HaltedNeverShown
<1>1. Init => HaltedIsOver
  BY DEF Init, HaltedIsOver
<1>2. ClaimInv /\ HaltedIsOver /\ [Next]_vars => HaltedIsOver'
  BY HaltedInductive
<1>3. ClaimInv /\ HaltedIsOver /\ [Next]_vars =>
        [\A k \in halted : shown'[k[1]][k[2]] = shown[k[1]][k[2]]]_vars
  <2> SUFFICES ASSUME ClaimInv, HaltedIsOver, [Next]_vars, NEW k \in halted
               PROVE  shown'[k[1]][k[2]] = shown[k[1]][k[2]]
    OBVIOUS
  <2>1. UNCHANGED shown \/ \E batch \in batches : Counted(Dispatchable(batch))
    BY DEF Next, UserStep, Schedule, Resolve, Apply, CloseItem, ReopenItem,
           DeleteItem, WriteItem, Configure, Query, Tick, OwedTick, TickFault,
           Claim, DispatchStep, Show, ShowThrows, Unsupported, DispatchFault,
           CallbackStep, NativeEvent, ObservationTimeout, Start, Recover, Stop,
           Elapse, ClockJump, SetClock, vars, history
  <2>2. ASSUME NEW batch \in batches, Counted(Dispatchable(batch))
        PROVE  shown'[k[1]][k[2]] = shown[k[1]][k[2]]
    <3>1. k[1] \in Reminder /\ k[2] \in Versions /\ k = <<k[1], k[2]>>
      BY DEF ClaimInv, TypeOK
    <3>2. k \notin Dispatchable(batch)
      BY <3>1 DEF HaltedIsOver, Dispatchable, Current, Valid
    <3> HIDE DEF Versions
    <3> QED BY <2>2, <3>1, <3>2, Zenon DEF Counted
  <2> QED BY <2>1, <2>2
<1> QED
  BY <1>1, <1>2, <1>3, ClaimsHold, PTL DEF Spec, HaltedNeverShown
------------------------------------------------------------------------------
(***************************************************************************)
(* What stays true of a reminder whose item was closed, and that no claim  *)
(* is forgotten by the process that made it.                               *)
(***************************************************************************)

(* A closed item has no reminder in DISPATCHING: reopening it brings no    *)
(* forgotten claim back to life.                                           *)
ClosedIsStopped ==
  \A r \in Reminder :
    item[ItemOf[r]] = "closed" => reminders[r].state # "DISPATCHING"

(* DispatchingIsWatched between the commits of a tick: the claim is in a   *)
(* group whose timer is armed, or in a batch that is still to be shown.    *)
InHand(r) == \E g \in timers \cup batches : IdentityOf(r) \in g

Watched ==
  (phase = "run" /\ ~faulted) =>
    \A r \in Reminder :
      (reminders[r].state = "DISPATCHING" /\ Valid(r)) => InHand(r)

WatchInv == ClosedIsStopped /\ Watched

(* What a dispatch can end with.                                           *)
Results == {"DISPLAY_OBSERVED", "FAILED", "RESULT_UNKNOWN"}

LEMMA ResultsKnown ==
  /\ "DISPLAY_OBSERVED" \in Results /\ "FAILED" \in Results
  /\ "RESULT_UNKNOWN" \in Results
  BY DEF Results

(* A tick leaves a reminder in DISPATCHING that was so before, or claims   *)
(* it now: then its item is open and a batch holds it.                     *)
LEMMA ClaimedIsBatched ==
  ASSUME ClaimInv, NEW recovery, Claim(recovery), NEW r \in Reminder,
         reminders'[r].state = "DISPATCHING"
  PROVE  \/ reminders'[r] = reminders[r]
         \/ Valid(r) /\ \E g \in batches' : IdentityOf(r)' \in g
<1> DEFINE rm == Reconciled(reminders)
           rec == Recovering(recovery)
           claimed == {q \in Reminder : Claimed(rm, rec, q)}
           identities == {<<q, rm[q].version>> : q \in claimed}
<1>1. /\ reminders' = [q \in Reminder |->
                         [rm[q] EXCEPT !.state = Decided(rm, rec, q)]]
      /\ batches' = Batched(identities)
  BY Zenon DEF Claim
<1>2. reminders'[r] = [rm[r] EXCEPT !.state = Decided(rm, rec, r)]
  BY <1>1, Zenon
<1>3. /\ rm[r] \in [version : 0..MaxVersion, state : States, due : Time]
      /\ rm[r] = reminders[r] \/ rm[r].state = "CANCELLED"
  <2>1. rm \in [Reminder -> [version : 0..MaxVersion, state : States,
                             due : Time]]
    BY ReconciledType DEF ClaimInv, TypeOK
  <2>2. /\ reminders[r] \in [version : 0..MaxVersion, state : States, due : Time]
        /\ reminders[r].version = 0 <=> reminders[r].state = "ABSENT"
    BY DEF ClaimInv, TypeOK, Numbered
  <2> QED BY <2>1, <2>2, ReconciledStep
<1>4. CASE r \in claimed
  <2>1. <<r, rm[r].version>> \in identities
    BY <1>4
  <2>2. \E g \in Batched(identities) : <<r, rm[r].version>> \in g
    <3> HIDE DEF identities
    <3>1. \/ Batched(identities) = {identities} \ {{}}
          \/ Batched(identities) = {{k} : k \in identities}
      BY DEF Batched
    <3> QED BY <2>1, <3>1
  <2>3. Valid(r)
    BY <1>4 DEF Claimed, Due
  <2>4. IdentityOf(r)' = <<r, rm[r].version>>
    BY <1>2, <1>3 DEF IdentityOf
  <2> QED BY <1>1, <2>2, <2>3, <2>4
<1>5. CASE r \notin claimed
  <2>1. Decided(rm, rec, r) = "DISPATCHING"
    <3> HIDE DEF rm, rec
    <3> QED BY <1>2, <1>3
  <2>2. rm[r].state = "DISPATCHING"
    BY <1>5, <2>1 DEF Decided
  <2> HIDE DEF rm, rec
  <2> QED BY <1>2, <1>3, <2>1, <2>2
<1> QED BY <1>4, <1>5

(* No other step puts a reminder into DISPATCHING.                         *)
LEMMA StillDispatching ==
  ASSUME ClaimInv, [Next]_vars, NEW r \in Reminder,
         reminders'[r].state = "DISPATCHING"
  PROVE  \/ reminders'[r] = reminders[r]
         \/ /\ Valid(r) /\ UNCHANGED item
            /\ \E g \in batches' : IdentityOf(r)' \in g
<1>1. reminders[r] \in [version : 0..MaxVersion, state : States, due : Time]
  BY DEF ClaimInv, TypeOK
<1>2. ASSUME NEW q \in Reminder, NEW state \in {"SCHEDULED", "CANCELLED", "HANDLED"},
             NEW due, Apply(q, state, due)
      PROVE  reminders'[r] = reminders[r]
  <2> DEFINE rm == [reminders EXCEPT ![q] = [version |-> NextVersion(q),
                                             state |-> state, due |-> due]]
  <2>1. reminders'[r] = IF Live(rm, r) /\ ~Valid(r)
                        THEN [rm[r] EXCEPT !.state = "CANCELLED"] ELSE rm[r]
    BY <1>2 DEF Apply, Reconcile, Reconciled
  <2>2. CASE q = r
    <3>1. rm[r] = [version |-> NextVersion(r), state |-> state, due |-> due]
      BY <2>2 DEF ClaimInv, TypeOK
    <3> QED BY <2>1, <3>1
  <2>3. CASE q # r
    <3>1. rm[r] = reminders[r]
      BY <2>3 DEF ClaimInv, TypeOK
    <3> QED BY <1>1, <2>1, <3>1
  <2> QED BY <2>2, <2>3
<1>3. ASSUME NEW q \in Reminder, Schedule(q) \/ Resolve(q)
      PROVE  reminders'[r] = reminders[r]
  BY <1>2, <1>3 DEF Schedule, Resolve
<1>4. CASE Reconcile(reminders)
  BY <1>1, <1>4 DEF Reconcile, Reconciled
<1>5. ASSUME NEW i \in Item, CloseItem(i)
      PROVE  reminders'[r] = reminders[r]
  BY <1>1, <1>5 DEF CloseItem, StopReminders
<1>6. CASE OwedTick \/ \E recovery \in BOOLEAN : Tick(recovery)
  <2>1. PICK recovery \in BOOLEAN : Claim(recovery)
    BY <1>6 DEF OwedTick, Tick
  <2>2. UNCHANGED item
    BY <2>1 DEF Claim
  <2> QED BY <2>1, <2>2, ClaimedIsBatched
<1>7. ASSUME NEW g, NEW outcome \in Results, Settle(g, outcome)
      PROVE  reminders'[r] = reminders[r]
  <2>1. reminders'[r] = IF Settles(g, outcome, r)
                        THEN [reminders[r] EXCEPT !.state = outcome]
                        ELSE reminders[r]
    BY <1>7, Zenon DEF Settle
  <2> QED BY <1>1, <1>7, <2>1 DEF Results
<1>8. CASE DispatchStep
  <2>1. \/ UNCHANGED reminders
        \/ \E g, outcome : outcome \in Results /\ Settle(g, outcome)
    BY <1>8, ResultsKnown DEF DispatchStep, Show, ShowThrows, Unsupported
  <2> QED BY <1>7, <2>1
<1>9. CASE CallbackStep
  <2>1. \E g, outcome : outcome \in Results /\ Settle(g, outcome)
    <3>1. ASSUME NEW g \in bound, NativeEvent(g)
          PROVE  \E outcome \in Results : Settle(g, outcome)
      BY <3>1, ResultsKnown DEF NativeEvent
    <3>2. ASSUME NEW g \in timers, ObservationTimeout(g)
          PROVE  \E outcome \in Results : Settle(g, outcome)
      BY <3>2, ResultsKnown DEF ObservationTimeout
    <3> QED BY <1>9, <3>1, <3>2 DEF CallbackStep
  <2> QED BY <1>7, <2>1
<1>10. CASE Recover
  <2>1. reminders'[r] = IF Interrupted(r)
                        THEN [reminders[r] EXCEPT !.state = "RESULT_UNKNOWN"]
                        ELSE reminders[r]
    BY <1>10, Zenon DEF Recover
  <2> QED BY <1>1, <2>1
<1>11. \/ \E q \in Reminder : Schedule(q) \/ Resolve(q)
       \/ Reconcile(reminders) \/ \E i \in Item : CloseItem(i)
       \/ OwedTick \/ \E recovery \in BOOLEAN : Tick(recovery)
       \/ DispatchStep \/ CallbackStep \/ Recover \/ UNCHANGED reminders
  BY DEF Next, UserStep, Query, ReopenItem, DeleteItem, Configure, TickFault,
         DispatchFault, Start, Stop, Elapse, ClockJump, SetClock, vars
<1> QED
  BY <1>3, <1>4, <1>5, <1>6, <1>8, <1>9, <1>10, <1>11

(* Only the three item writes change an item, and each one item.           *)
LEMMA ItemStep ==
  ASSUME ClaimInv, [Next]_vars
  PROVE  \/ UNCHANGED item
         \/ \E i \in Item :
              /\ CloseItem(i) \/ ReopenItem(i) \/ DeleteItem(i)
              /\ \A j \in Item : j # i => item'[j] = item[j]
<1>1. ASSUME NEW i \in Item, CloseItem(i) \/ ReopenItem(i) \/ DeleteItem(i)
      PROVE  \A j \in Item : j # i => item'[j] = item[j]
  BY <1>1 DEF CloseItem, ReopenItem, DeleteItem, WriteItem, ClaimInv, TypeOK
<1> QED
  BY <1>1
     DEF Next, UserStep, Schedule, Resolve, Apply, Query, Configure, Tick,
         OwedTick, TickFault, Claim, DispatchStep, Show, ShowThrows,
         Unsupported, Begin, DispatchFault, CallbackStep, NativeEvent,
         ObservationTimeout, Start, Recover, Stop, Elapse, ClockJump, SetClock,
         vars

(* Closing an item cancels its claims in the same transaction, and no      *)
(* claim is made for a closed item.                                        *)
LEMMA ClosedStaysStopped ==
  ASSUME ClaimInv, ClosedIsStopped, [Next]_vars
  PROVE  ClosedIsStopped'
<1> SUFFICES ASSUME NEW r \in Reminder, item'[ItemOf[r]] = "closed",
                    reminders'[r].state = "DISPATCHING"
             PROVE  FALSE
  BY DEF ClosedIsStopped
<1>1. ItemOf[r] \in Item
  BY ReminderAssumption
<1>2. \/ reminders'[r] = reminders[r]
      \/ Valid(r) /\ UNCHANGED item
  BY StillDispatching
<1>3. reminders'[r] = reminders[r] /\ item[ItemOf[r]] # "closed"
  BY <1>2 DEF Valid, ClosedIsStopped
<1>4. PICK i \in Item : /\ CloseItem(i) \/ ReopenItem(i) \/ DeleteItem(i)
                        /\ \A j \in Item : j # i => item'[j] = item[j]
  BY <1>3, ItemStep
<1>5. i = ItemOf[r] /\ item' = [item EXCEPT ![i] = item'[i]]
  BY <1>1, <1>3, <1>4 DEF CloseItem, ReopenItem, DeleteItem, WriteItem, ClaimInv,
                          TypeOK
<1>6. CloseItem(i)
  BY <1>4, <1>5 DEF ReopenItem, DeleteItem, WriteItem, ClaimInv, TypeOK
<1>7. r \in Alive(i)
  <2>1. /\ reminders[r].version \in 0..MaxVersion
        /\ reminders[r].version = 0 <=> reminders[r].state = "ABSENT"
    BY DEF ClaimInv, TypeOK, Numbered
  <2>2. reminders[r].version > 0 /\ reminders[r].state = "DISPATCHING"
    BY <1>3, <2>1, ReminderAssumption
  <2>3. reminders[r].state \notin Terminal
    BY <2>2 DEF Terminal
  <2> QED BY <1>5, <2>2, <2>3 DEF Alive, Live
<1>8. reminders'[r] = [reminders[r] EXCEPT !.state = "CANCELLED"]
  BY <1>6, <1>7, Zenon DEF CloseItem, StopReminders
<1> QED
  BY <1>3, <1>8 DEF ClaimInv, TypeOK

(* A claim that stays in DISPATCHING stays in hand.                        *)
LEMMA StaysInHand ==
  ASSUME ClaimInv, [Next]_vars, phase' = "run", NEW r \in Reminder,
         reminders'[r] = reminders[r], reminders[r].state = "DISPATCHING",
         Valid(r), InHand(r), ~faulted'
  PROVE  InHand(r)'
<1>1. IdentityOf(r)' = IdentityOf(r)
  BY DEF IdentityOf
<1>2. CASE timers \subseteq timers' /\ batches \subseteq batches'
  BY <1>1, <1>2 DEF InHand
<1>3. CASE timers \subseteq timers' /\ batches = {}
  BY <1>1, <1>3 DEF InHand
<1>4. reminders[r] \in [version : 0..MaxVersion, state : States, due : Time]
  BY DEF ClaimInv, TypeOK
<1>5. ASSUME NEW g, NEW outcome \in Results, Settle(g, outcome)
      PROVE  IdentityOf(r) \notin g
  <2>1. reminders'[r] = IF Settles(g, outcome, r)
                        THEN [reminders[r] EXCEPT !.state = outcome]
                        ELSE reminders[r]
    BY <1>5, Zenon DEF Settle
  <2>2. IdentityOf(r) \in g => Settles(g, outcome, r)
    BY DEF Settles
  <2> QED BY <1>4, <1>5, <2>1, <2>2 DEF Results
<1>6. ASSUME NEW batch \in batches,
             IdentityOf(r) \in batch
      PROVE  IdentityOf(r) \in Dispatchable(batch)
  BY <1>6 DEF Dispatchable, IdentityOf, Current
<1>7. ASSUME NEW batch \in batches, Show(batch)
      PROVE  InHand(r)'
  <2>1. /\ timers' = timers \cup {Dispatchable(batch)}
        /\ batches' = batches \ {batch}
    BY <1>7 DEF Show, Begin
  <2> QED BY <1>1, <1>6, <2>1 DEF InHand
<1>8. ASSUME NEW batch \in batches, ShowThrows(batch) \/ Unsupported(batch)
      PROVE  InHand(r)'
  <2>1. /\ timers' = timers /\ batches' = batches \ {batch}
        /\ \E outcome \in Results : Settle(Dispatchable(batch), outcome)
    BY <1>8, ResultsKnown DEF ShowThrows, Unsupported, Begin
  <2>2. IdentityOf(r) \notin batch
    BY <1>5, <1>6, <2>1
  <2> QED BY <1>1, <2>1, <2>2 DEF InHand
<1>9. ASSUME NEW g \in timers, ObservationTimeout(g)
      PROVE  InHand(r)'
  <2>1. /\ timers' = timers \ {g} /\ batches' = batches
        /\ \E outcome \in Results : Settle(g, outcome)
    BY <1>9, ResultsKnown DEF ObservationTimeout
  <2>2. IdentityOf(r) \notin g
    BY <1>5, <2>1
  <2> QED BY <1>1, <2>1, <2>2 DEF InHand
<1>10. \/ timers' = timers /\ batches' = batches
       \/ timers' = timers /\ batches = {}
       \/ \E batch \in batches :
            Show(batch) \/ ShowThrows(batch) \/ Unsupported(batch)
       \/ \E g \in timers : ObservationTimeout(g)
  <2>1. CASE OwedTick \/ \E recovery \in BOOLEAN : Tick(recovery)
    BY <2>1 DEF OwedTick, Tick, Claim, Idle, ClaimInv, OneHandler
  <2>2. CASE DispatchFault \/ Stop
    BY <2>2 DEF DispatchFault, Stop
  <2>3. CASE UserStep
    BY <2>3 DEF UserStep, Schedule, Resolve, Apply, Query, CloseItem, ReopenItem,
                DeleteItem, WriteItem, Configure, process
  <2>4. CASE CallbackStep
    BY <2>4 DEF CallbackStep, NativeEvent, process
  <2> QED
    BY <2>1, <2>2, <2>3, <2>4
       DEF Next, TickFault, DispatchStep, Start, Recover, Elapse, ClockJump,
           SetClock, vars, process
<1> QED
  BY <1>2, <1>3, <1>7, <1>8, <1>9, <1>10

(* Every step keeps the claims watched.                                    *)
LEMMA WatchedStays ==
  ASSUME ClaimInv, WatchInv, [Next]_vars
  PROVE  Watched'
<1> SUFFICES ASSUME phase' = "run", ~faulted', NEW r \in Reminder,
                    reminders'[r].state = "DISPATCHING", Valid(r)'
             PROVE  InHand(r)'
  BY DEF Watched
<1>1. CASE /\ Valid(r) /\ UNCHANGED item
           /\ \E g \in batches' : IdentityOf(r)' \in g
  BY <1>1 DEF InHand
<1>2. CASE reminders'[r] = reminders[r]
  <2>1. ~Recover
    <3> SUFFICES ASSUME Recover PROVE FALSE
      OBVIOUS
    <3>1. reminders'[r] = IF Interrupted(r)
                          THEN [reminders[r] EXCEPT !.state = "RESULT_UNKNOWN"]
                          ELSE reminders[r]
      BY Zenon DEF Recover
    <3>2. reminders[r] \in [version : 0..MaxVersion, state : States, due : Time]
      BY DEF ClaimInv, TypeOK
    <3> QED BY <1>2, <3>1, <3>2 DEF Interrupted
  <2>2. phase = "run" /\ ~faulted
    <3>1. CASE UNCHANGED <<phase, faulted>>
      BY <3>1
    <3>2. CASE DispatchFault \/ Start \/ Stop
      BY <3>2 DEF DispatchFault, Start, Stop
    <3>3. \/ UNCHANGED <<phase, faulted>>
          \/ DispatchFault \/ Start \/ Stop
      BY <2>1
         DEF Next, UserStep, Schedule, Resolve, Apply, Query, CloseItem,
             ReopenItem, DeleteItem, WriteItem, Configure, Tick, OwedTick,
             TickFault, Claim, DispatchStep, Show, ShowThrows, Unsupported,
             Begin, CallbackStep, NativeEvent, ObservationTimeout, Elapse,
             ClockJump, SetClock, vars, process
    <3> QED BY <3>1, <3>2, <3>3
  <2>3. Valid(r)
    <3> SUFFICES ASSUME ~Valid(r) PROVE FALSE
      OBVIOUS
    <3>1. ItemOf[r] \in Item /\ item'[ItemOf[r]] # item[ItemOf[r]]
      BY ReminderAssumption DEF Valid
    <3>2. PICK i \in Item : /\ CloseItem(i) \/ ReopenItem(i) \/ DeleteItem(i)
                            /\ \A j \in Item : j # i => item'[j] = item[j]
      BY <3>1, ItemStep
    <3>3. i = ItemOf[r]
      BY <3>1, <3>2
    <3>4. item[i] = "closed"
      BY <3>2, <3>3 DEF CloseItem, ReopenItem, DeleteItem, WriteItem, Valid,
                        ClaimInv, TypeOK
    <3> QED BY <1>2, <3>3, <3>4 DEF WatchInv, ClosedIsStopped
  <2>4. InHand(r)
    BY <1>2, <2>2, <2>3 DEF WatchInv, Watched
  <2> QED BY <1>2, <2>3, <2>4, StaysInHand
<1> QED
  BY <1>1, <1>2, StillDispatching

(* While the runtime is up and its storage answers, a reminder left in     *)
(* DISPATCHING has an armed timer: no claim is forgotten by the process    *)
(* that made it, whichever callbacks, item writes and faults come between. *)
THEOREM ClaimsAreWatched == Spec => []DispatchingIsWatched
<1>1. Init => WatchInv
  BY DEF Init, WatchInv, ClosedIsStopped, Watched, NoReminder
<1>2. ClaimInv /\ WatchInv /\ [Next]_vars => WatchInv'
  BY ClosedStaysStopped, WatchedStays DEF WatchInv
<1>3. WatchInv => DispatchingIsWatched
  BY DEF WatchInv, Watched, DispatchingIsWatched, InHand, Idle
<1> QED
  BY <1>1, <1>2, <1>3, ClaimsHold, PTL DEF Spec

(* A reminder alive when its item was closed or deleted is over: its       *)
(* version is past, its state terminal, or its item gone for good.         *)
THEOREM HaltedStaysOver == Spec => []HaltedIsOver
<1>1. Init => HaltedIsOver
  BY DEF Init, HaltedIsOver
<1>2. ClaimInv /\ HaltedIsOver /\ [Next]_vars => HaltedIsOver'
  BY HaltedInductive
<1> QED
  BY <1>1, <1>2, ClaimsHold, PTL DEF Spec
=============================================================================
