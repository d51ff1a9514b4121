----------------------------- MODULE RestoredCopy -----------------------------
(***************************************************************************)
(* What becomes of a backup that is restored: production-governance-       *)
(* apply.ts, -dependencies.ts, -reminders.ts, -credentials.ts, -check.ts.  *)
(* The copy gets what the journal knows of later deletions, corrections    *)
(* and revocations; what it then shows is compared with the journal, and   *)
(* the restoration is refused if it shows more.                            *)
(*                                                                         *)
(* live is the data set the user goes on working in; the journal's latest  *)
(* note of each row is that row (GovernanceJournal), so the journal is     *)
(* live here, a row that is "gone" being noted as deleted.  kept is the    *)
(* data set as a backup has it, copy the one restored from it.  Data       *)
(* of a kind that a run does not look at are left out by empty constants.  *)
(***************************************************************************)
EXTENDS Integers, FiniteSets

CONSTANTS
  Memories, Private, Rounds,   \* Private: an assistant's own memories; its rounds
  Items, Proposals, Reminders, \* a reminder is of the item ItemOf[reminder]
  ItemOf,
  Grants,                      \* flags of permissions and recipients
  Connections,
  MaxVer,                      \* bound
  None, Refused

CopyAssumption ==
  /\ IsFiniteSet(Memories) /\ Private \subseteq Memories /\ MaxVer \in Nat \ {0}
  /\ ItemOf \in [Reminders -> Items]

Ver == 0..MaxVer
RoundSource(r) == <<"round", r, 1>>
MemorySource(m, v) == <<"memory", m, v>>
Source == {RoundSource(r) : r \in Rounds} \cup {MemorySource(m, v) : m \in Memories, v \in 1..MaxVer}

VARIABLES live, kept, copy

vars == <<live, kept, copy>>

(* The governed rows: memory_objects with the dependencies of the current  *)
(* versions, retention_original_trash and content_tombstones of rounds,    *)
(* memory_suppressions of kind withdrawal, retained_source_edges, items,   *)
(* item_proposals, reminders with reminder_occurrences, the permissions,   *)
(* provider_connections and retention_policy.                              *)
Empty ==
  [memory |-> [m \in Memories |-> [v |-> 0, state |-> "none"]],
   deps |-> [m \in Memories |-> [v \in 1..MaxVer |-> {}]],
   round |-> [r \in Rounds |-> "whole"],
   withdrawn |-> {}, edges |-> {},
   item |-> [i \in Items |-> [v |-> 0, text |-> FALSE]], itemGone |-> {},
   proposal |-> [p \in Proposals |-> [v |-> 0, state |-> "none"]],
   reminder |-> [r \in Reminders |-> [v |-> 0, state |-> "none", item |-> 0]],
   claimed |-> {},
   grant |-> [g \in Grants |-> TRUE],
   conn |-> [c \in Connections |-> [v |-> 0, on |-> FALSE, key |-> FALSE]],
   revoked |-> {},
   policy |-> [v |-> 0, on |-> FALSE, paused |-> FALSE]]
-----------------------------------------------------------------------------
(* Reading a memory (memory-service.ts, assertSource): nothing it rests on *)
(* is withdrawn, and what is retired or out of date is so by an edge that  *)
(* was retained for a memory on the way.                                   *)
RECURSIVE Allowed(_, _, _)
Allowed(d, s, way) ==
  /\ s \notin d.withdrawn
  /\ \/ \E a \in way : <<a, s>> \in d.edges
     \/ s[1] = "round" /\ d.round[s[2]] = "whole"
     \/ s[1] = "memory" /\ s[2] \in Memories /\ d.memory[s[2]] = [v |-> s[3], state |-> "active"]
  /\ s[1] = "memory" =>
       \A t \in d.deps[s[2]][s[3]] : t # s => Allowed(d, t, way \cup {<<s[2], s[3]>>})

Rest(d, m) == IF d.memory[m].v = 0 THEN {} ELSE d.deps[m][d.memory[m].v]

Readable(d, m) ==
  d.memory[m].state = "active" /\ Allowed(d, MemorySource(m, d.memory[m].v), {})

RECURSIVE Closure(_, _)
Closure(d, S) ==
  LET T == S \cup UNION {d.deps[s[2]][s[3]] : s \in {x \in S : x[1] = "memory"}}
  IN  IF T = S THEN S ELSE Closure(d, T)
-----------------------------------------------------------------------------
(* The work that goes on, each action one transaction.                     *)
Working == copy = None

Remember(m, S) ==
  /\ Working /\ live.memory[m].v < MaxVer /\ live.memory[m].state \in {"none", "active"}
  /\ \A s \in S : Allowed(live, s, {}) /\ s[2] # m /\ m \notin {t[2] : t \in Closure(live, {s})}
  /\ live.memory[m].state = "active" => Readable(live, m)
  /\ LET v == live.memory[m].v IN
     live' = [live EXCEPT
       !.memory[m] = [v |-> v + 1, state |-> "active"],
       !.deps[m][v + 1] = Rest(live, m) \cup S,
       !.edges = @ \cup {<<<<m, v + 1>>, e[2]>> : e \in {x \in @ : x[1] = <<m, v>>}}]
  /\ UNCHANGED <<kept, copy>>

MoveMemory(m) ==
  /\ Working /\ live.memory[m].v \in 1..(MaxVer - 1)
  /\ \/ live.memory[m].state = "active"
     \/ live.memory[m].state = "trash" /\ \A s \in Closure(live, Rest(live, m)) : s \notin live.withdrawn
  /\ LET v == live.memory[m].v IN
     live' = [live EXCEPT
       !.deps[m][v + 1] = Rest(live, m),
       !.memory[m] = [v |-> v + 1, state |-> IF @.state = "active" THEN "trash" ELSE "active"],
       !.edges = @ \cup {<<<<m, v + 1>>, e[2]>> : e \in {x \in @ : x[1] = <<m, v>>}}]
  /\ UNCHANGED <<kept, copy>>

(* withdraw: the sources, as far as they go, may not be used any more.     *)
Withdraw(m) ==
  /\ Working /\ live.memory[m].state = "active" /\ live.memory[m].v < MaxVer
  /\ live' = [live EXCEPT
       !.memory[m] = [v |-> @.v + 1, state |-> "trash"],
       !.deps[m][live.memory[m].v + 1] = Rest(live, m),
       !.withdrawn = @ \cup Closure(live, Rest(live, m))]
  /\ UNCHANGED <<kept, copy>>

(* A confirmed cleanup suppresses without a new version.                   *)
Purge(m) ==
  /\ Working /\ live.memory[m].state \in {"active", "trash"}
  /\ live' = [live EXCEPT !.memory[m].state = "suppressed"]
  /\ UNCHANGED <<kept, copy>>

PurgeRound(r, withdraw) ==
  /\ Working /\ live.round[r] # "retired"
  /\ live' = [live EXCEPT
       !.round[r] = "retired",
       !.withdrawn = @ \cup (IF withdraw THEN {RoundSource(r)} ELSE {})]
  /\ UNCHANGED <<kept, copy>>

(* What was made of the rounds remains: an edge for each memory.           *)
EdgesForNext(S, M) ==
  {<<<<m, live.memory[m].v + 1>>, s>> : m \in {x \in M : live.memory[x].v > 0}, s \in S}

EdgesFor(S, M) ==
  {<<<<m, live.memory[m].v>>, s>> : m \in {x \in M : live.memory[x].v > 0}, s \in S}

Cut(S, M) == {e \in EdgesFor(S, M) : e[2] \in Closure(live, Rest(live, e[1][1]))}

TrashRound(r) ==
  /\ Working /\ live.round[r] = "whole"
  /\ live' = [live EXCEPT !.round[r] = "trash", !.edges = @ \cup Cut({RoundSource(r)}, Memories)]
  /\ UNCHANGED <<kept, copy>>

BringBack(r) ==
  /\ Working /\ live.round[r] = "trash"
  /\ live' = [live EXCEPT !.round[r] = "whole"]
  /\ UNCHANGED <<kept, copy>>

(* The assistant is deleted: its rounds and its own memories go.           *)
PurgeAssistant ==
  /\ Working /\ Private # {} /\ \E r \in Rounds : live.round[r] # "retired"
  /\ LET own == {RoundSource(r) : r \in Rounds}
                  \cup {MemorySource(m, v) : m \in Private, v \in 1..MaxVer}
     IN  live' = [live EXCEPT
           !.round = [r \in Rounds |-> "retired"],
           !.memory = [m \in Memories |->
             IF m \in Private /\ live.memory[m].v > 0
               THEN [live.memory[m] EXCEPT !.state = "suppressed"] ELSE live.memory[m]],
           !.edges = @ \cup Cut(own, Memories \ Private)]
  /\ UNCHANGED <<kept, copy>>

EditItem(i) ==
  /\ Working /\ live.item[i].v < MaxVer /\ i \notin live.itemGone
  /\ live' = [live EXCEPT !.item[i] = [v |-> @.v + 1, text |-> TRUE]]
  /\ UNCHANGED <<kept, copy>>

DeleteItem(i) ==
  /\ Working /\ live.item[i].v > 0
  /\ live' = [live EXCEPT !.item[i] = [v |-> 0, text |-> FALSE], !.itemGone = @ \cup {i}]
  /\ UNCHANGED <<kept, copy>>

(* saveProposal(): every change has a new version.                         *)
Propose(p, state) ==
  /\ Working /\ live.proposal[p].v < MaxVer /\ live.proposal[p].state \in {"none", "open"}
  /\ live.proposal[p].state = "none" => state = "open"
  /\ live' = [live EXCEPT !.proposal[p] = [v |-> @.v + 1, state |-> state]]
  /\ UNCHANGED <<kept, copy>>

(* applyItemRetention(): the sources of a proposal are cleaned up.         *)
CleanProposal(p) ==
  /\ Working /\ live.proposal[p].state = "open"
  /\ live' = [live EXCEPT !.proposal[p].state = "stale"]
  /\ UNCHANGED <<kept, copy>>

DeleteProposal(p) ==
  /\ Working /\ live.proposal[p].state \in {"open", "stale"}
  /\ live' = [live EXCEPT !.proposal[p] = [v |-> 0, state |-> "gone"]]
  /\ UNCHANGED <<kept, copy>>

Schedule(r) ==
  /\ Working /\ live.reminder[r].v < MaxVer /\ live.item[ItemOf[r]].v > 0
  /\ live' = [live EXCEPT !.reminder[r] =
       [v |-> @.v + 1, state |-> "SCHEDULED", item |-> live.item[ItemOf[r]].v]]
  /\ UNCHANGED <<kept, copy>>

Claim(r) ==
  /\ Working /\ live.reminder[r].state = "SCHEDULED" /\ live.item[ItemOf[r]].v > 0
  /\ live' = [live EXCEPT
       !.reminder[r].state = "DISPATCHING", !.claimed = @ \cup {<<r, live.reminder[r].v>>}]
  /\ UNCHANGED <<kept, copy>>

(* Commands give a new version, the watch over the items does not.         *)
End(r, state, more) ==
  /\ Working /\ live.reminder[r].state \in {"SCHEDULED", "DISPATCHING"}
  /\ state = "HANDLED" => live.reminder[r].state = "DISPATCHING" /\ more = 1
  /\ state = "EXPIRED" => live.reminder[r].state = "SCHEDULED" /\ more = 0
  /\ live.reminder[r].v + more <= MaxVer
  /\ live' = [live EXCEPT !.reminder[r].state = state, !.reminder[r].v = @ + more]
  /\ UNCHANGED <<kept, copy>>

Grant(g) ==
  /\ Working
  /\ live' = [live EXCEPT !.grant[g] = ~@]
  /\ UNCHANGED <<kept, copy>>

(* A connection is made, edited, given a key or loses it, or is turned on. *)
Connect(c, on, key) ==
  /\ Working /\ live.conn[c].v < MaxVer
  /\ live' = [live EXCEPT !.conn[c] = [v |-> @.v + 1, on |-> on, key |-> key]]
  /\ UNCHANGED <<kept, copy>>

SetPolicy(on) ==
  /\ Working /\ Connections # {} /\ live.policy.v < MaxVer
  /\ live' = [live EXCEPT !.policy = [v |-> @.v + 1, on |-> on, paused |-> FALSE]]
  /\ UNCHANGED <<kept, copy>>

Backup ==
  /\ Working
  /\ kept' = live
  /\ UNCHANGED <<live, copy>>
-----------------------------------------------------------------------------
(* applyProductionGovernance(): c is the copy, j the journal.              *)
RetiredRounds(c, j) ==
  {r \in Rounds : j.round[r] # "whole" \/ RoundSource(r) \in j.withdrawn}

OutdatedNotOlder(c, j) ==
  {m \in Memories : j.memory[m].state \in {"trash", "suppressed"}}

Outdated(c, j) ==
  {m \in Memories : \/ j.memory[m].state \in {"trash", "suppressed"}
                    \/ c.memory[m].v > 0 /\ c.memory[m].v < j.memory[m].v}

(* expandRestoredMemoryBarriers(): a memory goes with what it rests on.    *)
RestsAnyway(c, j, gone, m) ==
  \E s \in Rest(c, m) :
    /\ ~(s[1] = "memory" /\ s[2] = m)
    /\ \/ s \in j.withdrawn
       \/ s[1] = "memory" /\ (s[2] \in gone \/ s[3] < j.memory[s[2]].v)
       \/ s[1] = "round" /\ s[2] \in RetiredRounds(c, j)

Rests(c, j, gone, m) ==
  \E s \in Rest(c, m) :
    /\ ~(s[1] = "memory" /\ s[2] = m)
    /\ \/ s \in j.withdrawn
       \/ s[1] = "memory" /\ s[3] < j.memory[s[2]].v
       \/ /\ \/ s[1] = "memory" /\ s[2] \in gone
             \/ s[1] = "round" /\ s[2] \in RetiredRounds(c, j)
          /\ <<<<m, c.memory[m].v>>, s>> \notin c.edges \cup j.edges

ExpandedOnce(c, j, gone) == gone \cup {m \in Memories : c.memory[m].v > 0 /\ Rests(c, j, gone, m)}

RECURSIVE Expanded(_, _, _)
Expanded(c, j, gone) ==
  LET more == gone \cup {m \in Memories : c.memory[m].v > 0 /\ Rests(c, j, gone, m)}
  IN  IF more = gone THEN gone ELSE Expanded(c, j, more)

Bigger(a, b) == IF a > b THEN a ELSE b

MemoryAfterRenumbered(c, j) ==
  LET gone == Expanded(c, j, OutdatedNotOlder(c, j))
  IN  [m \in Memories |->
        IF m \in gone /\ c.memory[m].v > 0
          THEN [v |-> Bigger(c.memory[m].v, j.memory[m].v), state |-> "suppressed"]
          ELSE [c.memory[m] EXCEPT !.v = IF @ = 0 THEN 0 ELSE Bigger(@, j.memory[m].v)]]

MemoryAfter(c, j) ==
  LET gone == Expanded(c, j, Outdated(c, j))
  IN  [m \in Memories |->
        IF m \in gone /\ c.memory[m].v > 0
          THEN [v |-> Bigger(c.memory[m].v, j.memory[m].v), state |-> "suppressed"]
          ELSE c.memory[m]]

LaterItemsGone(c, j) == {i \in Items : i \in j.itemGone}

LaterItems(c, j) == {i \in Items : i \in j.itemGone \/ c.item[i].v \in 1..(j.item[i].v - 1)}

ItemAfterRenumbered(c, j) ==
  [i \in Items |->
     IF i \in j.itemGone THEN [v |-> 0, text |-> FALSE]
     ELSE IF i \in LaterItems(c, j) THEN [v |-> j.item[i].v, text |-> TRUE]
     ELSE c.item[i]]

ItemAfter(c, j) ==
  [i \in Items |->
     IF i \in j.itemGone THEN [v |-> 0, text |-> FALSE]
     ELSE IF i \in LaterItems(c, j) THEN [v |-> j.item[i].v, text |-> FALSE]
     ELSE c.item[i]]

ProposalAfterGone(c, j) ==
  [p \in Proposals |->
     IF j.proposal[p].state = "gone" THEN [v |-> 0, state |-> "gone"] ELSE c.proposal[p]]

ProposalAfter(c, j) ==
  [p \in Proposals |->
     IF c.proposal[p].v > 0 /\ (j.proposal[p].state = "gone" \/ c.proposal[p].v < j.proposal[p].v)
       THEN [v |-> 0, state |-> "gone"] ELSE c.proposal[p]]

(* applyRestoredReminderGovernance()                                       *)
ReminderAfterTrusting(c, j) ==
  [r \in Reminders |->
     LET p == j.reminder[r]  a == c.reminder[r]
     IN  IF a.v = 0 THEN a ELSE
         [v |-> Bigger(a.v, p.v), item |-> Bigger(a.item, p.item),
          state |-> IF p.state \in {"CANCELLED", "HANDLED"} THEN p.state
                    ELSE IF p.state # "SCHEDULED" THEN "RESULT_UNKNOWN" ELSE a.state]]

ReminderAfterUnsure(c, j) ==
  [r \in Reminders |-> [c.reminder[r] EXCEPT !.state = IF @ = "none" THEN @ ELSE "RESULT_UNKNOWN"]]

ReminderAfter(c, j) ==
  [r \in Reminders |->
     LET p == j.reminder[r]  a == c.reminder[r]  v == Bigger(a.v, p.v)
     IN  IF a.v = 0 THEN a ELSE
         [v |-> v, item |-> Bigger(a.item, p.item),
          state |-> IF p.state \in {"CANCELLED", "HANDLED"} THEN p.state
                    ELSE IF \/ p.v > a.v \/ p.state # "SCHEDULED"
                            \/ ItemOf[r] \in LaterItems(c, j) \/ <<r, v>> \in c.claimed \cup j.claimed
                      THEN "RESULT_UNKNOWN" ELSE a.state]]

(* markRestoredCredentialRevoked(): a key that was taken away or may be    *)
(* older than the connection is not used.                                  *)
RevokedAfterRemovedOnly(c, j) == {k \in Connections : j.conn[k].v > 0 /\ ~j.conn[k].key}

RevokedAfter(c, j) ==
  {k \in Connections : j.conn[k].v > 0 /\ (~j.conn[k].key \/ c.conn[k].v \in 1..(j.conn[k].v - 1))}

ConnAfter(c, j) ==
  [k \in Connections |->
     IF c.conn[k].v = 0 THEN c.conn[k] ELSE
     [v |-> Bigger(c.conn[k].v, j.conn[k].v), on |-> FALSE,
      key |-> c.conn[k].key /\ k \notin RevokedAfter(c, j)]]

GrantAfterKept(c, j) == [g \in Grants |-> c.grant[g]]

GrantAfter(c, j) == [g \in Grants |-> c.grant[g] /\ j.grant[g]]

PolicyAfter(c, j) ==
  [v |-> Bigger(c.policy.v, j.policy.v), on |-> c.policy.on /\ j.policy.on, paused |-> TRUE]

Governed(c, j) ==
  [c EXCEPT
     !.memory = MemoryAfter(c, j),
     !.round = [r \in Rounds |-> j.round[r]],
     !.withdrawn = @ \cup j.withdrawn,
     !.edges = @ \cup j.edges,
     !.item = ItemAfter(c, j), !.itemGone = @ \cup j.itemGone,
     !.proposal = ProposalAfter(c, j),
     !.reminder = ReminderAfter(c, j), !.claimed = @ \cup j.claimed,
     !.grant = GrantAfter(c, j),
     !.conn = ConnAfter(c, j), !.revoked = RevokedAfter(c, j),
     !.policy = PolicyAfter(c, j)]

(* assertGovernanceDominance(): a row of the copy is the journal's, or is  *)
(* withheld.                                                               *)
Shown(a, p) == a.v = 0 \/ a = p

Dominates(d, j) ==
  /\ j.withdrawn \subseteq d.withdrawn
  /\ \A r \in Rounds : j.round[r] = "retired" => d.round[r] = "retired"
  /\ \A m \in Memories : d.memory[m].state = "suppressed" \/ Shown(d.memory[m], j.memory[m])
  /\ \A i \in Items : d.item[i].v = 0 \/ d.item[i].v = j.item[i].v
  /\ \A p \in Proposals : Shown(d.proposal[p], j.proposal[p])
  /\ \A r \in Reminders :
       Shown(d.reminder[r], j.reminder[r])
         \/ d.reminder[r].state \in {"RESULT_UNKNOWN", "CANCELLED", "HANDLED"}
  /\ \A k \in Connections :
       d.conn[k].v = 0 \/ (~d.conn[k].on /\ (~j.conn[k].key => ~d.conn[k].key))
  /\ \A g \in Grants : d.grant[g] => j.grant[g]

Restore ==
  /\ Working /\ kept # None
  /\ copy' = IF Dominates(Governed(kept, live), live) THEN Governed(kept, live) ELSE Refused
  /\ UNCHANGED <<live, kept>>

(* The user stays with the data there is.                                  *)
Discard ==
  /\ copy # None
  /\ copy' = None
  /\ UNCHANGED <<live, kept>>

Init == live = Empty /\ kept = None /\ copy = None

Usable == {S \in SUBSET Source : Cardinality(S) <= 2}

MemoryWork ==
  \/ \E m \in Memories : MoveMemory(m) \/ Withdraw(m) \/ Purge(m) \/ \E S \in Usable : Remember(m, S)
  \/ \E r \in Rounds : TrashRound(r) \/ BringBack(r) \/ \E w \in BOOLEAN : PurgeRound(r, w)
  \/ PurgeAssistant

OtherWork ==
  \/ \E i \in Items : EditItem(i) \/ DeleteItem(i)
  \/ \E p \in Proposals :
       CleanProposal(p) \/ DeleteProposal(p) \/ \E s \in {"open", "accepted"} : Propose(p, s)
  \/ \E r \in Reminders :
       Schedule(r) \/ Claim(r) \/ \E s \in {"CANCELLED", "HANDLED", "EXPIRED"}, more \in {0, 1} : End(r, s, more)
  \/ \E g \in Grants : Grant(g)
  \/ \E c \in Connections, on, key \in BOOLEAN : Connect(c, on, key)
  \/ \E on \in BOOLEAN : SetPolicy(on)

Next == MemoryWork \/ OtherWork \/ Backup \/ Restore \/ Discard

Spec == Init /\ [][Next]_vars
-----------------------------------------------------------------------------
Versions ==
  /\ \A m \in Memories : live.memory[m].v \in Ver
  /\ \A r \in Reminders : live.reminder[r].v \in Ver

(* A row has a version exactly when it is there, and an edge is for a      *)
(* version its memory has had (the shape of the governed rows).            *)
TypeOK ==
  /\ Versions
  /\ \A m \in Memories : (live.memory[m].v = 0) = (live.memory[m].state = "none")
  /\ \A e \in live.edges : e[1][2] \in 1..live.memory[e[1][1]].v
  /\ copy \in {None, Refused} \/ copy.revoked \subseteq Connections

Restored == copy \notin {None, Refused}

(* No memory can be read in a restored copy that could not be read, in     *)
(* the same version, in the data it was backed up from: not a withdrawn    *)
(* or corrected text, nor one that rests on such a text                    *)
(* (production-governance-apply.ts:55-80).                                 *)
NothingReturns ==
  Restored => \A m \in Memories :
    Readable(copy, m) => Readable(live, m) /\ live.memory[m].v = kept.memory[m].v

(* Whatever text a restored copy keeps rests on texts it keeps too, unless *)
(* an edge was retained: deletions go through to what was made of what was *)
(* made of the deleted (production-governance-dependencies.ts:39-63).      *)
NoOrphanText ==
  Restored => \A m \in Memories : copy.memory[m].state = "active" =>
    \A s \in Rest(copy, m) :
      /\ s \notin copy.withdrawn
      /\ \/ <<<<m, copy.memory[m].v>>, s>> \in copy.edges
         \/ IF s[1] = "round" THEN copy.round[s[2]] = "whole"
            ELSE copy.memory[s[2]] = [v |-> s[3], state |-> "active"]

(* What nobody touched since the backup is not lost by restoring it: a     *)
(* memory that could be read and can be, with all the memories it rests    *)
(* on, and a reminder that is still due                                    *)
(* (production-governance-reminders.ts:5, "unchanged healthy schedules     *)
(* remain usable").                                                        *)
HealthyStays ==
  Restored =>
    /\ \A m \in Memories :
         /\ Readable(kept, m) /\ kept.memory[m] = live.memory[m]
         /\ \A s \in Closure(live, {MemorySource(m, live.memory[m].v)}) :
              s[1] = "memory" => Readable(live, s[2])
         => Readable(copy, m)
    /\ \A r \in Reminders :
         /\ kept.reminder[r] = live.reminder[r] /\ live.reminder[r].state = "SCHEDULED"
         /\ kept.item[ItemOf[r]] = live.item[ItemOf[r]] /\ live.item[ItemOf[r]].v > 0
         => copy.reminder[r] = live.reminder[r]

(* A reminder that was shown, handled, cancelled or put off since the      *)
(* backup is not due again in the restored copy, nor is one whose item     *)
(* changed (production-governance-reminders.ts:16-43).                     *)
NotRemindedAgain ==
  Restored => \A r \in Reminders : copy.reminder[r].state = "SCHEDULED" =>
    /\ <<r, copy.reminder[r].v>> \notin live.claimed
    /\ live.reminder[r] = copy.reminder[r]
    /\ live.item[ItemOf[r]] = copy.item[ItemOf[r]]

(* Nothing may be sent or done in a restored copy that was forbidden       *)
(* since: no wider permission, no key but the connection's latest, no      *)
(* connection on, no policy at work (production-governance-apply.ts:       *)
(* 240-281, 306-355).                                                      *)
NothingWider ==
  Restored =>
    /\ \A g \in Grants : copy.grant[g] => live.grant[g]
    /\ \A k \in Connections :
         /\ ~copy.conn[k].on
         /\ copy.conn[k].key => live.conn[k].key /\ live.conn[k].v = kept.conn[k].v
    /\ copy.policy.paused /\ (copy.policy.on => live.policy.on)

(* A restored copy shows a formal item only with the content it has now: a *)
(* later content that is missing is not made up from the older one         *)
(* (production-governance-apply.ts:208-228).                               *)
ItemsAreCurrent ==
  Restored => \A i \in Items :
    copy.item[i].text => kept.item[i] = live.item[i] /\ copy.item[i] = live.item[i]

(* What cleaning has done to a proposal since the backup.                  *)
CleanedSince(p) == kept.proposal[p].state = "open" /\ live.proposal[p] = [kept.proposal[p] EXCEPT !.state = "stale"]

(* Later deletions, corrections and revocations are applied, they do not   *)
(* make a backup useless (user-guide.md:47): a restoration is refused for  *)
(* no other reason than a proposal the backup has open and whose sources   *)
(* were cleaned since.                                                     *)
OnlyCleanedRefuse == copy = Refused => \E p \in Proposals : CleanedSince(p)

(* The same without the exception (user-guide.md:47).                      *)
NeverRefused == copy # Refused
=============================================================================
