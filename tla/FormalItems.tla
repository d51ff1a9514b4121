------------------------------- MODULE FormalItems -------------------------------
(***************************************************************************)
(* Formal items and proposals: item-service.ts, with the part of a chat    *)
(* round that reads and writes them, item-tool-session.ts.  Items link to  *)
(* each other (a parent, related items) and remember the sources they were *)
(* made from: rounds, other items and proposals, each at a version.  What  *)
(* cuts links or rewrites an item for a round is prepared as a preview and *)
(* confirmed by the user, if nothing at all changed in between.            *)
(*                                                                         *)
(* Every handler is one transaction; a round is many turns, and what it    *)
(* has read may be changed or withdrawn before it writes.  A command known *)
(* already returns its receipt and changes nothing, which is no step here. *)
(* The hash of the tables in a preview is kept as `fresh': nothing in them *)
(* changed since.  Contents are their links and whether they are open.     *)
(***************************************************************************)
EXTENDS Integers, Sequences, FiniteSets, FiniteSetsExt

CONSTANTS
  Item, Prop, Round, Cmd,    \* ids; commands of windows
  Related,                   \* items a content may be related to
  MaxVer, MaxWithdrawn,      \* bounds
  None

ItemAssumption ==
  MaxVer \in Nat \ {0} /\ MaxWithdrawn \in Nat /\ Related \subseteq Item

Content == [parent : Item \cup {None}, related : {{}} \cup {{j} : j \in Related},
            open : BOOLEAN]
Id == Cmd \cup (Round \X {"intent", "update"})     \* itemOperationId of a round

VARIABLES
  item,      \* durable: version 0: no such item
  dead,      \* durable: item_tombstones
  prop,      \* durable: item_proposals, version 0: none
  edges,     \* durable: item_sources and dependencies of rounds
  gone,      \* durable: withdrawn rounds
  done,      \* durable: ids in item_commands
  conf,      \* durable: item_confirmations, by command
  round,     \* volatile: state, what is selected, what it was given
  revived    \* history: proposals accepted again

vars == <<item, dead, prop, edges, gone, done, conf, round, revived>>

Nothing == [parent |-> None, related |-> {}, open |-> TRUE]
NoItemOne == [ver |-> -1, content |-> Nothing, sources |-> {}, from |-> None]

NoItem == [ver |-> 0, content |-> Nothing, sources |-> {}, from |-> None]

NoProp == [ver |-> 0, state |-> "none", content |-> Nothing, sources |-> {}]
NoConf == [state |-> "none", kind |-> "delete", target |-> None, content |-> Nothing,
           related |-> {}, sources |-> {}, fresh |-> FALSE]
NoRound == [state |-> "none", selected |-> None, given |-> {}]

Items == {i \in Item : item[i].ver > 0}
ItemNode(i) == <<"item", i, item[i].ver>>
PropNode(p) == <<"proposal", p, prop[p].ver>>
RoundNode(r) == <<"round", r, 1>>
UserNode(r) == <<"user-round", r, 1>>
-----------------------------------------------------------------------------
(***************************************************************************)
(* Sources.                                                                *)
(***************************************************************************)
(* itemSourceClosure().                                                    *)
Onward(nodes) == nodes \cup {e[2] : e \in {e \in edges : e[1] \in nodes}}
Closure(nodes) ==
  LET deep == Cardinality({e[1] : e \in edges})
      up[k \in 0..deep] ==
        IF k = 0 THEN nodes ELSE UNION {Onward(below) : below \in {up[k - 1]}}
  IN up[deep]

(* assertSource(): every version up the sources is the present one and     *)
(* nothing up there was withdrawn.                                         *)
Present(n) ==
  CASE n[1] = "item" -> item[n[2]].ver = n[3]
    [] n[1] = "proposal" -> prop[n[2]].ver = n[3] /\ prop[n[2]].state # "none"
    [] OTHER -> n[2] \notin gone

Usable(n) == \A x \in Closure({n}) : Present(x)
Unavailable(sources) == \E x \in Closure(sources) : x[1] \in {"round", "user-round"} /\ x[2] \in gone

(* mergeItemSources(): not itself; an item that would rest on itself in    *)
(* another way is refused.                                                 *)
MergeAny(sources, i) == [ok |-> TRUE, sources |-> sources \ {ItemNode(i)}]

Merge(sources, i) ==
  LET merged == sources \ {ItemNode(i)} IN
  [ok |-> \A x \in Closure(merged) : ~(x[1] = "item" /\ x[2] = i), sources |-> merged]

-----------------------------------------------------------------------------
(***************************************************************************)
(* Contents.                                                               *)
(***************************************************************************)
Links(c) == c.related \cup ({c.parent} \ {None})

(* checkContent(): the links exist; going up the parents never meets       *)
(* the item itself.                                                        *)
Above(i) ==
  LET step[k \in 0..Cardinality(Item)] ==
        IF k = 0 THEN {i}
        ELSE LET below == step[k - 1] IN
             below \cup {item[j].content.parent : j \in below \ {None}}
  IN step[Cardinality(Item)] \ {None}

CheckedLinks(c, i) == i \notin Links(c) /\ Links(c) \subseteq Items

Checked(c, i) ==
  /\ i \notin Links(c) /\ Links(c) \subseteq Items
  /\ c.parent # None => i \notin Above(c.parent)

(* An update keeps the links there are: only a confirmation cuts them.     *)
KeepsLinks(old, new) ==
  /\ old.parent # None => new.parent = old.parent
  /\ old.related \subseteq new.related

Edges(node, sources) == edges \cup {<<node, s>> : s \in sources}

(* Any change of items, proposals or withdrawals makes all previews old.   *)
Stale == [c \in Id |-> [conf[c] EXCEPT !.fresh = FALSE]]

(* command(): a command is applied once; the id of a preview is reserved.  *)
Free(c) == c \notin done /\ conf[c].state = "none"

Save(i, record) ==
  /\ record.ver <= MaxVer
  /\ item' = [item EXCEPT ![i] = record]
  /\ edges' = Edges(<<"item", i, record.ver>>, record.sources)
  /\ conf' = Stale
-----------------------------------------------------------------------------
(***************************************************************************)
(* mutate() of a window: its sources are those of the item, or none.       *)
(***************************************************************************)
Create(c, i, content) ==
  /\ Free(c) /\ i \notin Items \cup dead /\ Checked(content, i)
  /\ Save(i, [ver |-> 1, content |-> content, sources |-> {}, from |-> None])
  /\ done' = done \cup {c}
  /\ UNCHANGED <<dead, prop, gone, round, revived>>

Rewrite(c, i, content) ==
  /\ Free(c) /\ i \in Items /\ KeepsLinks(item[i].content, content) /\ Checked(content, i)
  /\ Save(i, [item[i] EXCEPT !.ver = @ + 1, !.content = content, !.sources = {}])
  /\ done' = done \cup {c}
  /\ UNCHANGED <<dead, prop, gone, round, revived>>

Transition(c, i) ==
  LET m == Merge(item[i].sources, i) IN
  /\ Free(c) /\ i \in Items /\ Checked(item[i].content, i) /\ m.ok
  /\ Save(i, [item[i] EXCEPT !.ver = @ + 1, !.content.open = ~@, !.sources = m.sources])
  /\ done' = done \cup {c}
  /\ UNCHANGED <<dead, prop, gone, round, revived>>

(***************************************************************************)
(* actProposal() of a window.                                              *)
(***************************************************************************)
AcceptableAgain(p) == prop[p].ver > 0

Acceptable(p) == prop[p].ver > 0 /\ prop[p].state # "ACCEPTED"

Accepted(c, p, i) ==
  /\ Free(c) /\ Acceptable(p) /\ ~Unavailable(prop[p].sources)
  /\ i \notin Items \cup dead /\ Checked(prop[p].content, i)
  /\ \A j \in Items : item[j].from # p                 \* the column is unique
  /\ prop[p].ver < MaxVer
  /\ Save(i, [ver |-> 1, content |-> prop[p].content, sources |-> prop[p].sources, from |-> p])
  /\ prop' = [prop EXCEPT ![p].ver = @ + 1, ![p].state = "ACCEPTED"]
  /\ revived' = IF prop[p].state = "ACCEPTED" THEN revived \cup {p} ELSE revived
  /\ done' = done \cup {c}
  /\ UNCHANGED <<dead, gone>>

Accept(c, p, i) == Accepted(c, p, i) /\ UNCHANGED round

(* Only a revision changes the candidate.                                  *)
Act(c, p, state, content) ==
  /\ Free(c) /\ Acceptable(p) /\ prop[p].ver < MaxVer
  /\ state = "DISCUSSING" => ~Unavailable(prop[p].sources)
  /\ content # prop[p].content => state = "DISCUSSING" /\ Links(content) \subseteq Items
  /\ prop' = [prop EXCEPT ![p].ver = @ + 1, ![p].state = state, ![p].content = content]
  /\ edges' = Edges(<<"proposal", p, prop[p].ver + 1>>, prop[p].sources)
  /\ conf' = Stale /\ done' = done \cup {c}
  /\ UNCHANGED <<item, dead, gone, round, revived>>
-----------------------------------------------------------------------------
(***************************************************************************)
(* preview() and confirm().                                                *)
(***************************************************************************)
LinkedTo(i) == {j \in Items : i \in Links(item[j].content)}

Plan(kind, i, content, sources) ==
  [state |-> "pending", kind |-> kind, target |-> i, content |-> content,
   related |-> LinkedTo(i), sources |-> sources, fresh |-> TRUE]

PreviewLocal(c, kind, i, content) ==
  /\ Free(c) /\ i \in Items
  /\ kind = "links" => Checked(content, i)
  /\ conf' = [conf EXCEPT ![c] = Plan(kind, i, content, item[i].sources)]
  /\ UNCHANGED <<item, dead, prop, edges, gone, done, round, revived>>

CutKept(content, i) == content

Cut(content, i) ==
  [content EXCEPT !.parent = IF @ = i THEN None ELSE @, !.related = @ \ {i}]

ConfirmableAny(c) == conf[c].state = "pending" /\ c \notin done

Confirmable(c) == conf[c].state = "pending" /\ conf[c].fresh /\ c \notin done

Closed(c) == [Stale EXCEPT ![c] = [NoConf EXCEPT !.state = "closed"]]

ConfirmDelete(c) ==
  LET i == conf[c].target
      linked == LinkedTo(i) IN
  /\ Confirmable(c) /\ conf[c].kind = "delete" /\ i \in Items
  /\ \A j \in linked : item[j].ver < MaxVer
  /\ item' = [j \in Item |->
       IF j = i THEN NoItem
       ELSE IF j \in linked THEN [item[j] EXCEPT !.ver = @ + 1, !.content = Cut(@, i)]
       ELSE item[j]]
  /\ edges' = edges \cup UNION {{<<<<"item", j, item[j].ver + 1>>, s>> : s \in item[j].sources}
                                 : j \in linked}
  /\ dead' = dead \cup {i}
  /\ conf' = Closed(c) /\ done' = done \cup {c}
  /\ UNCHANGED <<prop, gone, round, revived>>

ConfirmReplace(c) ==
  LET i == conf[c].target IN
  /\ Confirmable(c) /\ conf[c].kind \in {"links", "content"} /\ i \in Items
  /\ Checked(conf[c].content, i) /\ item[i].ver < MaxVer
  /\ item' = [item EXCEPT ![i].ver = @ + 1, ![i].content = conf[c].content,
                          ![i].sources = conf[c].sources]
  /\ edges' = Edges(<<"item", i, item[i].ver + 1>>, conf[c].sources)
  /\ conf' = Closed(c) /\ done' = done \cup {c}
  /\ UNCHANGED <<dead, prop, gone, round, revived>>

Refuse(c) ==
  /\ conf[c].state = "pending" /\ c \notin done
  /\ conf' = [conf EXCEPT ![c] = [NoConf EXCEPT !.state = "closed"]]
  /\ done' = done \cup {c}
  /\ UNCHANGED <<item, dead, prop, edges, gone, round, revived>>
-----------------------------------------------------------------------------
(***************************************************************************)
(* A round: prepare(), search, and the writes.  A finished round may be    *)
(* in the context of a later one.                                          *)
(***************************************************************************)
Over == {r \in Round : round[r].state = "over"}

Start(r, selected, context) ==
  /\ round[r].state = "none" /\ context \subseteq Over
  /\ selected \in {ItemNode(i) : i \in Items} \cup {PropNode(p) : p \in {q \in Prop : prop[q].ver > 0}}
                   \cup {None}
  /\ selected # None => Usable(selected)
  /\ \A x \in context : Usable(RoundNode(x))
  /\ round' = [round EXCEPT ![r] = [state |-> "on", selected |-> selected,
       given |-> {UserNode(r)} \cup {RoundNode(x) : x \in context} \cup ({selected} \ {None})]]
  /\ edges' = Edges(RoundNode(r), {UserNode(r)} \cup ({selected} \ {None})
                                  \cup {RoundNode(x) : x \in context})
  /\ UNCHANGED <<item, dead, prop, gone, done, conf, revived>>

Search(r) ==
  LET found == {n \in {ItemNode(i) : i \in Items}
                       \cup {PropNode(p) : p \in {q \in Prop : prop[q].ver > 0}} : Usable(n)} IN
  /\ round[r].state = "on" /\ ~found \subseteq round[r].given
  /\ round' = [round EXCEPT ![r].given = @ \cup found]
  /\ edges' = Edges(RoundNode(r), found)
  /\ UNCHANGED <<item, dead, prop, gone, done, conf, revived>>

(* assertCurrent() and assertSource() of all the round was given.          *)
MayWriteAny(r) == round[r].state = "on"

MayWrite(r) == round[r].state = "on" /\ \A n \in round[r].given : Usable(n)

(* Its own write replaces the version it was given.                        *)
Known(r, kind, id) ==
  [round EXCEPT ![r].given = {n \in @ : ~(n[1] = kind /\ n[2] = id)}]

RoundCreate(r, i) ==
  /\ MayWrite(r) /\ Free(<<r, "intent">>) /\ i \notin Items \cup dead
  /\ Save(i, [ver |-> 1, content |-> Nothing, sources |-> round[r].given, from |-> None])
  /\ round' = Known(r, "item", i) /\ done' = done \cup {<<r, "intent">>}
  /\ UNCHANGED <<dead, prop, gone, revived>>

RoundTransition(r, i) ==
  LET m == Merge(item[i].sources \cup round[r].given, i) IN
  /\ MayWrite(r) /\ Free(<<r, "intent">>) /\ i \in Items /\ Usable(ItemNode(i))
  /\ Checked(item[i].content, i) /\ m.ok
  /\ Save(i, [item[i] EXCEPT !.ver = @ + 1, !.content.open = ~@, !.sources = m.sources])
  /\ round' = Known(r, "item", i) /\ done' = done \cup {<<r, "intent">>}
  /\ UNCHANGED <<dead, prop, gone, revived>>

RoundAccept(r, p, i) ==
  /\ MayWrite(r) /\ round[r].selected = PropNode(p) /\ Usable(PropNode(p))
  /\ Accepted(<<r, "intent">>, p, i)
  /\ round' = Known(r, "proposal", p)

(* apply_item_intent of a removal, and prepare_item_update: previews.      *)
RoundPreview(r, id, kind, i, content) ==
  LET m == Merge(item[i].sources \cup round[r].given, i) IN
  /\ MayWrite(r) /\ Free(<<r, id>>) /\ i \in Items /\ Usable(ItemNode(i))
  /\ \A j \in LinkedTo(i) : Usable(ItemNode(j))
  /\ kind = "content" => round[r].selected = ItemNode(i) /\ Checked(content, i) /\ m.ok
  /\ conf' = [conf EXCEPT ![<<r, id>>] =
       Plan(kind, i, content, IF kind = "content" THEN m.sources ELSE item[i].sources)]
  /\ UNCHANGED <<item, dead, prop, edges, gone, done, round, revived>>

(* propose_item: one proposal for one suggestion, whatever became of it.   *)
Propose(r, p, content) ==
  /\ MayWrite(r) /\ prop[p].ver = 0 /\ Links(content) \subseteq Items
  /\ \A j \in Links(content) : Usable(ItemNode(j))
  /\ prop' = [prop EXCEPT ![p] = [ver |-> 1, state |-> "DRAFT_PROPOSAL", content |-> content,
                                  sources |-> round[r].given]]
  /\ edges' = Edges(<<"proposal", p, 1>>, round[r].given)
  /\ conf' = Stale
  /\ UNCHANGED <<item, dead, gone, done, round, revived>>

(* revise_item_proposal: of the selected one.                              *)
Revise(r, p, content) ==
  LET sources == prop[p].sources
                 \cup {n \in round[r].given : ~(n[1] = "proposal" /\ n[2] = p)} IN
  /\ MayWrite(r) /\ Free(<<r, "update">>) /\ round[r].selected = PropNode(p)
  /\ Acceptable(p) /\ Usable(PropNode(p)) /\ prop[p].ver < MaxVer
  /\ Links(content) \subseteq Items
  /\ prop' = [prop EXCEPT ![p] = [ver |-> prop[p].ver + 1, state |-> "DISCUSSING",
                                  content |-> content, sources |-> sources]]
  /\ edges' = Edges(<<"proposal", p, prop[p].ver + 1>>, sources)
  /\ round' = Known(r, "proposal", p)
  /\ conf' = Stale /\ done' = done \cup {<<r, "update">>}
  /\ UNCHANGED <<item, dead, gone, revived>>

End(r) ==
  /\ round[r].state = "on"
  /\ round' = [round EXCEPT ![r] = [NoRound EXCEPT !.state = "over"]]
  /\ UNCHANGED <<item, dead, prop, edges, gone, done, conf, revived>>

(* A round's text is withdrawn, with a memory that was made from it.       *)
Withdraw(r) ==
  /\ round[r].state # "none" /\ r \notin gone /\ Cardinality(gone) < MaxWithdrawn
  /\ gone' = gone \cup {r} /\ conf' = Stale
  /\ UNCHANGED <<item, dead, prop, edges, done, round, revived>>
-----------------------------------------------------------------------------
Init ==
  /\ item = [i \in Item |-> NoItem] /\ dead = {}
  /\ prop = [p \in Prop |-> NoProp] /\ edges = {} /\ gone = {} /\ done = {}
  /\ conf = [c \in Id |-> NoConf] /\ round = [r \in Round |-> NoRound] /\ revived = {}

Window ==
  \E c \in Cmd :
    \/ \E i \in Item : \/ \E x \in Content : Create(c, i, x) \/ Rewrite(c, i, x)
                       \/ Transition(c, i)
                       \/ \E p \in Prop : Accept(c, p, i)
                       \/ PreviewLocal(c, "delete", i, Nothing)
                       \/ \E x \in Content : PreviewLocal(c, "links", i, x)
    \/ \E p \in Prop, s \in {"REJECTED", "DEFERRED", "DRAFT_PROPOSAL", "DISCUSSING"}, x \in Content :
         Act(c, p, s, x)

Chat ==
  \E r \in Round :
    \/ \E context \in SUBSET Over :
         \/ \E i \in Item : Start(r, ItemNode(i), context)
         \/ \E p \in Prop : Start(r, PropNode(p), context)
         \/ Start(r, None, context)
    \/ Search(r) \/ End(r) \/ Withdraw(r)
    \/ \E i \in Item : \/ RoundCreate(r, i) \/ RoundTransition(r, i)
                       \/ RoundPreview(r, "intent", "delete", i, Nothing)
                       \/ \E x \in Content : RoundPreview(r, "update", "content", i, x)
    \/ \E p \in Prop, i \in Item : RoundAccept(r, p, i)
    \/ \E p \in Prop, x \in Content : Propose(r, p, x) \/ Revise(r, p, x)

Next ==
  \/ Window \/ Chat
  \/ \E c \in Id : ConfirmDelete(c) \/ ConfirmReplace(c) \/ Refuse(c)

Spec == Init /\ [][Next]_vars
-----------------------------------------------------------------------------
(* The variables have their types.                                         *)
TypeOK ==
  /\ \A i \in Item : item[i].ver \in 0..MaxVer /\ item[i].content \in Content
  /\ dead \subseteq Item
  /\ \A p \in Prop : prop[p].ver \in 0..MaxVer /\ prop[p].content \in Content
  /\ gone \subseteq Round /\ done \subseteq Id
  /\ \A c \in Id : conf[c].state \in {"none", "pending", "closed"}
  /\ \A r \in Round : round[r].state \in {"none", "on", "over"}

(* Links lead to items that are there, and no item is above itself,        *)
(* whatever is deleted, rewritten, accepted late or confirmed late.        *)
LinksAreSound ==
  \A i \in Items : Links(item[i].content) \subseteq Items
                   /\ (item[i].content.parent # None => i \notin Above(item[i].content.parent))

(* No item rests on a version of itself through others, rounds included:   *)
(* its own changes can always be stored.                                   *)
NoItemRestsOnItself ==
  \A i \in Items : \A x \in Closure(item[i].sources) : ~(x[1] = "item" /\ x[2] = i)

(* A confirmed removal changes the items its preview named and no other.   *)
ConfirmedAsShownStep ==
  \A c \in Id : (conf[c].state = "pending" /\ conf'[c].state = "closed") =>
    \A i \in Item : item'[i] # item[i] => i = conf[c].target
                                          \/ (conf[c].kind = "delete" /\ i \in conf[c].related)

ConfirmedAsShown == [][ConfirmedAsShownStep]_vars

(* Withdrawn text does not spread: no write makes an item or a proposal     *)
(* rest on a withdrawn round, through any chain of others, that did not    *)
(* already; not a round that read it before, nor a confirmation made late. *)
WithdrawnDoesNotSpreadStep ==
  /\ \A i \in Item : Unavailable(item[i].sources)' /\ item'[i] # item[i]
                      => Unavailable(item[i].sources)
  /\ \A p \in Prop : Unavailable(prop[p].sources)' /\ prop'[p] # prop[p]
                      => Unavailable(prop[p].sources)

WithdrawnDoesNotSpread == [][WithdrawnDoesNotSpreadStep]_vars

(* An accepted proposal is not accepted again, its item deleted or not.    *)
AcceptedIsFinal == revived = {}
==============================================================================
