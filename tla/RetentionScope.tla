------------------------------ MODULE RetentionScope ------------------------------
(***************************************************************************)
(* What a clearing reaches, and what stays usable after it:                *)
(* plan() of retention-service.ts with the sources of texts and rounds,    *)
(* and assertSource() of memory-service.ts, which decides on every use.    *)
(*                                                                         *)
(* Texts rest on rounds, on other texts, or on the word of the user (a     *)
(* mark of their own); rounds rest on the texts they were given and on the *)
(* rounds shown as history.  Here a preview and its confirmation are one   *)
(* step: RetentionCleanup shows what may come between.                     *)
(***************************************************************************)
EXTENDS Integers, Sequences, FiniteSets, FiniteSetsExt, SequencesExt

CONSTANTS
  Asst, Mem, Round,
  Owner,         \* function: the assistant of a node
  Global,        \* the texts all assistants share
  MaxSteps       \* bound

ScopeAssumption ==
  /\ Mem \cap Round = {} /\ Global \subseteq Mem
  /\ Owner \in [Mem \cup Round -> Asst]

Node == Mem \cup Round
Mark(m) == <<"manual", m>>
MarkOf(x) == CHOOSE m \in Mem : x = Mark(m)
OwnerOf(x) == IF x \in Node THEN Owner[x] ELSE Owner[MarkOf(x)]

VARIABLES
  rests,      \* memory_dependencies: the direct sources of a node
  shown,      \* timeline_sources: rounds shown to a round
  made,       \* nodes there are
  gone,       \* content_tombstones, also of emptied rows
  withdrawn,  \* memory_suppressions of kind 'withdrawal'
  aside,      \* retention_original_trash
  edges,      \* retained_source_edges: object, source and recipient
  purged,     \* assistant_tombstones
  allowed,    \* assistants whose history may be read and sent
  act,        \* what was done last (for properties), with what was usable
  steps

vars == <<rests, shown, made, gone, withdrawn, aside, edges, purged, allowed, act, steps>>
-----------------------------------------------------------------------------
(* closure(): the given nodes and all they rest on.                        *)
Up(S) ==
  LET up[k \in 0..Cardinality(Node)] ==
        IF k = 0 THEN S
        ELSE LET below == up[k - 1] IN below \cup UNION {rests[n] : n \in below \cap made}
  IN up[Cardinality(Node)]

(***************************************************************************)
(* assertSource(): every path down is walked; a source that is retired     *)
(* stays usable below a text that retained it for this recipient.          *)
(***************************************************************************)
RECURSIVE Usable(_, _, _)

(* Wrong variant: a withdrawal is not asked for.                           *)
BarredRetired(d, b, kept) ==
  \/ (d \in gone \cup aside \/ (d \notin Mem /\ OwnerOf(d) \in purged)) /\ ~kept
  \/ d \in Mem /\ ~kept /\ d \notin Global /\ Owner[d] # b
  \/ d \in Round /\ ~kept /\ Owner[d] \notin allowed

Barred(d, b, kept) ==
  \/ d \in withdrawn
  \/ (d \in gone \cup aside \/ (d \notin Mem /\ OwnerOf(d) \in purged)) /\ ~kept
  \/ d \in Mem /\ ~kept /\ d \notin Global /\ Owner[d] # b
  \/ d \in Round /\ ~kept /\ Owner[d] \notin allowed

Usable(d, b, above) ==
  LET kept == \E m \in above : <<m, d, b>> \in edges IN
  /\ ~Barred(d, b, kept)
  /\ d \in Node => \A c \in rests[d] : Usable(c, b, above \cup ({d} \cap Mem))

UsableNow == {x \in (made \cap Mem) \X (Asst \ purged) : Usable(x[1], x[2], {})}
-----------------------------------------------------------------------------
(***************************************************************************)
(* plan(): the roots, and passes over all texts and rounds until nothing   *)
(* is added.  A plan has the texts and rounds that go, the keys hit, and   *)
(* the texts that are kept although they rest on something that goes.      *)
(***************************************************************************)
(* Records whose rows are emptied have no sources left.                    *)
Live == (made \cap Mem) \ gone

Roots(a, intent, target) ==
  LET mems == IF intent = "purge" THEN {m \in Live \ Global : Owner[m] = a}
              ELSE target \cap Mem
      from == IF intent = "purge" THEN {r \in made \cap Round : Owner[r] = a}
              ELSE target \cap Round
      basis == IF intent = "withdraw" THEN Up(UNION {rests[m] : m \in mems}) ELSE {}
      rounds == from \cup (basis \cap Round)
      trash == intent = "restore" \/ (intent = "empty" /\ target \cap Mem = {})
  IN IF trash
     THEN [mems |-> {}, rounds |-> rounds \cap aside, hit |-> rounds \cap aside,
           kept |-> {}]
     ELSE [mems |-> mems, rounds |-> rounds, hit |-> mems \cup rounds \cup basis,
           kept |-> {}]

(* One text is looked at.                                                  *)
Scan(s, m, a, intent) ==
  IF m \in s.mems \/ Up(rests[m]) \cap s.hit = {} THEN s
  ELSE IF \/ intent = "purge" /\ (m \in Global \/ Owner[m] # a)
          \/ intent = "recycle"
       THEN [s EXCEPT !.kept = @ \cup {m}]
       ELSE [s EXCEPT !.mems = @ \cup {m}, !.hit = @ \cup {m}]

(* Wrong variant: only what was shown as history is followed.              *)
RoundsShown(s) ==
  LET more == {r \in made \cap Round : shown[r] \cap s.hit # {}}
  IN [s EXCEPT !.rounds = @ \cup more, !.hit = @ \cup more]

Rounds(s) ==
  LET more == {r \in made \cap Round : (rests[r] \cup shown[r]) \cap s.hit # {}}
  IN [s EXCEPT !.rounds = @ \cup more, !.hit = @ \cup more]

Pass(s, order, a, intent) ==
  Rounds(FoldLeft(LAMBDA t, m : Scan(t, m, a, intent), s, order))

(* Wrong variant: one pass, and no other.                                  *)
GrownOnce(s, order, a, intent) == Pass(s, order, a, intent)

RECURSIVE Grown(_, _, _, _)
Grown(s, order, a, intent) ==
  LET t == Pass(s, order, a, intent)
  IN IF t.mems = s.mems /\ t.rounds = s.rounds THEN t ELSE Grown(t, order, a, intent)

Plan(a, intent, target) ==
  LET s == Roots(a, intent, target)
  IN IF intent = "restore" THEN s ELSE Grown(s, SetToSeq(Live), a, intent)
-----------------------------------------------------------------------------
(***************************************************************************)
(* What blocks a plan, and what its confirmation does.                     *)
(***************************************************************************)
Chapter(r) ==           \* an accepted product that covers a round
  \E m \in Live \ Global : r \in rests[m] /\ Owner[m] = Owner[r]

Blocked(a, intent, p) ==
  \/ p.mems = {} /\ p.rounds = {} /\ intent # "purge"
  \/ intent = "recycle" /\ \E r \in p.rounds : r \in aside \cup gone \/ ~Chapter(r) \/ Owner[r] # a
  \/ intent = "restore" /\ \E r \in p.rounds :
       ~Chapter(r) \/ Up({r}) \cap withdrawn # {} \/ r \in gone

(* The sources that will not be readable any more, for each text that is   *)
(* kept, and who may use them today.                                       *)
EdgesOf(a, intent, p, Below(_), May(_, _)) ==
  {e \in Live \X (Node \cup {Mark(m) : m \in Mem}) \X Asst :
     LET m == e[1]  d == e[2]  b == e[3] IN
     /\ intent \in {"purge", "recycle"}
     /\ intent = "recycle" \/ m \in Global \/ Owner[m] # a
     /\ d \in Below(m)
     /\ IF intent = "recycle" THEN d \in p.rounds
        ELSE OwnerOf(d) = a /\ d \notin Global
     /\ b \notin purged /\ (intent = "purge" => b # a) /\ May(d, b)}

(* Wrong variants: nothing when originals are put aside; any text's        *)
(* sources; whoever may read the text, not the source.                     *)
RetainedPurge(a, intent, p) ==
  IF intent = "recycle" THEN {}
  ELSE EdgesOf(a, intent, p, LAMBDA m : Up(rests[m]), LAMBDA d, b : Usable(d, b, {}))

RetainedAny(a, intent, p) ==
  EdgesOf(a, intent, p, LAMBDA m : Up(Live), LAMBDA d, b : Usable(d, b, {}))

RetainedForAll(a, intent, p) ==
  EdgesOf(a, intent, p, LAMBDA m : Up(rests[m]), LAMBDA d, b : TRUE)

Retained(a, intent, p) ==
  EdgesOf(a, intent, p, LAMBDA m : Up(rests[m]), LAMBDA d, b : Usable(d, b, {}))

Did(a, intent, p) ==
  /\ act' = [by |-> a, intent |-> intent, plan |-> p, usable |-> UsableNow]
  /\ steps < MaxSteps /\ steps' = steps + 1

Govern(a, intent, target) ==
  LET p == Plan(a, intent, target) IN
  /\ a \notin purged /\ ~Blocked(a, intent, p) /\ Did(a, intent, p)
  /\ edges' = (edges \ {e \in edges : \E f \in Retained(a, intent, p) :
                          e[1] = f[1] /\ e[2] = f[2]}) \cup Retained(a, intent, p)
  /\ aside' = CASE intent = "recycle" -> aside \cup p.rounds
                [] intent = "restore" -> aside \ p.rounds
                [] OTHER -> aside
  /\ gone' = IF intent \in {"recycle", "restore"} THEN gone ELSE gone \cup p.mems \cup p.rounds
  /\ withdrawn' = IF intent = "withdraw" THEN withdrawn \cup p.mems \cup p.rounds
                  ELSE withdrawn
  /\ purged' = IF intent = "purge" THEN purged \cup {a} ELSE purged
  /\ UNCHANGED <<rests, shown, made, allowed>>
-----------------------------------------------------------------------------
(***************************************************************************)
(* New texts and rounds, from what may be used; permissions.               *)
(***************************************************************************)
Quiet == [by |-> CHOOSE a \in Asst : TRUE, intent |-> "none",
          plan |-> [mems |-> {}, rounds |-> {}, hit |-> {}, kept |-> {}], usable |-> {}]

Readable(r) == r \in made \ (gone \cup aside \cup withdrawn)

Remember(m, S) ==
  /\ m \in Mem \ made /\ Owner[m] \notin purged /\ S \subseteq made
  /\ \A r \in S \cap Round : Owner[r] = Owner[m]
  /\ \A d \in S : Usable(d, Owner[m], {})
  /\ steps < MaxSteps /\ steps' = steps + 1 /\ act' = Quiet
  /\ made' = made \cup {m}
  /\ rests' = [rests EXCEPT ![m] = IF S = {} THEN {Mark(m)} ELSE S]
  /\ UNCHANGED <<shown, gone, withdrawn, aside, edges, purged, allowed>>

Talk(r, S, H) ==
  /\ r \in Round \ made /\ Owner[r] \notin purged
  /\ S \subseteq made \cap Mem /\ H \subseteq made \cap Round
  /\ \A d \in S : Usable(d, Owner[r], {})
  /\ \A h \in H : Readable(h) /\ Owner[h] = Owner[r] /\ Owner[r] \in allowed
                  /\ Usable(h, Owner[r], {})
  /\ steps < MaxSteps /\ steps' = steps + 1 /\ act' = Quiet
  /\ made' = made \cup {r}
  /\ rests' = [rests EXCEPT ![r] = S \cup H]
  /\ shown' = [shown EXCEPT ![r] = H \cup UNION {shown[h] : h \in H}]
  /\ UNCHANGED <<gone, withdrawn, aside, edges, purged, allowed>>

(* The withdrawal of one text by memory-service.ts: all it rests on is     *)
(* withdrawn, and nothing is cleared.                                      *)
Withdraw(m) ==
  /\ m \in Live \ withdrawn /\ Owner[m] \notin purged
  /\ steps < MaxSteps /\ steps' = steps + 1 /\ act' = Quiet
  /\ withdrawn' = withdrawn \cup {m} \cup Up(rests[m])
  /\ UNCHANGED <<rests, shown, made, gone, aside, edges, purged, allowed>>

SetHistory(a) ==
  /\ a \notin purged /\ steps < MaxSteps /\ steps' = steps + 1 /\ act' = Quiet
  /\ allowed' = (allowed \ {a}) \cup ({a} \ allowed)
  /\ UNCHANGED <<rests, shown, made, gone, withdrawn, aside, edges, purged>>
-----------------------------------------------------------------------------
Init ==
  /\ rests = [n \in Node |-> {}] /\ shown = [r \in Round |-> {}] /\ made = {}
  /\ gone = {} /\ withdrawn = {} /\ aside = {} /\ edges = {} /\ purged = {}
  /\ allowed = Asst /\ act = Quiet /\ steps = 0

Small(S) == {T \in SUBSET S : Cardinality(T) <= 2}

Next ==
  \/ \E m \in Mem : \E S \in Small(made) : Remember(m, S)
  \/ \E r \in Round : \E S \in Small(made \cap Mem) : \E H \in Small(made \cap Round) :
       Talk(r, S, H)
  \/ \E m \in Mem : Withdraw(m)
  \/ \E a \in Asst : SetHistory(a)
  \/ \E a \in Asst : Govern(a, "purge", {})
  \/ \E a \in Asst : \E r \in made \cap Round : \E intent \in {"empty", "withdraw", "recycle", "restore"} :
       Owner[r] = a /\ Govern(a, intent, {r})
  \/ \E a \in Asst : \E m \in Live : \E intent \in {"empty", "withdraw"} :
       (m \in Global \/ Owner[m] = a) /\ Govern(a, intent, {m})

Spec == Init /\ [][Next]_vars
-----------------------------------------------------------------------------
(* Shapes of the variables; a retained edge is of a text and its sources.  *)
TypeOK ==
  /\ made \subseteq Node /\ gone \subseteq made
  /\ aside \subseteq made \cap Round
  /\ \A e \in edges : e[1] \in made /\ e[2] \in Up(rests[e[1]])

(* Reference: all that rests, directly or not, on something of a set, with *)
(* the history shown to rounds.                                            *)
Resting(S) ==
  LET down[k \in 0..Cardinality(Node)] ==
        IF k = 0 THEN S
        ELSE LET above == down[k - 1] IN
             above \cup {n \in made : (rests[n] \cup (IF n \in Round THEN shown[n] ELSE {}))
                                       \cap above # {}}
  IN down[Cardinality(Node)]

(* The passes of plan() end with all that rests on what the user named,    *)
(* and nothing else; withdrawing a text takes its whole basis.             *)
PlanIsClosed ==
  \A a \in Asst \ purged, intent \in {"withdraw", "empty"}, n \in Live \cup (made \cap Round) :
    (n \in Global \/ Owner[n] = a) =>
      LET p == Plan(a, intent, {n})
          basis == IF n \in Round THEN {n}
                   ELSE IF intent = "withdraw" THEN {n} \cup Up(rests[n]) ELSE {n}
          roots == IF n \in Round /\ intent = "empty" THEN {n} \cap aside ELSE basis
      IN (p.mems \cup p.rounds) \ gone = (Resting(roots) \cap Node) \ gone

(* What is kept when originals are put aside, or an assistant is deleted,  *)
(* stays usable for everyone who could use it (plan(), retainedEdges).     *)
KeptStaysUsable ==
  act.intent \in {"recycle", "purge"} =>
    \A x \in act.usable :
      x[1] \notin act.plan.mems /\ x[2] \notin purged => Usable(x[1], x[2], {})

(* What rests on something withdrawn is used by nobody any more, whatever  *)
(* was retained, put aside, restored or remembered before or after.        *)
WithdrawnIsUnused ==
  \A x \in UsableNow : Resting(withdrawn) \cap {x[1]} = {}

(* Clearing never gives: nobody can use what he could not use before       *)
(* (confirm(); only putting originals back may).                           *)
ClearingGivesNothing ==
  act.intent \notin {"none", "restore"} => UsableNow \subseteq act.usable

(* A revocation takes effect at once: while the history of an assistant    *)
(* must not be sent, nothing that rests on a readable round of it is used  *)
(* (detailed-design.md, 8.4).                                              *)
RevokedIsUnused ==
  \A x \in UsableNow : \A r \in Up({x[1]}) \cap Round :
    Readable(r) => Owner[r] \in allowed \cup purged
==============================================================================
