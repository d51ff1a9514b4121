------------------------------ MODULE BranchViews ------------------------------
(***************************************************************************)
(* Branches of organized memory: steward-organization.ts,                  *)
(* steward-branch-guard.ts and the handlers of steward-service.ts that     *)
(* read and change them.  The version of a branch is the token under which *)
(* its pages are read and exported: it must move whenever anything changes *)
(* that a page could show, although what changes (a memory, a permission,  *)
(* a conflict) is written by code that knows nothing of branches.          *)
(***************************************************************************)
EXTENDS Integers, FiniteSets

CONSTANTS
  Branch, Memory,
  MaxVersion,   \* bound: versions of a memory
  MaxMoves,     \* bound: changes made outside the branches
  MaxEdits,     \* bound: changes of the branches themselves
  None

BranchAssumption ==
  /\ None \notin Branch \cup Memory
  /\ MaxVersion \in Nat \ {0} /\ MaxMoves \in Nat /\ MaxEdits \in Nat

VARIABLES
  objects,    \* durable: memory_objects, the current version and its state
  fixed,      \* durable: versions a user's correction has made
  grants,     \* durable: version of the permission tables
  members,    \* durable: branch_members, the linked version or 0
  conflicts,  \* durable: memory_conflicts
  branches,   \* durable: memory_branches, version and governance digest
  page,       \* the last page a reader was given, and its token
  moves, edits

vars == <<objects, fixed, grants, members, conflicts, branches, page, moves,
          edits>>

NoBranch == [version |-> 0, digest |-> None]
NoPage == [branch |-> None, version |-> 0, shown |-> None]

Exists(b) == branches[b].version > 0
-----------------------------------------------------------------------------
(* acceptedBackgroundMemory()                                              *)
Accepted(m, v) == objects[m].active /\ objects[m].version = v

ConflictsOf(b) == {c \in conflicts : b \in c.branches}

Concerned(b) ==
  {m \in Memory : members[b][m] > 0}
    \cup UNION {{c.left, c.right} : c \in ConflictsOf(b)}

(* Wrong variants: permissions, or the objects themselves, are left out.   *)
DigestWithoutGrants(b) ==
  <<members[b], ConflictsOf(b), 0, {<<m, objects[m]>> : m \in Concerned(b)}>>
DigestOfMembers(b) == <<members[b], ConflictsOf(b), grants, {}>>

(* branchGovernanceDigest(): its members and conflicts, the permissions,   *)
(* and the present state of every object they name.                        *)
Digest(b) ==
  <<members[b], ConflictsOf(b), grants, {<<m, objects[m]>> : m \in Concerned(b)}>>

(* refreshGovernance(): version and guard change in one statement.         *)
Refreshed(b) ==
  IF Exists(b) /\ branches[b].digest # Digest(b)
  THEN [version |-> branches[b].version + 1, digest |-> Digest(b)]
  ELSE branches[b]

(* What a page of the branch shows: conflicts(), members().                *)
ShownConflict(c) ==
  IF c.state = "RESOLVED"
  THEN <<c.id, IF Accepted(c.side, c.resolution) THEN "RESOLVED" ELSE "STALE">>
  ELSE <<c.id, IF Accepted(c.left, c.leftVersion)
                    /\ Accepted(c.right, c.rightVersion)
               THEN "OPEN" ELSE "STALE">>

Shown(b) ==
  [members |-> {<<m, members[b][m]>> : m \in
                  {n \in Memory : members[b][n] > 0
                                    /\ Accepted(n, members[b][n])}},
   conflicts |-> {ShownConflict(c) : c \in ConflictsOf(b)},
   grants |-> grants]
-----------------------------------------------------------------------------
(***************************************************************************)
(* Changes of the branches.  link() bumps the version it has read and      *)
(* leaves the guard, so that the next refresh bumps it again.              *)
(***************************************************************************)
Edit == edits < MaxEdits /\ edits' = edits + 1

(* Wrong variants: the token stays; the version after the one linked.      *)
LinkedSilent(br, b, m, v) == br
WithMemberNext(b, m, v) == [members EXCEPT ![b][m] = v + 1]

Linked(br, b, m, v) ==
  IF members[b][m] = v THEN br
  ELSE [br EXCEPT ![b].version = @ + 1]

WithMember(b, m, v) == [members EXCEPT ![b][m] = v]

Ensured(b) ==         \* ensure()
  IF Exists(b) THEN branches
  ELSE [branches EXCEPT ![b] = [version |-> 1, digest |-> None]]

Organize(b, m) ==     \* organize(): a title, and perhaps a member
  /\ Edit
  /\ LET fresh == IF Exists(b)
                  THEN [branches EXCEPT ![b] = [Refreshed(b) EXCEPT
                          !.version = @ + 1]]
                  ELSE Ensured(b)
     IN \/ /\ branches' = fresh
           /\ UNCHANGED members
        \/ /\ objects[m].active
           /\ branches' = Linked(fresh, b, m, objects[m].version)
           /\ members' = WithMember(b, m, objects[m].version)
  /\ UNCHANGED <<objects, fixed, grants, conflicts, page, moves>>

ConflictId == <<edits, "conflict">>

Slot(b, m, t) ==      \* complete() of a steward's slot, with a conflict or not
  /\ Edit /\ objects[m].active
  /\ branches' = Linked(Ensured(b), b, m, objects[m].version)
  /\ members' = WithMember(b, m, objects[m].version)
  /\ \/ UNCHANGED conflicts
     \/ /\ t # m /\ objects[t].active
        /\ conflicts' = conflicts \cup
             {[id |-> ConflictId, version |-> 1, state |-> "OPEN",
               left |-> t, leftVersion |-> objects[t].version,
               right |-> m, rightVersion |-> objects[m].version,
               branches |-> {b} \cup {d \in Branch : members[d][t] > 0
                                                    \/ members[d][m] > 0},
               side |-> None, resolution |-> 0]}
  /\ UNCHANGED <<objects, fixed, grants, page, moves>>

(* Wrong variants: any correction resolves; the other side may have moved. *)
MayResolveAny(c, s) ==
  c.state = "OPEN" /\ s \in {c.left, c.right} /\ objects[s].active
MayResolveOne(c, s) ==
  /\ c.state = "OPEN" /\ s \in {c.left, c.right}
  /\ objects[s].active /\ <<s, objects[s].version>> \in fixed
  /\ objects[s].version > (IF s = c.left THEN c.leftVersion ELSE c.rightVersion)

MayResolve(c, s) ==
  LET other == IF s = c.left THEN c.right ELSE c.left
      otherVersion == IF s = c.left THEN c.rightVersion ELSE c.leftVersion
      sideVersion == IF s = c.left THEN c.leftVersion ELSE c.rightVersion
  IN /\ c.state = "OPEN" /\ s \in {c.left, c.right}
     /\ objects[s].version > sideVersion
     /\ objects[s].active /\ <<s, objects[s].version>> \in fixed
     /\ Accepted(other, otherVersion)

(* Every branch the corrected memory belongs to is relinked to it.         *)
Resolve(c, s) ==      \* resolveConflict()
  /\ Edit /\ MayResolve(c, s)
  /\ LET v == objects[s].version
         homes == {b \in Branch : members[b][s] > 0}
     IN /\ conflicts' = (conflicts \ {c}) \cup
             {[c EXCEPT !.state = "RESOLVED", !.version = @ + 1,
                        !.side = s, !.resolution = v]}
        /\ members' = [b \in Branch |-> IF b \in homes
                         THEN [members[b] EXCEPT ![s] = v] ELSE members[b]]
        /\ branches' = [b \in Branch |->
             IF b \notin homes THEN branches[b]
             ELSE LET r == Refreshed(b)
                  IN IF members[b][s] = v THEN r
                     ELSE [r EXCEPT !.version = @ + 1]]
  /\ UNCHANGED <<objects, fixed, grants, page, moves>>

Refresh ==            \* the pump, and every list of branches
  /\ branches' = [b \in Branch |-> Refreshed(b)]
  /\ UNCHANGED <<objects, fixed, grants, members, conflicts, page, moves,
                 edits>>

(***************************************************************************)
(* Readers.  A first page is asked for with the version the reader has     *)
(* just been shown, a next one with the version of the first.              *)
(***************************************************************************)
(* Wrong variant: the version is compared as it was last written.          *)
ReadStored(b) == UNCHANGED branches

ReadRefreshed(b) == branches' = [branches EXCEPT ![b] = Refreshed(b)]

Open(b) ==
  /\ Exists(b) /\ ReadRefreshed(b)
  /\ page' = [branch |-> b, version |-> branches'[b].version,
              shown |-> Shown(b)]
  /\ UNCHANGED <<objects, fixed, grants, members, conflicts, moves, edits>>

Turn ==
  /\ page.branch # None /\ ReadRefreshed(page.branch)
  /\ IF branches'[page.branch].version = page.version
     THEN page' = [page EXCEPT !.shown = Shown(page.branch)]
     ELSE page' = NoPage                                 \* STALE_WRITE
  /\ UNCHANGED <<objects, fixed, grants, members, conflicts, moves, edits>>

(***************************************************************************)
(* Code that knows nothing of branches.                                    *)
(***************************************************************************)
Move == moves < MaxMoves /\ moves' = moves + 1

Correct(m, byUser) ==
  /\ Move /\ objects[m].active /\ objects[m].version < MaxVersion
  /\ objects' = [objects EXCEPT ![m].version = @ + 1]
  /\ fixed' = IF byUser THEN fixed \cup {<<m, objects[m].version + 1>>}
                        ELSE fixed
  /\ UNCHANGED <<grants, members, conflicts, branches, page, edits>>

Withdraw(m) ==        \* withdrawn or put back
  /\ Move
  /\ objects' = [objects EXCEPT ![m].active = ~@]
  /\ UNCHANGED <<fixed, grants, members, conflicts, branches, page, edits>>

Permit ==
  /\ Move /\ grants' = grants + 1
  /\ UNCHANGED <<objects, fixed, members, conflicts, branches, page, edits>>
-----------------------------------------------------------------------------
Init ==
  /\ objects = [m \in Memory |-> [version |-> 1, active |-> TRUE]]
  /\ fixed = {} /\ grants = 0
  /\ members = [b \in Branch |-> [m \in Memory |-> 0]]
  /\ conflicts = {}
  /\ branches = [b \in Branch |-> NoBranch]
  /\ page = NoPage /\ moves = 0 /\ edits = 0

Next ==
  \/ \E b \in Branch, m \in Memory : Organize(b, m)
  \/ \E b \in Branch, m, t \in Memory : Slot(b, m, t)
  \/ \E c \in conflicts, s \in Memory : Resolve(c, s)
  \/ Refresh \/ Turn
  \/ \E b \in Branch : Open(b)
  \/ \E m \in Memory, byUser \in BOOLEAN : Correct(m, byUser)
  \/ \E m \in Memory : Withdraw(m)
  \/ Permit

Spec == Init /\ [][Next]_vars
-----------------------------------------------------------------------------
(* Shapes of the variables.                                                *)
TypeOK ==
  /\ objects \in [Memory -> [version : 1..MaxVersion, active : BOOLEAN]]
  /\ fixed \subseteq Memory \X (1..MaxVersion) /\ grants \in Nat
  /\ members \in [Branch -> [Memory -> 0..MaxVersion]]
  /\ \A b \in Branch : branches[b].version \in Nat
  /\ page.branch \in Branch \cup {None}
  /\ moves \in Nat /\ edits \in Nat

(* Pages given under one token show one state of the branch, of the        *)
(* memories in it, of their conflicts and of the permissions (branch(),    *)
(* the export).                                                            *)
PagesAgreeStep ==
  page'.branch = page.branch /\ page'.version = page.version =>
    page'.shown = page.shown

PagesAgree == [][PagesAgreeStep]_vars

(* A token is never used again: versions of a branch only grow, and a      *)
(* change of its members is a new version at once (link()).                *)
TokensGrowStep ==
  \A b \in Branch :
    /\ branches'[b].version >= branches[b].version
    /\ members'[b] # members[b] =>
         branches'[b].version > branches[b].version

TokensGrow == [][TokensGrowStep]_vars

(* A conflict is resolved once, by a correction the user made after it was *)
(* found, while the other side was still the one in conflict               *)
(* (resolveConflict()).                                                    *)
ResolvedByUserStep ==
  \A c \in conflicts : c \notin conflicts' =>
    \E d \in conflicts' :
      /\ d.id = c.id /\ c.state = "OPEN" /\ d.state = "RESOLVED"
      /\ <<d.side, d.resolution>> \in fixed
      /\ d.side = c.left => d.resolution > c.leftVersion
                              /\ Accepted(c.right, c.rightVersion)
      /\ d.side = c.right => d.resolution > c.rightVersion
                               /\ Accepted(c.left, c.leftVersion)

ResolvedByUser == [][ResolvedByUserStep]_vars
==============================================================================
