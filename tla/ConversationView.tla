-------------------------- MODULE ConversationView --------------------------
(***************************************************************************)
(* The conversation pane of the window (ProviderPanel.tsx) for one         *)
(* assistant and one mode, against the service it calls.  The pane shows a *)
(* request before the service has heard of it, then lives from five        *)
(* sources that know different moments: the pieces of the answer, the      *)
(* terminal event, the reply to the call, snapshots of the timeline, and   *)
(* notices that the user's data were cleaned or moved.                     *)
(*                                                                         *)
(* Calls go up in the order they were made.  A request stands for its two  *)
(* rows, the user's and the assistant's.                                   *)
(***************************************************************************)
EXTENDS Naturals, Sequences, FiniteSets
LOCAL INSTANCE SequencesExt

CONSTANTS
  Requests,    \* the requests the user may send
  OwnReads,    \* readings of the timeline no request waits for
  Mode,        \* "normal" (rows on disk) or "temporary" (rows in memory)
  Reasons,     \* the notices that may come: subset of {"cleanup", "move"}
  JobEnds,     \* whether a cleanup's job may report its end
  Asks,        \* what the user asks of the temporary chat: subset of
               \* {"clear", "save"}
  InOrder,     \* whether answers never overtake events sent before them
  MaxDeltas,   \* bound: pieces of one answer
  MaxChanges,  \* bound: notices
  None

ConversationAssumption ==
  /\ Mode \in {"normal", "temporary"} /\ Reasons \subseteq {"cleanup", "move"}
  /\ Asks \subseteq {"clear", "save"} /\ (Asks # {} => Mode = "temporary")
  /\ {JobEnds, InOrder} \subseteq BOOLEAN
  /\ {MaxDeltas, MaxChanges} \subseteq Nat

VARIABLES
  row, text, run,         \* the service: status of the rows, the answer's
                          \* length, and whether the request is in flight
  calls, answers,         \* on the way up, on the way down
  view, drafts,           \* what the pane shows: rows, drafts "not sent"
  act, seen, ended,       \* the active request; observedAcceptance/Terminal
  protected, uncertain, place, code, fresh, change, late, asked,
  changes, told, wiped    \* history

service == <<row, text, run>>
channel == <<calls, answers>>
hist    == <<changes, told, wiped>>
pane    == <<view, drafts, act, seen, ended, protected, uncertain, place,
             code, fresh, change, late, asked>>
vars    == <<service, channel, pane, hist>>

Final   == {"completed", "failed", "cancelled"}
Stored  == Final \cup {"pending"}
Message == [status : Stored, text : Nat]
ReadIds == Requests \cup OwnReads

TypeOK ==
  /\ row \in [Requests -> Stored \cup {"none", "removed"}]
  /\ text \in [Requests -> 0..MaxDeltas]
  /\ run \in [Requests -> {"idle", "running", "stale", "over"}]
  /\ view \in [Requests -> Message \cup {None}]
  /\ act \in Requests \cup {None}
  /\ drafts \cup seen \cup ended \cup protected \cup uncertain \cup late
       \cup told \cup wiped \subseteq Requests
  /\ place \in [Requests -> {"unsent", "sent", "reconciling", "confirming",
                             "over"}]
  /\ code \in [Requests -> {"trusted", "other", None}]
  /\ fresh \in ReadIds \cup {None}
  /\ change \in {"cleanup", "move", "status", None}
  /\ asked \subseteq Asks /\ changes \in 0..MaxChanges
  /\ \A i \in DOMAIN calls : calls[i].kind \in {"start", "read"} \cup Asks
  /\ \A i \in DOMAIN answers :
       answers[i].kind \in {"delta", "end", "reply", "read", "clear", "save",
                            "notice"}

Init ==
  /\ row = [r \in Requests |-> "none"] /\ text = [r \in Requests |-> 0]
  /\ run = [r \in Requests |-> "idle"]
  /\ calls = <<>> /\ answers = <<>>
  /\ view = [r \in Requests |-> None] /\ drafts = {} /\ act = None
  /\ seen = {} /\ ended = {} /\ protected = {} /\ uncertain = {}
  /\ place = [r \in Requests |-> "unsent"]
  /\ code = [r \in Requests |-> None]
  /\ fresh = None /\ change = None /\ late = {} /\ asked = {}
  /\ changes = 0 /\ told = {} /\ wiped = {}

Sent == {r \in Requests : place[r] # "unsent"}

-----------------------------------------------------------------------------
(* The service.                                                            *)

InFlight == {r \in Requests : run[r] \in {"running", "stale"}}

\* What a reading answers.  A pending answer has no text on disk yet; in
\* memory it has what was streamed.
Snapshot ==
  [r \in Requests |->
     IF row[r] \notin Stored THEN None
     ELSE [status |-> row[r],
           text |-> IF row[r] = "pending" /\ Mode = "normal" THEN 0
                    ELSE text[r]]]

Taking(kind) == calls # <<>> /\ Head(calls).kind = kind /\ calls' = Tail(calls)
Answer(msg)  == answers' = Append(answers, msg)

Reply(r, c, s, t) == [kind |-> "reply", r |-> r, code |-> c, status |-> s,
                      text |-> t]
Refusal(r, c) == Reply(r, c, None, 0)

\* startChat admits: both rows are written before the provider is called.
Admit ==
  /\ Taking("start") /\ InFlight = {}
  /\ LET r == Head(calls).r
     IN  /\ row' = [row EXCEPT ![r] = "pending"]
         /\ run' = [run EXCEPT ![r] = "running"]
  /\ UNCHANGED <<text, answers, pane, hist>>

\* It refuses, or the call itself is lost on its way back.
Refuse ==
  /\ Taking("start")
  /\ \E c \in {"trusted", "other"} :
       /\ InFlight # {} => c = "trusted"           \* REQUEST_IN_PROGRESS
       /\ Answer(Refusal(Head(calls).r, c))
  /\ UNCHANGED <<service, pane, hist>>

\* readTimeline, and the snapshot saveTemporary answers with.
ServeRead ==
  /\ Taking("read")
  /\ \E ok \in BOOLEAN :
       Answer([kind |-> "read", id |-> Head(calls).id, ok |-> ok,
               rows |-> Snapshot])
  /\ UNCHANGED <<service, pane, hist>>

ServeSave ==
  /\ Taking("save")
  /\ \E ok \in BOOLEAN :
       /\ InFlight # {} => ~ok
       /\ Answer([kind |-> "save", ok |-> ok, rows |-> Snapshot])
  /\ UNCHANGED <<service, pane, hist>>

\* clearChat forgets the session, unless a request is in flight.
ServeClear ==
  /\ Taking("clear")
  /\ Answer([kind |-> "clear", ok |-> InFlight = {}])
  /\ row' = [r \in Requests |->
               IF InFlight = {} /\ row[r] \in Stored THEN "removed"
               ELSE row[r]]
  /\ UNCHANGED <<text, run, pane, hist>>

Delta(r) ==
  /\ run[r] = "running" /\ text[r] < MaxDeltas
  /\ text' = [text EXCEPT ![r] = @ + 1]
  /\ Answer([kind |-> "delta", r |-> r])
  /\ UNCHANGED <<row, run, calls, pane, hist>>

\* The ordinary endings: the event goes out before the reply.
Finish(r) ==
  /\ run[r] = "running"
  /\ \E s \in Final, c \in {None, "trusted", "other"} :
       /\ s = "failed" <=> c # None
       /\ row' = [row EXCEPT ![r] = s]
       /\ answers' = answers \o
            <<[kind |-> "end", r |-> r, status |-> s],
              IF c = None THEN Reply(r, None, s, text[r]) ELSE Refusal(r, c)>>
  /\ run' = [run EXCEPT ![r] = "over"]
  /\ UNCHANGED <<text, calls, pane, hist>>

\* Wrong: the error's class is stored for the status.
ClassForStatus(r) ==
  /\ run[r] = "running"
  /\ \E c \in {"trusted", "other"} :
       row' = [row EXCEPT ![r] = c] /\ Answer(Refusal(r, c))
  /\ run' = [run EXCEPT ![r] = "over"]
  /\ UNCHANGED <<text, calls, pane, hist>>

\* The catch of startChat: an error after admission (a tool the round may
\* not use, a limit) ends it as failed, with a reply and no event; when the
\* store refuses that too, the row stays pending.
FinishQuietly(r) ==
  /\ run[r] = "running"
  /\ \/ /\ row' = [row EXCEPT ![r] = "failed"]
        /\ \E c \in {"trusted", "other"} : Answer(Refusal(r, c))
     \/ /\ Mode = "normal"
        /\ Answer(Refusal(r, "other")) /\ UNCHANGED row
  /\ run' = [run EXCEPT ![r] = "over"]
  /\ UNCHANGED <<text, calls, pane, hist>>

\* A round of an older generation: CANCELLED, nothing written, no event.
FinishStale(r) ==
  /\ run[r] = "stale" /\ run' = [run EXCEPT ![r] = "over"]
  /\ Answer(Refusal(r, "other"))
  /\ UNCHANGED <<row, text, calls, pane, hist>>

\* Retention: the rows of some requests are removed ("cleanup") or memory
\* moves; both start a new generation and end every temporary session.
\* Triggers raise the epoch with every such change, so no two notices have
\* the same one.
Govern ==
  /\ changes < MaxChanges /\ changes' = changes + 1
  /\ \E reason \in Reasons, S \in SUBSET {r \in Requests : row[r] \in Stored} :
       /\ Mode = "temporary" => S = {r \in Requests : row[r] \in Stored}
       /\ (reason = "move" /\ Mode = "normal") => S = {}
       /\ row' = [r \in Requests |-> IF r \in S THEN "removed" ELSE row[r]]
       /\ Answer([kind |-> "notice", reason |-> reason])
  /\ run' = [r \in Requests |-> IF run[r] = "running" THEN "stale" ELSE run[r]]
  /\ UNCHANGED <<text, calls, pane, told, wiped>>

\* The files are gone, too: the job's end is announced.
JobDone ==
  /\ JobEnds /\ changes > 0
  /\ ~\E i \in DOMAIN answers :
        answers[i].kind = "notice" /\ answers[i].reason = "status"
  /\ Answer([kind |-> "notice", reason |-> "status"])
  /\ UNCHANGED <<service, calls, pane, hist>>

-----------------------------------------------------------------------------
(* The pane.                                                               *)

Underway(id) ==
  \/ \E i \in DOMAIN calls : calls[i].kind = "read" /\ calls[i].id = id
  \/ \E i \in DOMAIN answers : answers[i].kind = "read" /\ answers[i].id = id

\* readTimeline: the newest reading of a timeline is the only one heard.
Read(id) ==
  /\ fresh' = id
  /\ calls' = Append(calls, [kind |-> "read", id |-> id])

\* invalidateRead: no reading under way is heard any more.
Invalidate == fresh' = None

\* send(): the rows are shown and protected, then the service is called.
Send(r) ==
  /\ act = None /\ place[r] = "unsent"
  /\ Invalidate /\ protected' = protected \cup {r}
  /\ view' = [view EXCEPT ![r] = [status |-> "pending", text |-> 0]]
  /\ act' = r /\ place' = [place EXCEPT ![r] = "sent"]
  /\ calls' = Append(calls, [kind |-> "start", r |-> r])
  /\ UNCHANGED <<service, answers, drafts, seen, ended, uncertain, code,
                 change, late, asked, hist>>

\* The user comes back to the pane.
OtherRead ==
  /\ \E id \in OwnReads : ~Underway(id) /\ Read(id)
  /\ UNCHANGED <<service, answers, view, drafts, act, seen, ended, protected,
                 uncertain, place, code, change, late, asked, hist>>

\* "Clear" and "save" of the temporary chat: not while a request is active.
Ask(cmd) ==
  /\ act = None /\ cmd \notin asked
  /\ ~\E i \in DOMAIN calls : calls[i].kind = cmd
  /\ ~\E i \in DOMAIN answers : answers[i].kind = cmd
  /\ asked' = asked \cup {cmd}
  /\ wiped' = IF cmd = "clear" THEN wiped \cup Sent ELSE wiped
  /\ calls' = Append(calls, [kind |-> cmd])
  /\ UNCHANGED <<service, answers, view, drafts, act, seen, ended, protected,
                 uncertain, place, code, fresh, change, late, changes, told>>

\* Wrong: the snapshot's pending row replaces what was streamed.
ReconciledByRow(rows) ==
  [r \in Requests |->
     IF rows[r] = None /\ r \in protected THEN view[r] ELSE rows[r]]

\* Wrong: what the snapshot lacks is dropped.
ReconciledUnprotected(rows) == rows

\* reconcileTimelineMessages and newerVisibleContent: the snapshot decides,
\* except that a protected request keeps what only the pane knows.
Reconciled(rows) ==
  [r \in Requests |->
     IF r \notin protected \/ view[r] = None THEN rows[r]
     ELSE IF rows[r] = None THEN view[r]
     ELSE IF rows[r].status # "pending" THEN rows[r]
     ELSE [status |-> view[r].status,
           text |-> IF rows[r].text > view[r].text THEN rows[r].text
                    ELSE view[r].text]]

Decided(rows) ==
  {r \in Requests : rows[r] # None /\ rows[r].status # "pending"}

\* applyTimelineSnapshot, which a finished row releases.
Release(rows) ==
  /\ protected' = protected \ Decided(rows)
  /\ uncertain' = uncertain \ Decided(rows)

\* Answers to calls come in order, and events do; whether an answer may
\* overtake an event sent before it is InOrder's to say.
Events == {"delta", "end", "notice"}

Foremost(i) ==
  \A j \in 1..(i - 1) :
    ~InOrder /\ (answers[j].kind \in Events) # (answers[i].kind \in Events)

\* An event counts for the active request only, of the epoch it began in.
HearDelta(m) ==
  /\ m.kind = "delta"
  /\ LET r == m.r
     IN  IF act # r \/ r \in late
         THEN UNCHANGED <<view, seen, ended, fresh>>
         ELSE /\ seen' = seen \cup {r} /\ ended' = ended \ {r}
              /\ Invalidate
              /\ view' = IF view[r] = None THEN view
                         ELSE [view EXCEPT ![r] = [status |-> "pending",
                                                   text |-> @.text + 1]]
  /\ UNCHANGED <<service, calls, drafts, act, protected, uncertain, place,
                 code, change, late, asked, hist>>

\* Wrong: the terminal event ends the activity and not the row.
EndWithoutStatus(m) ==
  /\ m.kind = "end"
  /\ IF act # m.r \/ m.r \in late
     THEN UNCHANGED <<seen, ended, fresh, act>>
     ELSE /\ seen' = seen \cup {m.r} /\ ended' = ended \cup {m.r}
          /\ Invalidate /\ act' = None
  /\ UNCHANGED <<service, calls, view, drafts, protected, uncertain, place,
                 code, change, late, asked, hist>>

HearEnd(m) ==
  /\ m.kind = "end"
  /\ LET r == m.r
     IN  IF act # r \/ r \in late
         THEN UNCHANGED <<view, seen, ended, fresh, act>>
         ELSE /\ seen' = seen \cup {r} /\ ended' = ended \cup {r}
              /\ Invalidate /\ act' = None
              /\ view' = IF view[r] = None THEN view
                         ELSE [view EXCEPT ![r].status = m.status]
  /\ UNCHANGED <<service, calls, drafts, protected, uncertain, place, code,
                 change, late, asked, hist>>

\* The reply.  Both ways on it reads the timeline before it is done.
HearReply(m) ==
  /\ m.kind = "reply"
  /\ LET r == m.r
     IN  IF r \in late
         THEN /\ place' = [place EXCEPT ![r] = "over"]
              /\ UNCHANGED <<view, act, seen, ended, code, fresh, calls>>
         ELSE /\ act' = IF act = r THEN None ELSE act
              /\ code' = [code EXCEPT ![r] = m.code]
              /\ Read(r)
              /\ IF m.code = None
                 THEN /\ seen' = seen \cup {r} /\ ended' = ended \cup {r}
                      /\ place' = [place EXCEPT ![r] = "confirming"]
                      /\ view' = IF view[r] = None THEN view
                                 ELSE [view EXCEPT ![r] =
                                   [status |-> m.status, text |-> m.text]]
                 ELSE /\ place' = [place EXCEPT ![r] = "reconciling"]
                      /\ UNCHANGED <<view, seen, ended>>
  /\ UNCHANGED <<service, drafts, protected, uncertain, change, late, asked,
                 hist>>

\* Wrong: a reading that failed is taken for one without the request.
AbsentWhenUnheard(r, accepted, heard, rows) ==
  ~accepted /\ (code[r] = "trusted" \/ ~heard \/ rows[r] = None)

\* Whether a failed request never was admitted, as the pane judges it.
NotAdmitted(r, accepted, heard, rows) ==
  /\ ~accepted
  /\ code[r] = "trusted" \/ (heard /\ rows[r] = None)

\* Wrong: an answer counts even if a newer reading began.
EveryReading(m) == m.ok

\* readVersions: a newer reading, or an event, makes this one unheard.
IsHeard(m) == fresh = m.id /\ m.ok

\* Wrong: only a request known to be accepted is marked.
DoubtOfAccepted(r, doubt, accepted, final) ==
  IF final \/ ~accepted THEN doubt ELSE doubt \cup {r}

\* setUncertainRequests: a request that is kept without a known end.
Doubt(r, doubt, accepted, final) ==
  IF final THEN doubt ELSE doubt \cup {r}

\* The answer to a reading, heard only if no newer one began, and the rest
\* of reconcileFailedRequest for the request that waited for it.
HearRead(m) ==
  /\ m.kind = "read"
  /\ LET r       == m.id
         heard   == IsHeard(m)
         rows    == m.rows
         shown   == IF heard THEN Reconciled(rows) ELSE view
         kept    == IF heard THEN protected \ Decided(rows) ELSE protected
         doubt   == IF heard THEN uncertain \ Decided(rows) ELSE uncertain
         waiting == r \in Requests /\ place[r] = "reconciling"
         found   == heard /\ rows[r] # None
         accept  == r \in seen \/ found
         final   == r \in ended \/ (found /\ rows[r].status # "pending")
     IN  /\ fresh' = IF fresh = m.id THEN None ELSE fresh
         /\ place' = IF r \in Requests THEN [place EXCEPT ![r] = "over"]
                     ELSE place
         /\ IF ~waiting
            THEN /\ view' = shown /\ protected' = kept /\ uncertain' = doubt
                 /\ UNCHANGED <<drafts, seen, ended, told>>
            ELSE /\ seen' = IF accept THEN seen \cup {r} ELSE seen
                 /\ ended' = IF final THEN ended \cup {r} ELSE ended
                 /\ IF NotAdmitted(r, accept, heard, rows)
                    THEN /\ view' = [shown EXCEPT ![r] = None]
                         /\ drafts' = drafts \cup {r}
                         /\ protected' = kept \ {r}
                         /\ uncertain' = doubt /\ UNCHANGED told
                    ELSE /\ view' = shown /\ protected' = kept
                         /\ uncertain' = Doubt(r, doubt, accept, final)
                         /\ told' = told \cup {r}
                         /\ UNCHANGED drafts
  /\ UNCHANGED <<service, calls, act, code, change, late, asked, changes,
                 wiped>>

\* The answers to "clear" and "save", dropped when the epoch has changed.
HearClear(m) ==
  /\ m.kind = "clear"
  /\ asked' = asked \ {"clear"}
  /\ IF "clear" \in asked /\ m.ok
     THEN /\ Invalidate /\ drafts' = {}
          /\ view' = [r \in Requests |-> None]
     ELSE UNCHANGED <<fresh, drafts, view>>
  /\ UNCHANGED <<service, calls, act, seen, ended, protected, uncertain,
                 place, code, change, late, hist>>

HearSave(m) ==
  /\ m.kind = "save"
  /\ asked' = asked \ {"save"}
  /\ IF "save" \in asked /\ m.ok
     THEN /\ Invalidate /\ view' = Reconciled(m.rows)
          /\ Release(m.rows)
     ELSE UNCHANGED <<fresh, view, protected, uncertain>>
  /\ UNCHANGED <<service, calls, drafts, act, seen, ended, place, code,
                 change, late, hist>>

\* A notice only sets the state of the window; the pane's effect runs after
\* the next rendering, with the notice that is the latest by then.
HearNotice(m) ==
  /\ m.kind = "notice" /\ change' = m.reason
  /\ UNCHANGED <<service, calls, view, drafts, act, seen, ended, protected,
                 uncertain, place, code, fresh, late, asked, hist>>

\* Wrong: a cleanup is taken for a move.
EpochWithoutClearing ==
  /\ late' = late \cup Sent
  /\ act' = None /\ protected' = {} /\ uncertain' = {} /\ asked' = {}
  /\ UNCHANGED <<view, drafts>>

\* What a change of epoch does: everything under way belongs to the old one.
NewEpoch ==
  /\ late' = late \cup Sent
  /\ act' = None /\ protected' = {} /\ uncertain' = {} /\ asked' = {}
  /\ IF change = "cleanup"
     THEN view' = [r \in Requests |-> None] /\ drafts' = {}
     ELSE UNCHANGED <<view, drafts>>

Effect ==
  /\ change # None /\ change' = None
  /\ IF change = "status"
     THEN UNCHANGED <<view, drafts, act, protected, uncertain, late, asked,
                      fresh, calls>>
     ELSE NewEpoch /\ \E id \in OwnReads : ~Underway(id) /\ Read(id)
  /\ UNCHANGED <<service, answers, seen, ended, place, code, hist>>

-----------------------------------------------------------------------------

Serve == Admit \/ Refuse \/ ServeRead \/ ServeSave \/ ServeClear
End   == \E r \in Requests : Finish(r) \/ FinishQuietly(r) \/ FinishStale(r)
Hear  == \E i \in DOMAIN answers :
           /\ Foremost(i) /\ answers' = RemoveAt(answers, i)
           /\ \/ HearDelta(answers[i])
              \/ HearEnd(answers[i])
              \/ HearReply(answers[i])
              \/ HearRead(answers[i])
              \/ HearClear(answers[i])
              \/ HearSave(answers[i])
              \/ HearNotice(answers[i])

Next ==
  \/ Serve \/ End \/ Hear \/ Effect
  \/ \E r \in Requests : Send(r) \/ Delta(r)
  \/ OtherRead \/ Govern \/ JobDone
  \/ \E cmd \in Asks : Ask(cmd)

Spec == Init /\ [][Next]_vars

\* Both ends work through their queues, rounds come to an end (the provider
\* has a deadline), and React runs the effects it was asked for.
FairSpec ==
  Spec /\ WF_vars(Serve) /\ WF_vars(End) /\ WF_vars(Hear) /\ WF_vars(Effect)

-----------------------------------------------------------------------------

Pieces(r) ==
  Cardinality({i \in DOMAIN answers :
                 answers[i].kind = "delta" /\ answers[i].r = r})

\* While a request runs, what the pane shows of its answer and the pieces
\* still on their way make up what was streamed: no reading that overlaps
\* the stream loses a piece or shows one twice.
TextWhole ==
  (act # None /\ act \notin late /\ view[act] # None)
    => view[act].text + Pieces(act) = text[act]

AtRest ==
  /\ calls = <<>> /\ answers = <<>> /\ change = None
  /\ \A r \in Requests : place[r] \in {"unsent", "over"}

\* When nothing is under way, a request of this epoch that is shown is shown
\* as it is stored, or is marked as uncertain.
Settled ==
  AtRest => \A r \in Sent \ (late \cup wiped) :
    (view[r] # None /\ r \notin uncertain)
      => /\ row[r] \in Stored
         /\ view[r] = [status |-> row[r], text |-> text[r]]

NoticesHeard ==
  change = None /\ \A i \in DOMAIN answers : answers[i].kind # "notice"

\* The user's words do not disappear: a request of this epoch is in the
\* timeline that is shown or among the drafts.
NoLostText ==
  \A r \in Requests :
    (place[r] # "unsent" /\ r \notin late /\ r \notin wiped
       /\ NoticesHeard)
      => view[r] # None \/ r \in drafts

\* A draft made because a fresh snapshot lacks the request was never
\* admitted.
AbsentWasNotSent ==
  NoticesHeard => \A r \in drafts \ wiped :
    code[r] = "other" => row[r] = "none"

\* The comment in reconcileFailedRequest: the codes of the list are
\* rejections before admission, so a draft "not sent" was not sent.
DraftsWereNotSent == \A r \in drafts : row[r] = "none"

\* Once the notice of a cleanup is worked through, no cleaned request is
\* shown, whatever answers of its time are still to come.
CleanedNotShown ==
  NoticesHeard => \A r \in Requests \ wiped : row[r] = "removed" => view[r] = None

\* Nor do its words stand among the drafts.
CleanedNotKept ==
  NoticesHeard => \A r \in Requests \ wiped : row[r] = "removed" => r \notin drafts

\* The pane says "the input and what was received are kept" only of what it
\* still shows.
KeptAsSaid ==
  NoticesHeard => \A r \in told \ (late \cup wiped) : view[r] # None

\* A request shown as pending does not stay so without a word.
PendingResolves ==
  \A r \in Requests :
    (view[r] # None /\ r \in Sent /\ r \notin late)
      ~> \/ view[r] = None \/ view[r].status # "pending"
         \/ r \in uncertain \/ r \in late
=============================================================================
