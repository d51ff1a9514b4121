------------------------------ MODULE MCTalking -----------------------------
(* A conversation: rounds of two requests, who may be sent what, the       *)
(* stream of an answer, the pane that shows it, and the assistants in both *)
(* windows. A behaviour is of one part.                                    *)
EXTENDS Integers, FiniteSets, Sequences, TLC

CONSTANTS None

VARIABLES
  part,      \* the part this behaviour is of
  \* ChatRound
  chatRows, stored, segments, ops, results, commands, generation, granted,
  moving, phase, pc, call, verdict, inflight, chatSeen, chatAborted, expired,
  overrun, partial, chatLost, exports, effects, outdated, unwarned,
  chatStops, faults,
  \* Recipients
  conn, file, sendingPart, bound, archived, may, sendingRows, gone, up, temp,
  session, reply, flight, sendingAborted, stale, sendingLate, sent, sends,
  sendingChanges, sendingStops, sendingAsked, dropped,
  \* ResponseStream
  streamPlace, streamAborted, parser, result, received, chunks,
  \* ConversationView
  row, text, run, paneCalls, answers, view, paneDrafts, act, paneSeen, ended,
  protected, uncertain, panePlace, code, fresh, change, paneLate, paneAsked,
  paneChanges, told, wiped,
  \* AssistantViews
  db, viewCalls, events, app, switching, route, panel, busy, viewDrafts,
  viewLost

chatVars ==
  <<chatRows, stored, segments, ops, results, commands, generation, granted,
    moving, phase, pc, call, verdict, inflight, chatSeen, chatAborted,
    expired, overrun, partial, chatLost, exports, effects, outdated,
    unwarned, chatStops, faults>>
sendingVars ==
  <<conn, file, sendingPart, bound, archived, may, sendingRows, gone, up,
    temp, session, reply, flight, sendingAborted, stale, sendingLate, sent,
    sends, sendingChanges, sendingStops, sendingAsked, dropped>>
streamVars ==
  <<streamPlace, streamAborted, parser, result, received, chunks>>
paneVars ==
  <<row, text, run, paneCalls, answers, view, paneDrafts, act, paneSeen,
    ended, protected, uncertain, panePlace, code, fresh, change, paneLate,
    paneAsked, paneChanges, told, wiped>>
viewVars ==
  <<db, viewCalls, events, app, switching, route, panel, busy, viewDrafts,
    viewLost>>

\* two requests of different assistants may run at the same time
OwnAssistant == ("q1" :> "a1") @@ ("q2" :> "a2")

\* what a provider sends: text, the end, pieces of calls of tools
Text(content) == [usage |-> FALSE, choice |-> TRUE, content |-> content,
  pieces |-> <<>>, reason |-> "none", reasoning |-> FALSE]
Ends(reason) == [Text(<<>>) EXCEPT !.reason = reason]
Piece(index, id, name, arguments) ==
  [index |-> index, id |-> id, name |-> name, arguments |-> arguments]
Pieces(pieces) == [Text(<<>>) EXCEPT !.pieces = pieces]
Open == <<"(">>
Both == <<"(", ")">>

TextPackets ==
  [a |-> Text(<<"x">>), pair |-> Text(<<"H", "L">>), more |-> Text(<<"x", "H", "L">>),
   stop |-> Ends("stop"), length |-> Ends("length"),
   usage |-> [Text(<<>>) EXCEPT !.usage = TRUE, !.choice = FALSE]]

LinePackets == [a |-> Text(<<"x">>), stop |-> Ends("stop")]

CallPackets ==
  [first |-> Pieces(<<Piece(0, "c1", "f", Open)>>),
   rest |-> Pieces(<<Piece(0, "", "", <<")">>)>>),
   other |-> Pieces(<<Piece(1, "c2", "f", Both)>>),
   same |-> Pieces(<<Piece(1, "c1", "f", Both)>>),
   far |-> Pieces(<<Piece(2, "c3", "f", <<>>)>>),
   renamed |-> Pieces(<<Piece(0, "c2", "", <<>>)>>),
   thought |-> [Text(<<>>) EXCEPT !.reasoning = TRUE],
   stop |-> Ends("stop"), calls |-> Ends("tool_calls")]

Answer(pieces) == [Pieces(pieces) EXCEPT !.reason = "tool_calls"]
WholePackets ==
  [a |-> [Text(<<"x">>) EXCEPT !.reason = "stop"],
   long |-> [Text(<<"x", "H", "L">>) EXCEPT !.reason = "stop"],
   over |-> [Text(<<"x", "x", "x", "x", "x">>) EXCEPT !.reason = "stop"],
   one |-> Answer(<<Piece(9, "c1", "f", Both)>>),
   two |-> Answer(<<Piece(0, "c1", "f", Both), Piece(0, "c2", "f", Both)>>),
   same |-> Answer(<<Piece(0, "c1", "f", Both), Piece(1, "c1", "f", Both)>>),
   half |-> Answer(<<Piece(0, "c1", "f", Open)>>),
   stop |-> [Pieces(<<Piece(0, "c1", "f", Both)>>) EXCEPT !.reason = "stop"]]

\* how it is cut into chunks
Event(payload) == <<"data", payload, "LF", "LF">>
EventChunks == {Event(p) : p \in DOMAIN TextPackets \cup {"DONE"}}
               \cup {Event("a") \o Event("stop") \o Event("DONE") \o Event("a"),
                     Event("stop") \o Event("DONE")}
CallChunks == {Event(p) : p \in DOMAIN CallPackets \cup {"DONE"}}
LineChunks == UNION {[1..n -> {"CR", "LF", "data", "a", "remark"}] : n \in 1..2}
WholeChunks == {<<p>> : p \in DOMAIN WholePackets \cup {"DONE"}}

\* two assistants that are active, or one of them archived
Two(A) == [status |-> [x \in A |-> IF x \in {"a", "b"} THEN "active" ELSE "absent"],
           version |-> [x \in A |-> IF x \in {"a", "b"} THEN 1 ELSE 0],
           primary |-> "a", current |-> "a", revision |-> 2]
OneArchived(A) ==
  [Two(A) EXCEPT !.status["b"] = "archived", !.version["b"] = 2, !.revision = 3]

Pair == INSTANCE ChatRound WITH
  MaxCalls <- 1, Argument <- {"x"}, MaxGovernance <- 0, MaxStops <- 0,
  MaxFaults <- 0, AssistantOf <- OwnAssistant, Tooled <- {"q1"},
  Request <- {"q1", "q2"}, rows <- chatRows, seen <- chatSeen,
  aborted <- chatAborted, lost <- chatLost, stops <- chatStops

Plain == INSTANCE ChatRound WITH
  MaxCalls <- 1, Argument <- {"x"}, MaxGovernance <- 2, MaxStops <- 2,
  MaxFaults <- 1, AssistantOf <- [x \in {"q1"} |-> "a1"], Request <- {"q1"},
  Tooled <- {}, rows <- chatRows, seen <- chatSeen, aborted <- chatAborted,
  lost <- chatLost, stops <- chatStops

Recipients == INSTANCE Recipients WITH
  Conn <- {"c","d"}, Url <- {"u","v"}, Key <- {"k"}, Temporary <- {},
  Tooled <- {"r"}, Searching <- {"r"}, MaxPairs <- 1, MaxSends <- 2,
  MaxStops <- 0, Assistant <- {"a"},
  AssistantOf <- [x \in {"q", "r"} |-> "a"], Request <- {"q", "r"},
  MaxChanges <- 4, part <- sendingPart, rows <- sendingRows,
  aborted <- sendingAborted, late <- sendingLate, changes <- sendingChanges,
  stops <- sendingStops, asked <- sendingAsked

Credentials == INSTANCE Recipients WITH
  Conn <- {"c"}, Url <- {"u"}, Key <- {"k","l"}, Temporary <- {},
  Tooled <- {"q"}, Searching <- {}, MaxPairs <- 1, MaxSends <- 2,
  MaxStops <- 2, Assistant <- {"a"}, AssistantOf <- [x \in {"q"} |-> "a"],
  Request <- {"q"}, MaxChanges <- 5, part <- sendingPart,
  rows <- sendingRows, aborted <- sendingAborted, late <- sendingLate,
  changes <- sendingChanges, stops <- sendingStops, asked <- sendingAsked

Temporary == INSTANCE Recipients WITH
  Conn <- {"c"}, Url <- {"u"}, Key <- {"k"}, Temporary <- {"r","s"},
  Tooled <- {}, Searching <- {}, MaxPairs <- 2, MaxSends <- 1, MaxStops <- 1,
  Assistant <- {"a"}, AssistantOf <- [x \in {"q", "r", "s"} |-> "a"],
  Request <- {"q", "r", "s"}, MaxChanges <- 3, part <- sendingPart,
  rows <- sendingRows, aborted <- sendingAborted, late <- sendingLate,
  changes <- sendingChanges, stops <- sendingStops, asked <- sendingAsked

Texts == INSTANCE ResponseStream WITH
  Stream <- TRUE, ToolMode <- FALSE, Retained <- FALSE, MaxCalls <- 2,
  MaxText <- 4, MaxDelta <- 2, MaxBuffer <- 6, MaxBytes <- 40,
  MaxChunks <- 6, Packets <- TextPackets, Chunks <- EventChunks,
  ValidArguments <- {<<"(", ")">>}, place <- streamPlace,
  aborted <- streamAborted

Lines == INSTANCE ResponseStream WITH
  Stream <- TRUE, ToolMode <- FALSE, Retained <- FALSE, MaxCalls <- 2,
  MaxText <- 4, MaxDelta <- 2, MaxBuffer <- 4, Packets <- LinePackets,
  Chunks <- LineChunks, MaxBytes <- 7, MaxChunks <- 3,
  ValidArguments <- {<<"(", ")">>}, place <- streamPlace,
  aborted <- streamAborted

ToolCalls == INSTANCE ResponseStream WITH
  Stream <- TRUE, ToolMode <- TRUE, Retained <- TRUE, MaxCalls <- 2,
  MaxText <- 4, MaxDelta <- 2, MaxBuffer <- 6, MaxBytes <- 40,
  MaxChunks <- 6, Packets <- CallPackets, Chunks <- CallChunks,
  ValidArguments <- {<<"(", ")">>}, place <- streamPlace,
  aborted <- streamAborted

Whole == INSTANCE ResponseStream WITH
  Stream <- FALSE, ToolMode <- TRUE, Retained <- FALSE, MaxCalls <- 2,
  MaxText <- 4, MaxDelta <- 2, MaxBuffer <- 6, MaxBytes <- 3, MaxChunks <- 3,
  Packets <- WholePackets, Chunks <- WholeChunks,
  ValidArguments <- {<<"(", ")">>}, place <- streamPlace,
  aborted <- streamAborted

Pane == INSTANCE ConversationView WITH
  Mode <- "normal", JobEnds <- FALSE, InOrder <- TRUE, MaxChanges <- 1,
  Requests <- {"r1"}, OwnReads <- {"o1"}, Reasons <- {"cleanup", "move"},
  Asks <- {}, MaxDeltas <- 3, calls <- paneCalls, drafts <- paneDrafts,
  seen <- paneSeen, place <- panePlace, late <- paneLate, asked <- paneAsked,
  changes <- paneChanges

Overtaken == INSTANCE ConversationView WITH
  Mode <- "normal", JobEnds <- FALSE, InOrder <- FALSE, MaxChanges <- 1,
  Requests <- {"r1"}, OwnReads <- {"o1"}, Reasons <- {"cleanup"}, Asks <- {},
  MaxDeltas <- 2, calls <- paneCalls, drafts <- paneDrafts, seen <- paneSeen,
  place <- panePlace, late <- paneLate, asked <- paneAsked,
  changes <- paneChanges

Panes == INSTANCE ConversationView WITH
  Mode <- "normal", JobEnds <- FALSE, InOrder <- FALSE, MaxChanges <- 1,
  Requests <- {"r1", "r2"}, OwnReads <- {"o1"}, Reasons <- {"cleanup"},
  Asks <- {}, MaxDeltas <- 0, calls <- paneCalls, drafts <- paneDrafts,
  seen <- paneSeen, place <- panePlace, late <- paneLate, asked <- paneAsked,
  changes <- paneChanges

Clearing == INSTANCE ConversationView WITH
  Mode <- "temporary", JobEnds <- FALSE, InOrder <- TRUE, MaxDeltas <- 0,
  MaxChanges <- 0, Requests <- {"r1", "r2"}, OwnReads <- {"o1"},
  Reasons <- {}, Asks <- {"clear"}, calls <- paneCalls, drafts <- paneDrafts,
  seen <- paneSeen, place <- panePlace, late <- paneLate, asked <- paneAsked,
  changes <- paneChanges

Saving == INSTANCE ConversationView WITH
  Mode <- "temporary", JobEnds <- FALSE, InOrder <- TRUE, MaxChanges <- 0,
  Requests <- {"r1"}, OwnReads <- {"o1"}, Reasons <- {}, Asks <- {"save"},
  MaxDeltas <- 2, calls <- paneCalls, drafts <- paneDrafts, seen <- paneSeen,
  place <- panePlace, late <- paneLate, asked <- paneAsked,
  changes <- paneChanges

Assistants == INSTANCE AssistantViews WITH
  MaxCalls <- 2, Assistant <- {"a", "b"},
  Starts <- {Two({"a", "b"}), OneArchived({"a", "b"})}, MaxRevision <- 3,
  calls <- viewCalls, drafts <- viewDrafts, lost <- viewLost

Created == INSTANCE AssistantViews WITH
  MaxRevision <- 4, MaxCalls <- 1, Assistant <- {"a", "b", "c"},
  Starts <- {Two({"a", "b", "c"})}, calls <- viewCalls, drafts <- viewDrafts,
  lost <- viewLost

ASSUME Recipients!RecipientsAssumption
ASSUME Credentials!RecipientsAssumption
ASSUME Temporary!RecipientsAssumption
ASSUME Pane!ConversationAssumption
ASSUME Overtaken!ConversationAssumption
ASSUME Panes!ConversationAssumption
ASSUME Clearing!ConversationAssumption
ASSUME Saving!ConversationAssumption
ASSUME Assistants!ViewsAssumption
ASSUME Created!ViewsAssumption
-----------------------------------------------------------------------------
(* Outside its own parts a module has no state.                            *)
chatOff ==
  /\ chatRows = None /\ stored = None /\ segments = None /\ ops = None
  /\ results = None /\ commands = None /\ generation = None /\ granted = None
  /\ moving = None /\ phase = None /\ pc = None /\ call = None
  /\ verdict = None /\ inflight = None /\ chatSeen = None
  /\ chatAborted = None /\ expired = None /\ overrun = None /\ partial = None
  /\ chatLost = None /\ exports = None /\ effects = None /\ outdated = None
  /\ unwarned = None /\ chatStops = None /\ faults = None

sendingOff ==
  /\ conn = None /\ file = None /\ sendingPart = None /\ bound = None
  /\ archived = None /\ may = None /\ sendingRows = None /\ gone = None
  /\ up = None /\ temp = None /\ session = None /\ reply = None
  /\ flight = None /\ sendingAborted = None /\ stale = None
  /\ sendingLate = None /\ sent = None /\ sends = None
  /\ sendingChanges = None /\ sendingStops = None /\ sendingAsked = None
  /\ dropped = None

streamOff ==
  /\ streamPlace = None /\ streamAborted = None /\ parser = None
  /\ result = None /\ received = None /\ chunks = None

paneOff ==
  /\ row = None /\ text = None /\ run = None /\ paneCalls = None
  /\ answers = None /\ view = None /\ paneDrafts = None /\ act = None
  /\ paneSeen = None /\ ended = None /\ protected = None /\ uncertain = None
  /\ panePlace = None /\ code = None /\ fresh = None /\ change = None
  /\ paneLate = None /\ paneAsked = None /\ paneChanges = None /\ told = None
  /\ wiped = None

viewOff ==
  /\ db = None /\ viewCalls = None /\ events = None /\ app = None
  /\ switching = None /\ route = None /\ panel = None /\ busy = None
  /\ viewDrafts = None /\ viewLost = None

Init ==
  /\ part \in {"pair", "plain", "recipients", "credentials", "temporary",
              "texts", "lines", "toolCalls", "whole", "pane", "overtaken",
              "panes", "clearing", "saving", "assistants", "created"}
  /\ CASE part = "pair" -> Pair!Init
       [] part = "plain" -> Plain!Init
       [] OTHER -> chatOff
  /\ CASE part = "recipients" -> Recipients!Init
       [] part = "credentials" -> Credentials!Init
       [] part = "temporary" -> Temporary!Init
       [] OTHER -> sendingOff
  /\ CASE part = "texts" -> Texts!Init
       [] part = "lines" -> Lines!Init
       [] part = "toolCalls" -> ToolCalls!Init
       [] part = "whole" -> Whole!Init
       [] OTHER -> streamOff
  /\ CASE part = "pane" -> Pane!Init
       [] part = "overtaken" -> Overtaken!Init
       [] part = "panes" -> Panes!Init
       [] part = "clearing" -> Clearing!Init
       [] part = "saving" -> Saving!Init
       [] OTHER -> paneOff
  /\ CASE part = "assistants" -> Assistants!Init
       [] part = "created" -> Created!Init
       [] OTHER -> viewOff

(* The step of a part leaves the other modules alone.                      *)
chatOnly == UNCHANGED <<part, sendingVars, streamVars, paneVars, viewVars>>
sendingOnly == UNCHANGED <<part, chatVars, streamVars, paneVars, viewVars>>
streamOnly == UNCHANGED <<part, chatVars, sendingVars, paneVars, viewVars>>
paneOnly == UNCHANGED <<part, chatVars, sendingVars, streamVars, viewVars>>
viewOnly == UNCHANGED <<part, chatVars, sendingVars, streamVars, paneVars>>

Next ==
  \/ part = "pair" /\ Pair!Next /\ chatOnly
  \/ part = "plain" /\ Plain!Next /\ chatOnly
  \/ part = "recipients" /\ Recipients!Next /\ sendingOnly
  \/ part = "credentials" /\ Credentials!Next /\ sendingOnly
  \/ part = "temporary" /\ Temporary!Next /\ sendingOnly
  \/ part = "texts" /\ Texts!Next /\ streamOnly
  \/ part = "lines" /\ Lines!Next /\ streamOnly
  \/ part = "toolCalls" /\ ToolCalls!Next /\ streamOnly
  \/ part = "whole" /\ Whole!Next /\ streamOnly
  \/ part = "pane" /\ Pane!Next /\ paneOnly
  \/ part = "overtaken" /\ Overtaken!Next /\ paneOnly
  \/ part = "panes" /\ Panes!Next /\ paneOnly
  \/ part = "clearing" /\ Clearing!Next /\ paneOnly
  \/ part = "saving" /\ Saving!Next /\ paneOnly
  \/ part = "assistants" /\ Assistants!Next /\ viewOnly
  \/ part = "created" /\ Created!Next /\ viewOnly

vars == <<part, chatVars, sendingVars, streamVars, paneVars, viewVars>>

Spec == Init /\ [][Next]_vars

-----------------------------------------------------------------------------
(* Every module keeps the types of its variables, and without its part it  *)
(* has none.                                                               *)
TypeOK ==
  /\ part = "pair" => Pair!TypeOK
  /\ part = "plain" => Plain!TypeOK
  /\ part = "recipients" => Recipients!TypeOK
  /\ part = "credentials" => Credentials!TypeOK
  /\ part = "temporary" => Temporary!TypeOK
  /\ part = "texts" => Texts!TypeOK
  /\ part = "lines" => Lines!TypeOK
  /\ part = "toolCalls" => ToolCalls!TypeOK
  /\ part = "whole" => Whole!TypeOK
  /\ part = "pane" => Pane!TypeOK
  /\ part = "overtaken" => Overtaken!TypeOK
  /\ part = "panes" => Panes!TypeOK
  /\ part = "clearing" => Clearing!TypeOK
  /\ part = "saving" => Saving!TypeOK
  /\ part = "assistants" => Assistants!TypeOK
  /\ part = "created" => Created!TypeOK

(* A round that may have read memory another round has changed since is    *)
(* out: it neither sends nor writes what it had read (changed()).          *)
OutdatedIsOut == [][part = "pair" => Pair!OutdatedIsOutStep]_vars

(* While the program runs, an answer is pending only because its round is  *)
(* in flight, its generation is over, or the write that ends it failed.    *)
PendingHasReason == part = "plain" => Plain!PendingHasReason

(* The text of a round whose generation is over reaches the timeline no    *)
(* more, but for one case: the service closes, which writes what it has    *)
(* without looking at the generation, before a policy batch has told the   *)
(* rounds in flight.                                                       *)
BlankAfterGovernance ==
  [][part = "plain" => Plain!BlankAfterGovernanceStep]_vars

(* When a permission is withdrawn, no round under way that used it still   *)
(* completes, nor does one of a connection whose key was taken away or     *)
(* replaced: it ends as cancelled or failed (provider-service.ts:756-763). *)
WithdrawnIsCut == part = "recipients" => Recipients!WithdrawnIsCut

(* The same for a connection: none is answered under a key that it no      *)
(* longer has.                                                             *)
ChangedIsCut ==
  /\ part = "recipients" => Recipients!ChangedIsCut
  /\ part = "credentials" => Credentials!ChangedIsCut

(* Whatever goes out goes to the address the assistant is bound to at that *)
(* moment, with the key that connection has at that moment, never one that *)
(* was replaced or taken away, and not to a disabled connection or for an  *)
(* archived assistant (provider-service.ts:1093-1119, 516).                *)
SentAsConfigured ==
  [][/\ part = "recipients" => Recipients!SentAsConfiguredStep
     /\ part = "credentials" => Credentials!SentAsConfiguredStep]_vars

(* Earlier rounds go only to an address that was granted them, for an      *)
(* assistant that may read them, and none that has been cleaned up or      *)
(* withdrawn (provider-service.ts:1120-1147).                              *)
PastIsGranted ==
  [][/\ part = "recipients" => Recipients!PastIsGrantedStep
     /\ part = "temporary" => Temporary!PastIsGrantedStep]_vars

(* A key that its user took away or replaced is not used again, neither in *)
(* this process nor in the next one (credential-vault.ts:60, 88).          *)
DroppedIsGone == part = "credentials" => Credentials!DroppedIsGone

(* A temporary chat stays out of the timeline unless its user saves it,    *)
(* and out of the calls of every other chat until then; it brings nothing  *)
(* of the timeline itself (doc/tasks/005-persistent-timeline.md:17).       *)
TemporaryStaysOut == part = "temporary" => Temporary!TemporaryStaysOut

(* What was saved from a session is what the session showed, and settled:  *)
(* saving it twice does not change it, nor does anything later.            *)
SavedIsShown == part = "temporary" => Temporary!SavedIsShown

(* After the data governance has taken rounds away no session goes on with *)
(* what it held (provider-service.ts:411).                                 *)
NotCarriedOn == [][part = "temporary" => Temporary!NotCarriedOnStep]_vars

(* However the body was cut into chunks, its events are those of the whole *)
(* body, and nothing is read after the one that ends it.                   *)
SeenIsSent ==
  /\ part = "texts" => Texts!SeenIsSent
  /\ part = "lines" => Lines!SeenIsSent

(* What was shown is what is returned, it is a beginning of what was sent, *)
(* and no pair of units is cut.                                            *)
ShownIsText ==
  /\ part = "texts" => Texts!ShownIsText
  /\ part = "whole" => Whole!ShownIsText

(* An answer is complete only with its end, its whole text and every call  *)
(* from the first index on, each with all it was sent for it.              *)
AnswerIsWhole ==
  /\ part = "texts" => Texts!AnswerIsWhole
  /\ part = "toolCalls" => ToolCalls!AnswerIsWhole
  /\ part = "whole" => Whole!AnswerIsWhole

(* A call that failed has shown nothing; one that was interrupted keeps    *)
(* the text that was shown.                                                *)
FailedIsEmpty == part = "texts" => Texts!FailedIsEmpty

(* While the body is read, what is kept of it is bounded.                  *)
BufferBounded == part = "lines" => Lines!BufferBounded

(* While a request runs, what the pane shows of its answer and the pieces  *)
(* still on their way make up what was streamed: no reading that overlaps  *)
(* the stream loses a piece or shows one twice.                            *)
TextWhole == part = "pane" => Pane!TextWhole

(* When nothing is under way, a request of this epoch that is shown is     *)
(* shown as it is stored, or is marked as uncertain.                       *)
Settled ==
  /\ part = "pane" => Pane!Settled
  /\ part = "clearing" => Clearing!Settled

(* The user's words do not disappear: a request of this epoch is in the    *)
(* timeline that is shown or among the drafts.                             *)
NoLostText ==
  /\ part = "overtaken" => Overtaken!NoLostText
  /\ part = "panes" => Panes!NoLostText
  /\ part = "saving" => Saving!NoLostText

(* A draft made because a fresh snapshot lacks the request was never       *)
(* admitted.                                                               *)
AbsentWasNotSent ==
  /\ part = "overtaken" => Overtaken!AbsentWasNotSent
  /\ part = "panes" => Panes!AbsentWasNotSent

(* Once the notice of a cleanup is worked through, no cleaned request is   *)
(* shown, whatever answers of its time are still to come.                  *)
CleanedNotShown ==
  /\ part = "overtaken" => Overtaken!CleanedNotShown
  /\ part = "panes" => Panes!CleanedNotShown

(* The pane says "the input and what was received are kept" only of what   *)
(* it still shows.                                                         *)
KeptAsSaid ==
  /\ part = "overtaken" => Overtaken!KeptAsSaid
  /\ part = "panes" => Panes!KeptAsSaid

(* A revision names one state: whatever the renderer holds or is about to  *)
(* be given, two snapshots of a revision are the same, so that comparing   *)
(* revisions is enough to tell the newer one.                              *)
RevisionNamesState ==
  /\ part = "assistants" => Assistants!RevisionNamesState
  /\ part = "created" => Created!RevisionNamesState

(* ... except, in this code, a restored assistant's when none is active:   *)
(* it becomes the current one and nobody is made the primary.              *)
GuardsKeepLeaders ==
  /\ part = "assistants" => Assistants!GuardsKeepLeaders
  /\ part = "created" => Created!GuardsKeepLeaders

(* With nothing under way the two components show the same state.          *)
ViewsAgree ==
  /\ part = "assistants" => Assistants!ViewsAgree
  /\ part = "created" => Created!ViewsAgree

(* ... which is the durable one, unless the answer to a change was dropped *)
(* as late, or was an error although the change was made.                  *)
RestIsCurrent == part = "assistants" => Assistants!RestIsCurrent

(* A command changes the state only if its sender was looking at that very *)
(* state: nobody archives, renames or switches blindly over another        *)
(* change.                                                                 *)
NoBlindWrite ==
  [][/\ part = "assistants" => Assistants!NoBlindWriteStep
     /\ part = "created" => Created!NoBlindWriteStep]_vars

(* App takes the user to an assistant's page or discussion only while it   *)
(* shows that assistant as the current one.                                *)
RouteIsShown == [][part = "assistants" => Assistants!RouteIsShownStep]_vars

(* An edited profile is dropped only by saving it or with its assistant.   *)
DraftsKept == [][part = "assistants" => Assistants!DraftsKeptStep]_vars

(* What holds of what is sent and received: nothing goes to a recipient    *)
(* that was revoked or changed, a temporary chat stays out of what is      *)
(* kept, and the text received is what the provider sent, whole or marked  *)
(* as failed.                                                              *)
SendingHolds ==
  /\ TypeOK
  /\ PendingHasReason
  /\ WithdrawnIsCut
  /\ ChangedIsCut
  /\ DroppedIsGone
  /\ TemporaryStaysOut
  /\ SavedIsShown
  /\ SeenIsSent
  /\ ShownIsText
  /\ AnswerIsWhole
  /\ FailedIsEmpty
  /\ BufferBounded

(* What holds of what the windows show: no text is lost or doubled,        *)
(* nothing cleaned stays, a row says what became of it, and a window at    *)
(* rest shows the assistants as they are.                                  *)
ShownHolds ==
  /\ TextWhole
  /\ Settled
  /\ NoLostText
  /\ AbsentWasNotSent
  /\ CleanedNotShown
  /\ KeptAsSaid
  /\ RevisionNamesState
  /\ GuardsKeepLeaders
  /\ ViewsAgree
  /\ RestIsCurrent

(* What no step of a conversation does: save the memory of a superseded    *)
(* round, keep text after governance, send otherwise than configured or    *)
(* with a past not granted, carry a temporary session on, overwrite a      *)
(* change unseen, or lose a draft.                                         *)
TalkingSteps ==
  /\ OutdatedIsOut
  /\ BlankAfterGovernance
  /\ SentAsConfigured
  /\ PastIsGranted
  /\ NotCarriedOn
  /\ NoBlindWrite
  /\ RouteIsShown
  /\ DraftsKept
=============================================================================
