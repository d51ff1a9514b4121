------------------------------ MODULE Recipients ------------------------------
(***************************************************************************)
(* Who gets what is said: connections with their keys, the assistants'     *)
(* bindings, the history permissions and the two modes of a chat           *)
(* (provider-service.ts, provider-repository.ts, credential-vault.ts,      *)
(* history-permission-repository.ts, timeline-repository.ts).  ChatRound   *)
(* has the steps of a round; here is what its check() looks at, and what   *)
(* each call to the model carries: an address, a key and earlier rounds.   *)
(*                                                                         *)
(* A step is a section between two awaits, or between two durable writes.  *)
(* Versions are compared only with those a round started with: "stale" has *)
(* the rounds whose connection or binding has a later one.                 *)
(***************************************************************************)
EXTENDS Integers, FiniteSets

CONSTANTS
  Assistant, Conn, Url, Key,
  Request, AssistantOf,          \* rounds, each in one assistant's chat
  Temporary, Tooled, Searching,  \* rounds in temporary mode, with tools,
                                 \* with the tool that searches history
  MaxPairs, MaxSends, MaxChanges, MaxStops,   \* bounds
  None

RecipientsAssumption ==
  /\ AssistantOf \in [Request -> Assistant]
  /\ Temporary \subseteq Request /\ Searching \subseteq Tooled \ Temporary /\ Tooled \subseteq Request
  /\ MaxPairs \in Nat /\ MaxSends \in Nat /\ MaxChanges \in Nat /\ MaxStops \in Nat
  /\ None \notin Url \cup Key \cup Conn

VARIABLES
  conn,      \* durable: provider_connections: address, enabled, has a key
  file,      \* durable: the vault's file of each connection
  part,      \* durable: its .tmp file is there
  bound,     \* durable: assistant_provider_bindings
  archived,  \* durable: archived assistants
  may,       \* durable: history_permissions, history_recipient_grants
  rows,      \* durable: what became of a round in the timeline
  gone,      \* durable: rounds that are trashed, purged or withdrawn
  up,        \* volatile: the service is open
  temp,      \* volatile: the vault's keys of this process
  session,   \* volatile: each assistant's temporary session
  reply,     \* volatile: what became of a round in its session
  flight,    \* volatile: rounds in flight
  aborted,   \* volatile: of those, the aborted ones
  stale,     \* volatile: of those, with a connection or binding changed since
  late,      \* volatile: of those, with another governance generation
  sent,      \* history: what each round's last call carried
  sends, changes, stops,   \* bounds
  asked,     \* history: rounds the user saved from a session
  dropped    \* history: keys the user took away from a connection, or replaced

durable == <<conn, file, part, bound, archived, may, rows, gone>>
volatile == <<up, temp, session, reply, flight, aborted, stale, late>>
vars == <<durable, volatile, sent, sends, changes, stops, asked, dropped>>

Of(a) == {q \in Request : AssistantOf[q] = a}
KeyOf(c) == IF temp[c] # None THEN temp[c] ELSE file[c]
Here(a) == bound[a]
UrlOf(a) == IF Here(a) = None THEN None ELSE conn[Here(a)].url
Allowed(a, u) == may[a].read /\ u \in may[a].send
Readable(a) == {q \in Of(a) \ gone : rows[q] = "completed"}
Change == changes < MaxChanges /\ changes' = changes + 1
Nothing == [conn |-> None, url |-> None, key |-> None, past |-> {}, history |-> FALSE]
-----------------------------------------------------------------------------
(* execution()                                                             *)
Execution(a) == a \notin archived /\ Here(a) # None /\ conn[Here(a)].on

(* startChat(): everything is looked up anew, the rows are inserted, the   *)
(* first call goes out.                                                    *)
ContextsUngranted(q) ==
  {{}, Readable(AssistantOf[q])}

Contexts(q) ==
  LET a == AssistantOf[q] IN
  IF q \in Temporary
    THEN {{r \in session[a] : reply[r] = "completed"}}
    ELSE {{}} \cup IF Allowed(a, UrlOf(a)) THEN {Readable(a)} \cup (SUBSET Readable(a)) ELSE {}

Start(q) ==
  LET a == AssistantOf[q]  c == Here(a) IN
  /\ up /\ rows[q] = "none" /\ reply[q] = "none" /\ Of(a) \cap flight = {}
  /\ Execution(a) /\ KeyOf(c) # None
  /\ q \in Searching => Allowed(a, UrlOf(a))
  /\ q \in Temporary => Cardinality(session[a]) < MaxPairs
  /\ \E past \in Contexts(q) :
       sent' = [sent EXCEPT ![q] = [conn |-> c, url |-> conn[c].url, key |-> KeyOf(c), past |-> past,
                  history |-> q \notin Temporary /\ (past # {} \/ q \in Searching)]]
  /\ sends' = [sends EXCEPT ![q] = 1]
  /\ flight' = flight \cup {q}
  /\ IF q \in Temporary
       THEN session' = [session EXCEPT ![a] = @ \cup {q}] /\ reply' = [reply EXCEPT ![q] = "pending"]
            /\ UNCHANGED rows
       ELSE rows' = [rows EXCEPT ![q] = "pending"] /\ UNCHANGED <<session, reply>>
  /\ UNCHANGED <<conn, file, part, bound, archived, may, gone, up, temp, aborted, stale, late,
                 changes, stops, asked, dropped>>

(* assertCurrent()                                                         *)
CurrentOnce(q) == q \notin aborted \cup late

Current(q) ==
  LET s == sent[q] IN
  /\ q \notin aborted \cup stale \cup late
  /\ conn[s.conn].on /\ conn[s.conn].url = s.url /\ KeyOf(s.conn) # None
  /\ AssistantOf[q] \notin archived
  /\ s.history => Allowed(AssistantOf[q], s.url)
  /\ s.past \cap gone = {}

Found(q) == IF q \in Searching THEN SUBSET Readable(AssistantOf[q]) ELSE {{}}

(* A tool's result goes back to the model, with the rounds it has found.   *)
Again(q) ==
  /\ q \in flight \cap Tooled /\ Current(q) /\ sends[q] < MaxSends
  /\ \E found \in Found(q) :
       sent' = [sent EXCEPT ![q].past = @ \cup found]
  /\ sends' = [sends EXCEPT ![q] = @ + 1]
  /\ UNCHANGED <<durable, volatile, changes, stops, asked, dropped>>

(* finish()                                                                *)
Ends(q) ==
  IF q \in aborted THEN {"cancelled"}
  ELSE IF q \in Tooled /\ ~Current(q) THEN {"failed"}
  ELSE {"completed", "failed", "interrupted"}

Answer(q) ==
  /\ q \in flight
  /\ flight' = flight \ {q}
  /\ aborted' = aborted \ {q} /\ stale' = stale \ {q} /\ late' = late \ {q}
  /\ \E how \in Ends(q) :
       /\ rows' = IF q \in late \cup Temporary THEN rows ELSE [rows EXCEPT ![q] = how]
       /\ reply' = IF q \in Temporary \ late THEN [reply EXCEPT ![q] = how] ELSE reply
  /\ UNCHANGED <<conn, file, part, bound, archived, may, gone, up, temp, session, sent, sends,
                 changes, stops, asked, dropped>>

Cancel(q) ==
  /\ q \in flight /\ aborted' = aborted \cup {q}
  /\ UNCHANGED <<durable, up, temp, session, reply, flight, stale, late, sent, sends, changes, stops, asked, dropped>>
-----------------------------------------------------------------------------
(* cancelConnection(), and the rounds whose version is no longer current.  *)
CutNone(c) == aborted

Cut(c) == aborted \cup {q \in flight : sent[q].conn = c}

OutdatedAll(c) == stale \cup {q \in Request : sent[q].conn = c}

Outdated(c) == stale \cup {q \in flight : sent[q].conn = c}

SaveConnection(c, u, on) ==
  /\ up /\ Change
  /\ conn' = [conn EXCEPT ![c].url = u, ![c].on = on]
  /\ aborted' = Cut(c) /\ stale' = Outdated(c)
  /\ UNCHANGED <<file, part, bound, archived, may, rows, gone, up, temp, session, reply, flight, late,
                 sent, sends, stops, asked, dropped>>

(* setCredential(): for this process, or in the vault: the file is written *)
(* aside, renamed, and noted in the database; each may fail, or be the     *)
(* last thing the program does.                                            *)
SetTemporary(c, k) ==
  /\ up /\ Change
  /\ temp' = [temp EXCEPT ![c] = k]
  /\ aborted' = Cut(c)
  /\ dropped' = [dropped EXCEPT ![c] = (@ \cup ({temp[c]} \ {file[c]})) \ {k}]
  /\ UNCHANGED <<durable, up, session, reply, flight, stale, late, sent, sends, stops, asked>>

Stopped(S) == up' = FALSE /\ flight' = {} /\ aborted' = {} /\ stale' = {} /\ late' = {}
              /\ temp' = [c \in Conn |-> None] /\ session' = [a \in Assistant |-> {}]
              /\ reply' = [q \in Request |-> "none"]
              /\ rows' = [q \in Request |-> IF q \in S /\ rows[q] = "pending" THEN "interrupted" ELSE rows[q]]

SetPersistent(c, k) ==
  /\ up /\ Change /\ ~part[c]
  /\ aborted' = Cut(c) /\ temp' = [temp EXCEPT ![c] = None]
  /\ file' = [file EXCEPT ![c] = k]
  /\ \/ conn' = [conn EXCEPT ![c].has = TRUE] /\ stale' = Outdated(c) /\ UNCHANGED stops
     \/ stops < MaxStops /\ stops' = stops + 1 /\ UNCHANGED <<conn, stale>>
  /\ dropped' = [dropped EXCEPT ![c] = (@ \cup {temp[c], file[c]}) \ {k}]
  /\ UNCHANGED <<part, bound, archived, may, rows, gone, up, session, reply, flight, late, sent, sends, asked>>

SetRefused(c) ==
  /\ up /\ Change
  /\ aborted' = Cut(c)
  /\ UNCHANGED <<durable, up, temp, session, reply, flight, stale, late, sent, sends, stops, asked, dropped>>

(* The program ends in the middle.                                         *)
SetDies(c, k) ==
  /\ up /\ Change /\ ~part[c] /\ stops < MaxStops /\ stops' = stops + 1
  /\ \/ part' = [part EXCEPT ![c] = TRUE] /\ UNCHANGED <<file, dropped>>
     \/ file' = [file EXCEPT ![c] = k] /\ UNCHANGED part
        /\ dropped' = [dropped EXCEPT ![c] = (@ \cup {temp[c], file[c]}) \ {k}]
  /\ Stopped({})
  /\ UNCHANGED <<conn, bound, archived, may, gone, sent, sends, asked>>

RemovedTemporary(c) == [file |-> file[c], temp |-> None]

Removed(c) == [file |-> None, temp |-> None]

DeleteCredential(c) ==
  /\ up /\ Change
  /\ aborted' = Cut(c)
  /\ temp' = [temp EXCEPT ![c] = Removed(c).temp]
  /\ file' = [file EXCEPT ![c] = Removed(c).file]
  /\ \/ conn' = [conn EXCEPT ![c].has = FALSE] /\ stale' = Outdated(c) /\ UNCHANGED stops
     \/ stops < MaxStops /\ stops' = stops + 1 /\ UNCHANGED <<conn, stale>>
  /\ dropped' = [dropped EXCEPT ![c] = @ \cup {temp[c], file[c]}]
  /\ UNCHANGED <<part, bound, archived, may, rows, gone, up, session, reply, flight, late, sent, sends, asked>>

(* The file cannot be removed: the key of this process is gone already.    *)
DeleteFails(c) ==
  /\ up /\ Change /\ file[c] # None /\ stops < MaxStops /\ stops' = stops + 1
  /\ aborted' = Cut(c) /\ temp' = [temp EXCEPT ![c] = None]
  /\ dropped' = [dropped EXCEPT ![c] = @ \cup ({temp[c]} \ {file[c]})]
  /\ UNCHANGED <<durable, up, session, reply, flight, stale, late, sent, sends, asked>>

BindAssistant(a, c) ==
  /\ up /\ Change /\ a \notin archived
  /\ bound' = [bound EXCEPT ![a] = c]
  /\ stale' = stale \cup (flight \cap Of(a))
  /\ UNCHANGED <<conn, file, part, archived, may, rows, gone, up, temp, session, reply, flight, aborted, late,
                 sent, sends, stops, asked, dropped>>

(* setPermissions(), for the address the assistant has now.                *)
RevokedNone(a, read, send) == {}

Revoked(a, read, send) ==
  {q \in flight \cap Of(a) : sent[q].history /\ (~read \/ (~send /\ sent[q].url = UrlOf(a)))}

SetPermissions(a, read, send) ==
  /\ up /\ Change
  /\ send => UrlOf(a) # None
  /\ may' = [may EXCEPT ![a].read = read,
               ![a].send = IF send THEN @ \cup {UrlOf(a)} ELSE @ \ {UrlOf(a)}]
  /\ aborted' = aborted \cup Revoked(a, read, send)
  /\ UNCHANGED <<conn, file, part, bound, archived, rows, gone, up, temp, session, reply, flight, stale, late,
                 sent, sends, stops, asked, dropped>>

Archive(a) ==
  /\ up /\ Change /\ a \notin archived
  /\ archived' = archived \cup {a}
  /\ aborted' = aborted \cup {q \in flight : AssistantOf[q] \in archived'}
  /\ UNCHANGED <<conn, file, part, bound, may, rows, gone, up, temp, session, reply, flight, stale, late,
                 sent, sends, stops, asked, dropped>>

Unarchive(a) ==
  /\ up /\ Change /\ a \in archived
  /\ archived' = archived \ {a}
  /\ UNCHANGED <<conn, file, part, bound, may, rows, gone, volatile, sent, sends, stops, asked, dropped>>
-----------------------------------------------------------------------------
(* saveTemporary(), clearChat(), and the hook of the data governance.      *)
SettledAny(a) == TRUE

Settled(a) == Of(a) \cap flight = {}

SavedAgain(a) == [q \in Request |-> IF q \in session[a] THEN reply[q] ELSE rows[q]]

Saved(a) == [q \in Request |-> IF q \in session[a] /\ rows[q] = "none" THEN reply[q] ELSE rows[q]]

SaveTemporary(a) ==
  /\ up /\ Settled(a) /\ session[a] # {}
  /\ rows' = Saved(a)
  /\ asked' = asked \cup session[a]
  /\ UNCHANGED <<conn, file, part, bound, archived, may, gone, volatile, sent, sends, changes, stops, dropped>>

ClearChat(a) ==
  /\ up /\ Of(a) \cap flight = {} /\ session[a] # {}
  /\ session' = [session EXCEPT ![a] = {}]
  /\ UNCHANGED <<durable, up, temp, reply, flight, aborted, stale, late, sent, sends, changes, stops, asked, dropped>>

KeepSessions == UNCHANGED session

DropSessions == session' = [a \in Assistant |-> {}]

Govern(S) ==
  /\ up /\ Change /\ S # {} /\ \A q \in S : q \notin flight /\ rows[q] \notin {"none", "pending"}
  /\ gone' = gone \cup S
  /\ aborted' = flight /\ late' = flight
  /\ DropSessions
  /\ UNCHANGED <<conn, file, part, bound, archived, may, rows, up, temp, reply, flight, stale, sent, sends, stops, asked, dropped>>

(* close(), the end of the program, open() with recover().                 *)
Close ==
  /\ up /\ stops < MaxStops /\ stops' = stops + 1
  /\ Stopped(flight)
  /\ UNCHANGED <<conn, file, part, bound, archived, may, gone, sent, sends, changes, asked, dropped>>

Crash ==
  /\ up /\ stops < MaxStops /\ stops' = stops + 1
  /\ Stopped({})
  /\ UNCHANGED <<conn, file, part, bound, archived, may, gone, sent, sends, changes, asked, dropped>>

Open ==
  /\ ~up /\ up' = TRUE
  /\ rows' = [q \in Request |-> IF rows[q] = "pending" THEN "interrupted" ELSE rows[q]]
  /\ UNCHANGED <<conn, file, part, bound, archived, may, gone, temp, session, reply, flight, aborted, stale, late,
                 sent, sends, changes, stops, asked, dropped>>

Init ==
  /\ conn \in [Conn -> [url : Url, on : {TRUE}, has : {FALSE}]]
  /\ file = [c \in Conn |-> None] /\ part = [c \in Conn |-> FALSE]
  /\ bound = [a \in Assistant |-> None] /\ archived = {}
  /\ may = [a \in Assistant |-> [read |-> TRUE, send |-> {}]]
  /\ rows = [q \in Request |-> "none"] /\ gone = {}
  /\ up = TRUE /\ temp = [c \in Conn |-> None]
  /\ session = [a \in Assistant |-> {}] /\ reply = [q \in Request |-> "none"]
  /\ flight = {} /\ aborted = {} /\ stale = {} /\ late = {}
  /\ sent = [q \in Request |-> Nothing] /\ sends = [q \in Request |-> 0]
  /\ changes = 0 /\ stops = 0 /\ asked = {} /\ dropped = [c \in Conn |-> {}]

Rounds == \E q \in Request : Start(q) \/ Again(q) \/ Answer(q) \/ Cancel(q)

Settings ==
  \/ \E c \in Conn : SetRefused(c) \/ DeleteCredential(c) \/ DeleteFails(c)
  \/ \E c \in Conn, u \in Url, on \in BOOLEAN : SaveConnection(c, u, on)
  \/ \E c \in Conn, k \in Key : SetTemporary(c, k) \/ SetPersistent(c, k) \/ SetDies(c, k)
  \/ \E a \in Assistant : Archive(a) \/ Unarchive(a)
  \/ \E a \in Assistant, c \in Conn : BindAssistant(a, c)
  \/ \E a \in Assistant, read, send \in BOOLEAN : SetPermissions(a, read, send)

Sessions ==
  \/ \E a \in Assistant : SaveTemporary(a) \/ ClearChat(a)
  \/ \E S \in SUBSET Request : Govern(S)

Next == Rounds \/ Settings \/ Sessions \/ Close \/ Crash \/ Open

Spec == Init /\ [][Next]_vars
-----------------------------------------------------------------------------
(* The shape of the state; a round in flight is one of an open service.    *)
TypeOK ==
  /\ aborted \cup stale \cup late \subseteq flight
  /\ \A a \in Assistant : session[a] \subseteq Temporary \cap Of(a)
  /\ ~up => flight = {} /\ temp = [c \in Conn |-> None]
  /\ \A q \in Request : rows[q] \in {"none", "pending", "completed", "failed", "cancelled", "interrupted"}

(* Whatever goes out goes to the address the assistant is bound to at that *)
(* moment, with the key that connection has at that moment, never one that *)
(* was replaced or taken away, and not to a disabled connection or for an  *)
(* archived assistant (provider-service.ts:1093-1119, 516).                *)
SentAsConfiguredStep ==
  \A q \in Request : sends'[q] > sends[q] =>
    LET s == sent'[q] IN
    /\ s.conn = bound[AssistantOf[q]] /\ s.url = conn[s.conn].url /\ conn[s.conn].on
    /\ s.key # None /\ s.key = (IF temp[s.conn] # None THEN temp[s.conn] ELSE file[s.conn])
    /\ AssistantOf[q] \notin archived

SentAsConfigured == [][SentAsConfiguredStep]_vars

(* Earlier rounds go only to an address that was granted them, for an      *)
(* assistant that may read them, and none that has been cleaned up or      *)
(* withdrawn (provider-service.ts:1120-1147).                              *)
PastIsGrantedStep ==
  \A q \in Request \ Temporary : sends'[q] > sends[q] /\ sent'[q].past # {} =>
    /\ may[AssistantOf[q]].read /\ sent'[q].url \in may[AssistantOf[q]].send
    /\ sent'[q].past \cap gone = {}

PastIsGranted == [][PastIsGrantedStep]_vars

(* When a permission is withdrawn, no round under way that used it still   *)
(* completes, nor does one of a connection whose key was taken away or     *)
(* replaced: it ends as cancelled or failed (provider-service.ts:756-763). *)
WithdrawnIsCut ==
  \A q \in flight : sent[q].history /\ ~may[AssistantOf[q]].read => q \in aborted

(* The same for a connection: none is answered under a key that it no      *)
(* longer has.                                                             *)
ChangedIsCut ==
  \A q \in flight :
    \/ q \in aborted
    \/ conn[sent[q].conn].on /\ conn[sent[q].conn].url = sent[q].url
       /\ sent[q].key = (IF temp[sent[q].conn] # None THEN temp[sent[q].conn] ELSE file[sent[q].conn])

(* A temporary chat stays out of the timeline unless its user saves it,    *)
(* and out of the calls of every other chat until then; it brings nothing  *)
(* of the timeline itself (doc/tasks/005-persistent-timeline.md:17).       *)
TemporaryStaysOut ==
  \A q \in Request :
    /\ q \in Temporary /\ rows[q] # "none" => q \in asked
    /\ q \notin Temporary => sent[q].past \cap Temporary \subseteq asked
    /\ q \in Temporary => sent[q].past \subseteq Temporary \cap Of(AssistantOf[q])

(* What was saved from a session is what the session showed, and settled:  *)
(* saving it twice does not change it, nor does anything later.            *)
SavedIsShown ==
  \A q \in Temporary : rows[q] # "none" =>
    /\ rows[q] # "pending"
    /\ q \in session[AssistantOf[q]] => rows[q] = reply[q]

(* After the data governance has taken rounds away no session goes on with *)
(* what it held (provider-service.ts:411).                                 *)
NotCarriedOnStep ==
  \A q \in Request \cap Temporary : sends'[q] > sends[q] => sent'[q].past \cap gone = {}

NotCarriedOn == [][NotCarriedOnStep]_vars

(* A key that its user took away or replaced is not used again, neither in *)
(* this process nor in the next one (credential-vault.ts:60, 88).          *)
DroppedIsGone ==
  \A c \in Conn : LET k == IF temp[c] # None THEN temp[c] ELSE file[c]
                  IN k # None => k \notin dropped[c]
===============================================================================
