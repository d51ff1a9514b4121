---------------------------- MODULE RecipientsProofs ----------------------------
(***************************************************************************)
(* Proofs about Recipients, for every set of assistants, connections,      *)
(* addresses, keys and rounds: what a call to a model may carry and to     *)
(* whom, and what stays out of the timeline.                               *)
(***************************************************************************)
EXTENDS Recipients, TLAPS

(***************************************************************************)
(* The inductive invariant.                                                *)
(***************************************************************************)
States == {"none", "pending", "completed", "failed", "cancelled", "interrupted"}
Called == [conn : Conn \cup {None}, url : Url \cup {None}, key : Key \cup {None},
           past : SUBSET Request, history : BOOLEAN]

(* The shapes of what is durable, of what is volatile and of the history.  *)
DurableTypes ==
  /\ conn \in [Conn -> [url : Url, on : BOOLEAN, has : BOOLEAN]]
  /\ file \in [Conn -> Key \cup {None}] /\ part \in [Conn -> BOOLEAN]
  /\ bound \in [Assistant -> Conn \cup {None}] /\ archived \subseteq Assistant
  /\ may \in [Assistant -> [read : BOOLEAN, send : SUBSET Url]]
  /\ rows \in [Request -> States] /\ gone \subseteq Request

VolatileTypes ==
  /\ up \in BOOLEAN /\ temp \in [Conn -> Key \cup {None}]
  /\ session \in [Assistant -> SUBSET Request] /\ reply \in [Request -> States]
  /\ flight \subseteq Request /\ aborted \cup stale \cup late \subseteq flight
  /\ ~up => flight = {} /\ temp = [c \in Conn |-> None]

HistoryTypes ==
  /\ sent \in [Request -> Called] /\ sends \in [Request -> Nat]
  /\ asked \subseteq Request /\ dropped \in [Conn -> SUBSET (Key \cup {None})]

Shapes == DurableTypes /\ VolatileTypes /\ HistoryTypes

(* A round under way has a connection and a key, the connection its        *)
(* assistant is bound to unless the binding has changed since, and the     *)
(* address and the key of that connection unless it is aborted.            *)
Addressed ==
  \A q \in flight :
    /\ sent[q].conn \in Conn /\ sent[q].key # None
    /\ q \notin stale => sent[q].conn = bound[AssistantOf[q]]
    /\ q \notin aborted =>
         /\ conn[sent[q].conn].on /\ conn[sent[q].conn].url = sent[q].url
         /\ sent[q].key = KeyOf(sent[q].conn)

(* A round under way that has earlier rounds, or may search for them, is   *)
(* marked as one that uses history; it is aborted when that is withdrawn.  *)
Granted ==
  \A q \in flight :
    /\ q \notin Temporary /\ (sent[q].past # {} \/ q \in Searching) => sent[q].history
    /\ sent[q].history /\ ~may[AssistantOf[q]].read => q \in aborted

(* No key that is still there, in the vault or for this process, is one    *)
(* that the user took away.                                                *)
KeysAreKept ==
  \A c \in Conn :
    /\ file[c] # None => file[c] \notin dropped[c]
    /\ temp[c] # None => temp[c] \notin dropped[c]

(* A session has only temporary rounds of its assistant; one that waits    *)
(* for its answer is in flight, and one in flight waits, in its session,   *)
(* unless the data governance has emptied the sessions meanwhile: what it  *)
(* has overtaken is in none.                                               *)
SessionsHold ==
  /\ \A a \in Assistant : session[a] \subseteq Temporary \cap Of(a)
  /\ \A q \in Request \cap Temporary :
       /\ q \in session[AssistantOf[q]] /\ reply[q] = "pending" => q \in flight \ late
       /\ q \in flight \ late => q \in session[AssistantOf[q]] /\ reply[q] = "pending"

(* What was taken away was a row of the timeline, and is in no session.    *)
GoneIsOut ==
  /\ \A q \in gone : rows[q] # "none"
  /\ \A a \in Assistant : session[a] \cap gone = {}

RecipientsInv ==
  /\ Shapes /\ Addressed /\ Granted /\ KeysAreKept
  /\ SessionsHold /\ GoneIsOut /\ TemporaryStaysOut /\ SavedIsShown

(* The shape of what is durable is kept.                                   *)
LEMMA DurableTypesKept ==
  ASSUME RecipientsAssumption, RecipientsInv, [Next]_vars PROVE DurableTypes'
<1>0. /\ Shapes /\ AssistantOf \in [Request -> Assistant] /\ None \notin Conn
  BY DEF RecipientsAssumption, RecipientsInv
<1> USE DEF durable, volatile, Shapes, DurableTypes, VolatileTypes, HistoryTypes, States, Called, Change
<1>1. ASSUME NEW q \in Request, Start(q) PROVE DurableTypes'
  BY <1>1, <1>0 DEF Start, Execution, Contexts, KeyOf, Here, UrlOf, Readable, Of, Allowed
<1>2. ASSUME NEW q \in Request, Again(q) PROVE DurableTypes'
  BY <1>2, <1>0 DEF Again, Found, Readable, Current, Of
<1>3. ASSUME NEW q \in Request, Answer(q) PROVE DurableTypes'
  BY <1>3, <1>0 DEF Answer, Ends
<1>4. ASSUME NEW q \in Request, Cancel(q) PROVE DurableTypes'
  BY <1>4, <1>0 DEF Cancel
<1>5. ASSUME NEW c \in Conn, SetRefused(c) PROVE DurableTypes'
  BY <1>5, <1>0 DEF SetRefused, Cut
<1>6a. ASSUME NEW c \in Conn, DeleteFails(c) PROVE DurableTypes'
  BY <1>6a, <1>0 DEF DeleteFails, Cut
<1>6. ASSUME NEW c \in Conn, DeleteCredential(c) PROVE DurableTypes'
  <2>1. conn' \in [Conn -> [url : Url, on : BOOLEAN, has : BOOLEAN]]
    <3>1. conn' = conn \/ conn' = [conn EXCEPT ![c].has = FALSE]
      BY <1>6 DEF DeleteCredential, Removed
    <3>2. conn[c] \in [url : Url, on : BOOLEAN, has : BOOLEAN]
      BY <1>0
    <3>3. [conn[c] EXCEPT !.has = FALSE] \in [url : Url, on : BOOLEAN, has : BOOLEAN]
      BY <3>2
    <3>4. CASE conn' = conn
      BY <1>0, <3>4
    <3>5. CASE conn' = [conn EXCEPT ![c].has = FALSE]
      BY <1>0, <3>3, <3>5
    <3>6. QED
      BY <3>1, <3>4, <3>5
  <2>2. QED
    BY <1>6, <2>1, <1>0 DEF DeleteCredential, Removed
<1>7. ASSUME NEW c \in Conn, NEW u \in Url, NEW on \in BOOLEAN, SaveConnection(c, u, on)
      PROVE  DurableTypes'
  <2>1. conn' \in [Conn -> [url : Url, on : BOOLEAN, has : BOOLEAN]]
    <3>1. conn' = conn \/ conn' = [conn EXCEPT ![c].url = u, ![c].on = on]
      BY <1>7 DEF SaveConnection
    <3>2. conn[c] \in [url : Url, on : BOOLEAN, has : BOOLEAN]
      BY <1>0
    <3>3. [conn[c] EXCEPT !.url = u, !.on = on] \in [url : Url, on : BOOLEAN, has : BOOLEAN]
      BY <3>2
    <3>4. CASE conn' = conn
      BY <1>0, <3>4
    <3>5. CASE conn' = [conn EXCEPT ![c].url = u, ![c].on = on]
      BY <1>0, <3>3, <3>5
    <3>6. QED
      BY <3>1, <3>4, <3>5
  <2>2. QED
    BY <1>7, <2>1, <1>0 DEF SaveConnection
<1>8. ASSUME NEW c \in Conn, NEW k \in Key, SetTemporary(c, k) PROVE DurableTypes'
  BY <1>8, <1>0 DEF SetTemporary, Cut
<1>9. ASSUME NEW c \in Conn, NEW k \in Key, SetPersistent(c, k) PROVE DurableTypes'
  <2>1. conn' \in [Conn -> [url : Url, on : BOOLEAN, has : BOOLEAN]]
    <3>1. conn' = conn \/ conn' = [conn EXCEPT ![c].has = TRUE]
      BY <1>9 DEF SetPersistent
    <3>2. conn[c] \in [url : Url, on : BOOLEAN, has : BOOLEAN]
      BY <1>0
    <3>3. [conn[c] EXCEPT !.has = TRUE] \in [url : Url, on : BOOLEAN, has : BOOLEAN]
      BY <3>2
    <3>4. CASE conn' = conn
      BY <1>0, <3>4
    <3>5. CASE conn' = [conn EXCEPT ![c].has = TRUE]
      BY <1>0, <3>3, <3>5
    <3>6. QED
      BY <3>1, <3>4, <3>5
  <2>2. QED
    BY <1>9, <2>1, <1>0 DEF SetPersistent
<1>10. ASSUME NEW c \in Conn, NEW k \in Key, SetDies(c, k) PROVE DurableTypes'
  <2>1. /\ file' = file \/ file' = [file EXCEPT ![c] = k]
        /\ part' = part \/ part' = [part EXCEPT ![c] = TRUE]
        /\ rows' = [q \in Request |-> IF FALSE THEN "interrupted" ELSE rows[q]]
        /\ UNCHANGED <<conn, bound, archived, may, gone>>
    BY <1>10 DEF SetDies, Stopped
  <2>2. file' \in [Conn -> Key \cup {None}]
    BY <2>1, <1>0
  <2>3. part' \in [Conn -> BOOLEAN]
    BY <2>1, <1>0
  <2>4. rows' = rows
    BY <2>1, <1>0
  <2>5. QED
    BY <2>1, <2>2, <2>3, <2>4, <1>0
<1>11. ASSUME NEW a \in Assistant, Archive(a) PROVE DurableTypes'
  BY <1>11, <1>0 DEF Archive
<1>12. ASSUME NEW a \in Assistant, Unarchive(a) PROVE DurableTypes'
  BY <1>12, <1>0 DEF Unarchive
<1>13. ASSUME NEW a \in Assistant, NEW c \in Conn, BindAssistant(a, c) PROVE DurableTypes'
  BY <1>13, <1>0 DEF BindAssistant, Of
<1>14. ASSUME NEW a \in Assistant, NEW read \in BOOLEAN, NEW send \in BOOLEAN, SetPermissions(a, read, send)
       PROVE  DurableTypes'
  <2>1. /\ may' = [may EXCEPT ![a].read = read,
                ![a].send = IF send THEN @ \cup {UrlOf(a)} ELSE @ \ {UrlOf(a)}]
        /\ UNCHANGED <<conn, file, part, bound, archived, rows, gone>>
    BY <1>14 DEF SetPermissions
  <2>2. send => UrlOf(a) \in Url
    BY <1>14, <1>0 DEF SetPermissions, UrlOf, Here
  <2> DEFINE granted == IF send THEN may[a].send \cup {UrlOf(a)} ELSE may[a].send \ {UrlOf(a)}
  <2>3. may' \in [Assistant -> [read : BOOLEAN, send : SUBSET Url]]
    <3>1. may[a] \in [read : BOOLEAN, send : SUBSET Url] /\ granted \in SUBSET Url
      BY <2>2, <1>0
    <3>2. may' = [may EXCEPT ![a] = [may[a] EXCEPT !.read = read, !.send = granted]]
      BY <2>1, <1>0
    <3>3. [may[a] EXCEPT !.read = read, !.send = granted] \in [read : BOOLEAN, send : SUBSET Url]
      BY <3>1
    <3> HIDE DEF granted
    <3>4. QED
      BY <3>2, <3>3, <1>0
  <2>4. QED
    BY <2>1, <2>3, <1>0
<1>15. ASSUME NEW a \in Assistant, SaveTemporary(a) PROVE DurableTypes'
  BY <1>15, <1>0 DEF SaveTemporary, Saved, Settled, Of
<1>16. ASSUME NEW a \in Assistant, ClearChat(a) PROVE DurableTypes'
  BY <1>16, <1>0 DEF ClearChat, Of
<1>17. ASSUME NEW S \in SUBSET Request, Govern(S) PROVE DurableTypes'
  BY <1>17, <1>0 DEF Govern, DropSessions
<1>18. CASE Close
  BY <1>18, <1>0 DEF Close, Stopped
<1>19. CASE Crash
  BY <1>19, <1>0 DEF Crash, Stopped
<1>20. CASE Open
  BY <1>20, <1>0 DEF Open
<1>21. CASE UNCHANGED vars
  BY <1>21, <1>0 DEF vars
<1>22. QED
  BY <1>1, <1>2, <1>3, <1>4, <1>5, <1>6, <1>6a, <1>7, <1>8, <1>9, <1>10, <1>11, <1>12, <1>13, <1>14,
     <1>15, <1>16, <1>17, <1>18, <1>19, <1>20, <1>21 DEF Next, Rounds, Settings, Sessions

(* The shape of what is volatile is kept.                                  *)
LEMMA VolatileTypesKept ==
  ASSUME RecipientsAssumption, RecipientsInv, [Next]_vars PROVE VolatileTypes'
<1>0. /\ Shapes /\ AssistantOf \in [Request -> Assistant] /\ None \notin Conn
  BY DEF RecipientsAssumption, RecipientsInv
<1> USE DEF durable, volatile, Shapes, DurableTypes, VolatileTypes, HistoryTypes, States, Called, Change
<1>1. ASSUME NEW q \in Request, Start(q) PROVE VolatileTypes'
  <2>1. /\ flight' = flight \cup {q}
        /\ session' = session \/ session' = [session EXCEPT ![AssistantOf[q]] = @ \cup {q}]
        /\ reply' = reply \/ reply' = [reply EXCEPT ![q] = "pending"]
        /\ up /\ UNCHANGED <<up, temp, aborted, stale, late>>
    BY <1>1 DEF Start
  <2>2. session' \in [Assistant -> SUBSET Request]
    BY <2>1, <1>0
  <2>3. reply' \in [Request -> States]
    BY <2>1, <1>0
  <2>4. QED
    BY <2>1, <2>2, <2>3, <1>0
<1>2. ASSUME NEW q \in Request, Again(q) PROVE VolatileTypes'
  BY <1>2, <1>0 DEF Again, Found, Readable, Current, Of
<1>3. ASSUME NEW q \in Request, Answer(q) PROVE VolatileTypes'
  BY <1>3, <1>0 DEF Answer, Ends
<1>4. ASSUME NEW q \in Request, Cancel(q) PROVE VolatileTypes'
  BY <1>4, <1>0 DEF Cancel
<1>5. ASSUME NEW c \in Conn, SetRefused(c) PROVE VolatileTypes'
  BY <1>5, <1>0 DEF SetRefused, Cut
<1>6a. ASSUME NEW c \in Conn, DeleteFails(c) PROVE VolatileTypes'
  BY <1>6a, <1>0 DEF DeleteFails, Cut
<1>6. ASSUME NEW c \in Conn, DeleteCredential(c) PROVE VolatileTypes'
  BY <1>6, <1>0 DEF DeleteCredential, Removed, Cut, Outdated
<1>7. ASSUME NEW c \in Conn, NEW u \in Url, NEW on \in BOOLEAN, SaveConnection(c, u, on)
      PROVE  VolatileTypes'
  BY <1>7, <1>0 DEF SaveConnection, Cut, Outdated
<1>8. ASSUME NEW c \in Conn, NEW k \in Key, SetTemporary(c, k) PROVE VolatileTypes'
  BY <1>8, <1>0 DEF SetTemporary, Cut
<1>9. ASSUME NEW c \in Conn, NEW k \in Key, SetPersistent(c, k) PROVE VolatileTypes'
  BY <1>9, <1>0 DEF SetPersistent, Cut, Outdated
<1>10. ASSUME NEW c \in Conn, NEW k \in Key, SetDies(c, k) PROVE VolatileTypes'
  BY <1>10, <1>0 DEF SetDies, Stopped
<1>11. ASSUME NEW a \in Assistant, Archive(a) PROVE VolatileTypes'
  BY <1>11, <1>0 DEF Archive
<1>12. ASSUME NEW a \in Assistant, Unarchive(a) PROVE VolatileTypes'
  BY <1>12, <1>0 DEF Unarchive
<1>13. ASSUME NEW a \in Assistant, NEW c \in Conn, BindAssistant(a, c) PROVE VolatileTypes'
  BY <1>13, <1>0 DEF BindAssistant, Of
<1>14. ASSUME NEW a \in Assistant, NEW read \in BOOLEAN, NEW send \in BOOLEAN, SetPermissions(a, read, send)
       PROVE  VolatileTypes'
  BY <1>14, <1>0 DEF SetPermissions, Revoked, UrlOf, Here, Of
<1>15. ASSUME NEW a \in Assistant, SaveTemporary(a) PROVE VolatileTypes'
  BY <1>15, <1>0 DEF SaveTemporary, Saved, Settled, Of
<1>16. ASSUME NEW a \in Assistant, ClearChat(a) PROVE VolatileTypes'
  BY <1>16, <1>0 DEF ClearChat, Of
<1>17. ASSUME NEW S \in SUBSET Request, Govern(S) PROVE VolatileTypes'
  BY <1>17, <1>0 DEF Govern, DropSessions
<1>18. CASE Close
  BY <1>18, <1>0 DEF Close, Stopped
<1>19. CASE Crash
  BY <1>19, <1>0 DEF Crash, Stopped
<1>20. CASE Open
  BY <1>20, <1>0 DEF Open
<1>21. CASE UNCHANGED vars
  BY <1>21, <1>0 DEF vars
<1>22. QED
  BY <1>1, <1>2, <1>3, <1>4, <1>5, <1>6, <1>6a, <1>7, <1>8, <1>9, <1>10, <1>11, <1>12, <1>13, <1>14,
     <1>15, <1>16, <1>17, <1>18, <1>19, <1>20, <1>21 DEF Next, Rounds, Settings, Sessions

(* The shape of the history is kept.                                       *)
LEMMA HistoryTypesKept ==
  ASSUME RecipientsAssumption, RecipientsInv, [Next]_vars PROVE HistoryTypes'
<1>0. /\ Shapes /\ AssistantOf \in [Request -> Assistant] /\ None \notin Conn
  BY DEF RecipientsAssumption, RecipientsInv
<1> USE DEF durable, volatile, Shapes, DurableTypes, VolatileTypes, HistoryTypes, States, Called, Change
<1>1. ASSUME NEW q \in Request, Start(q) PROVE HistoryTypes'
  BY <1>1, <1>0 DEF Start, Execution, Contexts, KeyOf, Here, UrlOf, Readable, Of, Allowed
<1>2. ASSUME NEW q \in Request, Again(q) PROVE HistoryTypes'
  BY <1>2, <1>0 DEF Again, Found, Readable, Current, Of
<1>3. ASSUME NEW q \in Request, Answer(q) PROVE HistoryTypes'
  BY <1>3, <1>0 DEF Answer, Ends
<1>4. ASSUME NEW q \in Request, Cancel(q) PROVE HistoryTypes'
  BY <1>4, <1>0 DEF Cancel
<1>5. ASSUME NEW c \in Conn, SetRefused(c) PROVE HistoryTypes'
  BY <1>5, <1>0 DEF SetRefused, Cut
<1>6a. ASSUME NEW c \in Conn, DeleteFails(c) PROVE HistoryTypes'
  BY <1>6a, <1>0 DEF DeleteFails, Cut
<1>6. ASSUME NEW c \in Conn, DeleteCredential(c) PROVE HistoryTypes'
  BY <1>6, <1>0 DEF DeleteCredential, Removed, Cut, Outdated
<1>7. ASSUME NEW c \in Conn, NEW u \in Url, NEW on \in BOOLEAN, SaveConnection(c, u, on)
      PROVE  HistoryTypes'
  BY <1>7, <1>0 DEF SaveConnection, Cut, Outdated
<1>8. ASSUME NEW c \in Conn, NEW k \in Key, SetTemporary(c, k) PROVE HistoryTypes'
  BY <1>8, <1>0 DEF SetTemporary, Cut
<1>9. ASSUME NEW c \in Conn, NEW k \in Key, SetPersistent(c, k) PROVE HistoryTypes'
  BY <1>9, <1>0 DEF SetPersistent, Cut, Outdated
<1>10. ASSUME NEW c \in Conn, NEW k \in Key, SetDies(c, k) PROVE HistoryTypes'
  <2>1. /\ dropped' = dropped \/ dropped' = [dropped EXCEPT ![c] = (@ \cup {temp[c], file[c]}) \ {k}]
        /\ UNCHANGED <<sent, sends, asked>>
    BY <1>10 DEF SetDies
  <2>2. dropped' \in [Conn -> SUBSET (Key \cup {None})]
    <3>1. (dropped[c] \cup {temp[c], file[c]}) \ {k} \in SUBSET (Key \cup {None})
      BY <1>0
    <3>2. QED
      BY <2>1, <3>1, <1>0, Zenon
  <2>3. QED
    BY <2>1, <2>2, <1>0
<1>11. ASSUME NEW a \in Assistant, Archive(a) PROVE HistoryTypes'
  BY <1>11, <1>0 DEF Archive
<1>12. ASSUME NEW a \in Assistant, Unarchive(a) PROVE HistoryTypes'
  BY <1>12, <1>0 DEF Unarchive
<1>13. ASSUME NEW a \in Assistant, NEW c \in Conn, BindAssistant(a, c) PROVE HistoryTypes'
  BY <1>13, <1>0 DEF BindAssistant, Of
<1>14. ASSUME NEW a \in Assistant, NEW read \in BOOLEAN, NEW send \in BOOLEAN, SetPermissions(a, read, send)
       PROVE  HistoryTypes'
  BY <1>14, <1>0 DEF SetPermissions, Revoked, UrlOf, Here, Of
<1>15. ASSUME NEW a \in Assistant, SaveTemporary(a) PROVE HistoryTypes'
  BY <1>15, <1>0 DEF SaveTemporary, Saved, Settled, Of
<1>16. ASSUME NEW a \in Assistant, ClearChat(a) PROVE HistoryTypes'
  BY <1>16, <1>0 DEF ClearChat, Of
<1>17. ASSUME NEW S \in SUBSET Request, Govern(S) PROVE HistoryTypes'
  BY <1>17, <1>0 DEF Govern, DropSessions
<1>18. CASE Close
  BY <1>18, <1>0 DEF Close, Stopped
<1>19. CASE Crash
  BY <1>19, <1>0 DEF Crash, Stopped
<1>20. CASE Open
  BY <1>20, <1>0 DEF Open
<1>21. CASE UNCHANGED vars
  BY <1>21, <1>0 DEF vars
<1>22. QED
  BY <1>1, <1>2, <1>3, <1>4, <1>5, <1>6, <1>6a, <1>7, <1>8, <1>9, <1>10, <1>11, <1>12, <1>13, <1>14,
     <1>15, <1>16, <1>17, <1>18, <1>19, <1>20, <1>21 DEF Next, Rounds, Settings, Sessions

(* A step that changes a connection, its key or a binding marks the rounds *)
(* under way that it concerns.                                             *)
LEMMA AddressedKept ==
  ASSUME RecipientsAssumption, RecipientsInv, [Next]_vars PROVE Addressed'
<1>0. /\ Shapes /\ AssistantOf \in [Request -> Assistant] /\ None \notin Conn \cup Key
      /\ Addressed /\ Searching \cap Temporary = {}
  BY DEF RecipientsAssumption, RecipientsInv
<1> USE DEF durable, volatile, Shapes, DurableTypes, VolatileTypes, HistoryTypes, Called, Change, KeyOf, Addressed
<1>1. ASSUME NEW q \in Request, Start(q) PROVE Addressed'
  BY <1>1, <1>0 DEF Start, Execution, Contexts, KeyOf, Here, UrlOf, Readable, Of, Allowed
<1>2. ASSUME NEW q \in Request, Again(q) PROVE Addressed'
  BY <1>2, <1>0 DEF Again, Found, Readable, Current, Of
<1>3. ASSUME NEW q \in Request, Answer(q) PROVE Addressed'
  BY <1>3, <1>0 DEF Answer, Ends
<1>4. ASSUME NEW q \in Request, Cancel(q) PROVE Addressed'
  BY <1>4, <1>0 DEF Cancel
<1>5. ASSUME NEW c \in Conn, SetRefused(c) PROVE Addressed'
  BY <1>5, <1>0 DEF SetRefused, Cut
<1>6a. ASSUME NEW c \in Conn, DeleteFails(c) PROVE Addressed'
  BY <1>6a, <1>0 DEF DeleteFails, Cut
<1>6. ASSUME NEW c \in Conn, DeleteCredential(c) PROVE Addressed'
  BY <1>6, <1>0 DEF DeleteCredential, Removed, Cut, Outdated
<1>7. ASSUME NEW c \in Conn, NEW u \in Url, NEW on \in BOOLEAN, SaveConnection(c, u, on)
      PROVE  Addressed'
  BY <1>7, <1>0 DEF SaveConnection, Cut, Outdated
<1>8. ASSUME NEW c \in Conn, NEW k \in Key, SetTemporary(c, k) PROVE Addressed'
  BY <1>8, <1>0 DEF SetTemporary, Cut
<1>9. ASSUME NEW c \in Conn, NEW k \in Key, SetPersistent(c, k) PROVE Addressed'
  BY <1>9, <1>0 DEF SetPersistent, Cut, Outdated
<1>10. ASSUME NEW c \in Conn, NEW k \in Key, SetDies(c, k) PROVE Addressed'
  BY <1>10, <1>0 DEF SetDies, Stopped
<1>11. ASSUME NEW a \in Assistant, Archive(a) PROVE Addressed'
  BY <1>11, <1>0 DEF Archive
<1>12. ASSUME NEW a \in Assistant, Unarchive(a) PROVE Addressed'
  BY <1>12, <1>0 DEF Unarchive
<1>13. ASSUME NEW a \in Assistant, NEW c \in Conn, BindAssistant(a, c) PROVE Addressed'
  BY <1>13, <1>0 DEF BindAssistant, Of
<1>14. ASSUME NEW a \in Assistant, NEW read \in BOOLEAN, NEW send \in BOOLEAN, SetPermissions(a, read, send)
       PROVE  Addressed'
  BY <1>14, <1>0 DEF SetPermissions, Revoked, UrlOf, Here, Of
<1>15. ASSUME NEW a \in Assistant, SaveTemporary(a) PROVE Addressed'
  BY <1>15, <1>0 DEF SaveTemporary, Saved, Settled, Of
<1>16. ASSUME NEW a \in Assistant, ClearChat(a) PROVE Addressed'
  BY <1>16, <1>0 DEF ClearChat, Of
<1>17. ASSUME NEW S \in SUBSET Request, Govern(S) PROVE Addressed'
  BY <1>17, <1>0 DEF Govern, DropSessions
<1>18. CASE Close
  BY <1>18, <1>0 DEF Close, Stopped
<1>19. CASE Crash
  BY <1>19, <1>0 DEF Crash, Stopped
<1>20. CASE Open
  BY <1>20, <1>0 DEF Open
<1>21. CASE UNCHANGED vars
  BY <1>21, <1>0 DEF vars
<1>22. QED
  BY <1>1, <1>2, <1>3, <1>4, <1>5, <1>6, <1>6a, <1>7, <1>8, <1>9, <1>10, <1>11, <1>12, <1>13, <1>14,
     <1>15, <1>16, <1>17, <1>18, <1>19, <1>20, <1>21 DEF Next, Rounds, Settings, Sessions

(* A round that has earlier rounds is marked from its start, and every     *)
(* withdrawal aborts those that are.                                       *)
LEMMA GrantedKept ==
  ASSUME RecipientsAssumption, RecipientsInv, [Next]_vars PROVE Granted'
<1>0. /\ Shapes /\ AssistantOf \in [Request -> Assistant] /\ None \notin Url \cup Conn \cup Key
      /\ Searching \subseteq Tooled \ Temporary /\ Tooled \subseteq Request /\ Temporary \subseteq Request
      /\ Granted
  BY DEF RecipientsAssumption, RecipientsInv
<1> USE DEF durable, volatile, Shapes, DurableTypes, VolatileTypes, HistoryTypes, Called, Change, Granted
<1>1. ASSUME NEW q \in Request, Start(q) PROVE Granted'
  BY <1>1, <1>0 DEF Start, Execution, Contexts, KeyOf, Here, UrlOf, Readable, Of, Allowed
<1>2. ASSUME NEW q \in Request, Again(q) PROVE Granted'
  BY <1>2, <1>0 DEF Again, Found, Readable, Current, Of
<1>3. ASSUME NEW q \in Request, Answer(q) PROVE Granted'
  BY <1>3, <1>0 DEF Answer, Ends
<1>4. ASSUME NEW q \in Request, Cancel(q) PROVE Granted'
  BY <1>4, <1>0 DEF Cancel
<1>5. ASSUME NEW c \in Conn, SetRefused(c) PROVE Granted'
  BY <1>5, <1>0 DEF SetRefused, Cut
<1>6a. ASSUME NEW c \in Conn, DeleteFails(c) PROVE Granted'
  BY <1>6a, <1>0 DEF DeleteFails, Cut
<1>6. ASSUME NEW c \in Conn, DeleteCredential(c) PROVE Granted'
  BY <1>6, <1>0 DEF DeleteCredential, Removed, Cut, Outdated
<1>7. ASSUME NEW c \in Conn, NEW u \in Url, NEW on \in BOOLEAN, SaveConnection(c, u, on)
      PROVE  Granted'
  BY <1>7, <1>0 DEF SaveConnection, Cut, Outdated
<1>8. ASSUME NEW c \in Conn, NEW k \in Key, SetTemporary(c, k) PROVE Granted'
  BY <1>8, <1>0 DEF SetTemporary, Cut
<1>9. ASSUME NEW c \in Conn, NEW k \in Key, SetPersistent(c, k) PROVE Granted'
  BY <1>9, <1>0 DEF SetPersistent, Cut, Outdated
<1>10. ASSUME NEW c \in Conn, NEW k \in Key, SetDies(c, k) PROVE Granted'
  BY <1>10, <1>0 DEF SetDies, Stopped
<1>11. ASSUME NEW a \in Assistant, Archive(a) PROVE Granted'
  BY <1>11, <1>0 DEF Archive
<1>12. ASSUME NEW a \in Assistant, Unarchive(a) PROVE Granted'
  BY <1>12, <1>0 DEF Unarchive
<1>13. ASSUME NEW a \in Assistant, NEW c \in Conn, BindAssistant(a, c) PROVE Granted'
  BY <1>13, <1>0 DEF BindAssistant, Of
<1>14. ASSUME NEW a \in Assistant, NEW read \in BOOLEAN, NEW send \in BOOLEAN, SetPermissions(a, read, send)
       PROVE  Granted'
  BY <1>14, <1>0 DEF SetPermissions, Revoked, UrlOf, Here, Of
<1>15. ASSUME NEW a \in Assistant, SaveTemporary(a) PROVE Granted'
  BY <1>15, <1>0 DEF SaveTemporary, Saved, Settled, Of
<1>16. ASSUME NEW a \in Assistant, ClearChat(a) PROVE Granted'
  BY <1>16, <1>0 DEF ClearChat, Of
<1>17. ASSUME NEW S \in SUBSET Request, Govern(S) PROVE Granted'
  BY <1>17, <1>0 DEF Govern, DropSessions
<1>18. CASE Close
  BY <1>18, <1>0 DEF Close, Stopped
<1>19. CASE Crash
  BY <1>19, <1>0 DEF Crash, Stopped
<1>20. CASE Open
  BY <1>20, <1>0 DEF Open
<1>21. CASE UNCHANGED vars
  BY <1>21, <1>0 DEF vars
<1>22. QED
  BY <1>1, <1>2, <1>3, <1>4, <1>5, <1>6, <1>6a, <1>7, <1>8, <1>9, <1>10, <1>11, <1>12, <1>13, <1>14,
     <1>15, <1>16, <1>17, <1>18, <1>19, <1>20, <1>21 DEF Next, Rounds, Settings, Sessions

(* A key is taken from the dropped ones only by setting it again.          *)
LEMMA KeysKept ==
  ASSUME RecipientsAssumption, RecipientsInv, [Next]_vars PROVE KeysAreKept'
<1>0. /\ Shapes /\ AssistantOf \in [Request -> Assistant] /\ None \notin Url \cup Conn \cup Key
      /\ Searching \subseteq Tooled \ Temporary /\ Tooled \subseteq Request /\ Temporary \subseteq Request
      /\ KeysAreKept
  BY DEF RecipientsAssumption, RecipientsInv
<1> USE DEF durable, volatile, Shapes, DurableTypes, VolatileTypes, HistoryTypes, Called, Change, KeysAreKept
<1>1. ASSUME NEW q \in Request, Start(q) PROVE KeysAreKept'
  BY <1>1, <1>0 DEF Start, Execution, Contexts, KeyOf, Here, UrlOf, Readable, Of, Allowed
<1>2. ASSUME NEW q \in Request, Again(q) PROVE KeysAreKept'
  BY <1>2, <1>0 DEF Again, Found, Readable, Current, Of
<1>3. ASSUME NEW q \in Request, Answer(q) PROVE KeysAreKept'
  BY <1>3, <1>0 DEF Answer, Ends
<1>4. ASSUME NEW q \in Request, Cancel(q) PROVE KeysAreKept'
  BY <1>4, <1>0 DEF Cancel
<1>5. ASSUME NEW c \in Conn, SetRefused(c) PROVE KeysAreKept'
  BY <1>5, <1>0 DEF SetRefused, Cut
<1>6a. ASSUME NEW c \in Conn, DeleteFails(c) PROVE KeysAreKept'
  BY <1>6a, <1>0 DEF DeleteFails, Cut
<1>6. ASSUME NEW c \in Conn, DeleteCredential(c) PROVE KeysAreKept'
  BY <1>6, <1>0 DEF DeleteCredential, Removed, Cut, Outdated
<1>7. ASSUME NEW c \in Conn, NEW u \in Url, NEW on \in BOOLEAN, SaveConnection(c, u, on)
      PROVE  KeysAreKept'
  BY <1>7, <1>0 DEF SaveConnection, Cut, Outdated
<1>8. ASSUME NEW c \in Conn, NEW k \in Key, SetTemporary(c, k) PROVE KeysAreKept'
  BY <1>8, <1>0 DEF SetTemporary, Cut
<1>9. ASSUME NEW c \in Conn, NEW k \in Key, SetPersistent(c, k) PROVE KeysAreKept'
  BY <1>9, <1>0 DEF SetPersistent, Cut, Outdated
<1>10. ASSUME NEW c \in Conn, NEW k \in Key, SetDies(c, k) PROVE KeysAreKept'
  BY <1>10, <1>0 DEF SetDies, Stopped
<1>11. ASSUME NEW a \in Assistant, Archive(a) PROVE KeysAreKept'
  BY <1>11, <1>0 DEF Archive
<1>12. ASSUME NEW a \in Assistant, Unarchive(a) PROVE KeysAreKept'
  BY <1>12, <1>0 DEF Unarchive
<1>13. ASSUME NEW a \in Assistant, NEW c \in Conn, BindAssistant(a, c) PROVE KeysAreKept'
  BY <1>13, <1>0 DEF BindAssistant, Of
<1>14. ASSUME NEW a \in Assistant, NEW read \in BOOLEAN, NEW send \in BOOLEAN, SetPermissions(a, read, send)
       PROVE  KeysAreKept'
  BY <1>14, <1>0 DEF SetPermissions, Revoked, UrlOf, Here, Of
<1>15. ASSUME NEW a \in Assistant, SaveTemporary(a) PROVE KeysAreKept'
  BY <1>15, <1>0 DEF SaveTemporary, Saved, Settled, Of
<1>16. ASSUME NEW a \in Assistant, ClearChat(a) PROVE KeysAreKept'
  BY <1>16, <1>0 DEF ClearChat, Of
<1>17. ASSUME NEW S \in SUBSET Request, Govern(S) PROVE KeysAreKept'
  BY <1>17, <1>0 DEF Govern, DropSessions
<1>18. CASE Close
  BY <1>18, <1>0 DEF Close, Stopped
<1>19. CASE Crash
  BY <1>19, <1>0 DEF Crash, Stopped
<1>20. CASE Open
  BY <1>20, <1>0 DEF Open
<1>21. CASE UNCHANGED vars
  BY <1>21, <1>0 DEF vars
<1>22. QED
  BY <1>1, <1>2, <1>3, <1>4, <1>5, <1>6, <1>6a, <1>7, <1>8, <1>9, <1>10, <1>11, <1>12, <1>13, <1>14,
     <1>15, <1>16, <1>17, <1>18, <1>19, <1>20, <1>21 DEF Next, Rounds, Settings, Sessions

(* A round enters its session with its call and waits there for its end.   *)
LEMMA SessionsKept ==
  ASSUME RecipientsAssumption, RecipientsInv, [Next]_vars PROVE SessionsHold'
<1>0. /\ Shapes /\ AssistantOf \in [Request -> Assistant] /\ None \notin Url \cup Conn \cup Key
      /\ Searching \subseteq Tooled \ Temporary /\ Tooled \subseteq Request /\ Temporary \subseteq Request
      /\ SessionsHold
  BY DEF RecipientsAssumption, RecipientsInv
<1> USE DEF durable, volatile, Shapes, DurableTypes, VolatileTypes, HistoryTypes, Called, Change, SessionsHold, Of
<1>1. ASSUME NEW q \in Request, Start(q) PROVE SessionsHold'
  <2>1. /\ rows[q] = "none" /\ q \notin flight /\ flight' = flight \cup {q} /\ late' = late
        /\ IF q \in Temporary
             THEN /\ session' = [session EXCEPT ![AssistantOf[q]] = @ \cup {q}]
                  /\ reply' = [reply EXCEPT ![q] = "pending"]
             ELSE UNCHANGED <<session, reply>>
    BY <1>1, <1>0 DEF Start, Of
  <2>2. CASE q \in Temporary
    <3>1. /\ \A a \in Assistant : session'[a] = IF a = AssistantOf[q] THEN session[a] \cup {q} ELSE session[a]
          /\ \A r \in Request : reply'[r] = IF r = q THEN "pending" ELSE reply[r]
      BY <2>1, <2>2, <1>0
    <3>2. ASSUME NEW a \in Assistant PROVE session'[a] \subseteq Temporary \cap Of(a)
      <4>1. session[a] \subseteq Temporary \cap Of(a)
        BY <1>0
      <4>2. a = AssistantOf[q] => q \in Temporary \cap Of(a)
        BY <2>2
      <4>3. session'[a] = IF a = AssistantOf[q] THEN session[a] \cup {q} ELSE session[a]
        BY <3>1
      <4>4. QED
        BY <4>1, <4>2, <4>3, Zenon
    <3>3. ASSUME NEW r \in Request \cap Temporary
          PROVE  /\ r \in session'[AssistantOf[r]] /\ reply'[r] = "pending" => r \in flight' \ late'
                 /\ r \in flight' \ late' => r \in session'[AssistantOf[r]] /\ reply'[r] = "pending"
      <4>1. CASE r = q
        BY <2>1, <3>1, <4>1, <1>0
      <4>2. CASE r # q
        BY <2>1, <3>1, <4>2, <1>0
      <4>3. QED
        BY <4>1, <4>2
    <3>4. QED
      BY <3>2, <3>3
  <2>3. CASE q \notin Temporary
    BY <2>1, <2>3, <1>0
  <2>4. QED
    BY <2>2, <2>3
<1>2. ASSUME NEW q \in Request, Again(q) PROVE SessionsHold'
  BY <1>2, <1>0 DEF Again, Found, Readable, Current, Of
<1>3. ASSUME NEW q \in Request, Answer(q) PROVE SessionsHold'
  <2>1. /\ q \in flight /\ flight' = flight \ {q} /\ late' = late \ {q} /\ session' = session
        /\ \E how \in Ends(q) :
             reply' = IF q \in Temporary \ late THEN [reply EXCEPT ![q] = how] ELSE reply
    BY <1>3 DEF Answer
  <2>2. "pending" \notin Ends(q) /\ Ends(q) \subseteq States
    BY DEF Ends, States
  <2>3. QED
    BY <2>1, <2>2, <1>0
<1>4. ASSUME NEW q \in Request, Cancel(q) PROVE SessionsHold'
  BY <1>4, <1>0 DEF Cancel
<1>5. ASSUME NEW c \in Conn, SetRefused(c) PROVE SessionsHold'
  BY <1>5, <1>0 DEF SetRefused, Cut
<1>6a. ASSUME NEW c \in Conn, DeleteFails(c) PROVE SessionsHold'
  BY <1>6a, <1>0 DEF DeleteFails, Cut
<1>6. ASSUME NEW c \in Conn, DeleteCredential(c) PROVE SessionsHold'
  BY <1>6, <1>0 DEF DeleteCredential, Removed, Cut, Outdated
<1>7. ASSUME NEW c \in Conn, NEW u \in Url, NEW on \in BOOLEAN, SaveConnection(c, u, on)
      PROVE  SessionsHold'
  BY <1>7, <1>0 DEF SaveConnection, Cut, Outdated
<1>8. ASSUME NEW c \in Conn, NEW k \in Key, SetTemporary(c, k) PROVE SessionsHold'
  BY <1>8, <1>0 DEF SetTemporary, Cut
<1>9. ASSUME NEW c \in Conn, NEW k \in Key, SetPersistent(c, k) PROVE SessionsHold'
  BY <1>9, <1>0 DEF SetPersistent, Cut, Outdated
<1>10. ASSUME NEW c \in Conn, NEW k \in Key, SetDies(c, k) PROVE SessionsHold'
  BY <1>10, <1>0 DEF SetDies, Stopped
<1>11. ASSUME NEW a \in Assistant, Archive(a) PROVE SessionsHold'
  BY <1>11, <1>0 DEF Archive
<1>12. ASSUME NEW a \in Assistant, Unarchive(a) PROVE SessionsHold'
  BY <1>12, <1>0 DEF Unarchive
<1>13. ASSUME NEW a \in Assistant, NEW c \in Conn, BindAssistant(a, c) PROVE SessionsHold'
  BY <1>13, <1>0 DEF BindAssistant, Of
<1>14. ASSUME NEW a \in Assistant, NEW read \in BOOLEAN, NEW send \in BOOLEAN, SetPermissions(a, read, send)
       PROVE  SessionsHold'
  BY <1>14, <1>0 DEF SetPermissions, Revoked, UrlOf, Here, Of
<1>15. ASSUME NEW a \in Assistant, SaveTemporary(a) PROVE SessionsHold'
  BY <1>15, <1>0 DEF SaveTemporary, Saved, Settled, Of
<1>16. ASSUME NEW a \in Assistant, ClearChat(a) PROVE SessionsHold'
  BY <1>16, <1>0 DEF ClearChat, Of
<1>17. ASSUME NEW S \in SUBSET Request, Govern(S) PROVE SessionsHold'
  BY <1>17, <1>0 DEF Govern, DropSessions
<1>18. CASE Close
  BY <1>18, <1>0 DEF Close, Stopped
<1>19. CASE Crash
  BY <1>19, <1>0 DEF Crash, Stopped
<1>20. CASE Open
  BY <1>20, <1>0 DEF Open
<1>21. CASE UNCHANGED vars
  BY <1>21, <1>0 DEF vars
<1>22. QED
  BY <1>1, <1>2, <1>3, <1>4, <1>5, <1>6, <1>6a, <1>7, <1>8, <1>9, <1>10, <1>11, <1>12, <1>13, <1>14,
     <1>15, <1>16, <1>17, <1>18, <1>19, <1>20, <1>21 DEF Next, Rounds, Settings, Sessions

(* A row that was there stays, and a session starts afresh.                *)
LEMMA GoneKept ==
  ASSUME RecipientsAssumption, RecipientsInv, [Next]_vars PROVE GoneIsOut'
<1>0. /\ Shapes /\ AssistantOf \in [Request -> Assistant] /\ None \notin Url \cup Conn \cup Key
      /\ Searching \subseteq Tooled \ Temporary /\ Tooled \subseteq Request /\ Temporary \subseteq Request
      /\ GoneIsOut /\ SessionsHold
  BY DEF RecipientsAssumption, RecipientsInv
<1> USE DEF durable, volatile, Shapes, DurableTypes, VolatileTypes, HistoryTypes, Called, Change, GoneIsOut, SessionsHold, States, Of
<1>1. ASSUME NEW q \in Request, Start(q) PROVE GoneIsOut'
  <2>1. /\ rows[q] = "none" /\ q \notin flight /\ flight' = flight \cup {q} /\ late' = late
        /\ UNCHANGED gone
        /\ IF q \in Temporary
             THEN /\ session' = [session EXCEPT ![AssistantOf[q]] = @ \cup {q}]
                  /\ reply' = [reply EXCEPT ![q] = "pending"] /\ rows' = rows
             ELSE rows' = [rows EXCEPT ![q] = "pending"] /\ UNCHANGED <<session, reply>>
    BY <1>1, <1>0 DEF Start, Of
  <2>2. CASE q \in Temporary
    BY <2>1, <2>2, <1>0
  <2>3. CASE q \notin Temporary
    BY <2>1, <2>3, <1>0
  <2>4. QED
    BY <2>2, <2>3
<1>2. ASSUME NEW q \in Request, Again(q) PROVE GoneIsOut'
  BY <1>2, <1>0 DEF Again, Found, Readable, Current, Of
<1>3. ASSUME NEW q \in Request, Answer(q) PROVE GoneIsOut'
  BY <1>3, <1>0 DEF Answer, Ends
<1>4. ASSUME NEW q \in Request, Cancel(q) PROVE GoneIsOut'
  BY <1>4, <1>0 DEF Cancel
<1>5. ASSUME NEW c \in Conn, SetRefused(c) PROVE GoneIsOut'
  BY <1>5, <1>0 DEF SetRefused, Cut
<1>6a. ASSUME NEW c \in Conn, DeleteFails(c) PROVE GoneIsOut'
  BY <1>6a, <1>0 DEF DeleteFails, Cut
<1>6. ASSUME NEW c \in Conn, DeleteCredential(c) PROVE GoneIsOut'
  BY <1>6, <1>0 DEF DeleteCredential, Removed, Cut, Outdated
<1>7. ASSUME NEW c \in Conn, NEW u \in Url, NEW on \in BOOLEAN, SaveConnection(c, u, on)
      PROVE  GoneIsOut'
  BY <1>7, <1>0 DEF SaveConnection, Cut, Outdated
<1>8. ASSUME NEW c \in Conn, NEW k \in Key, SetTemporary(c, k) PROVE GoneIsOut'
  BY <1>8, <1>0 DEF SetTemporary, Cut
<1>9. ASSUME NEW c \in Conn, NEW k \in Key, SetPersistent(c, k) PROVE GoneIsOut'
  BY <1>9, <1>0 DEF SetPersistent, Cut, Outdated
<1>10. ASSUME NEW c \in Conn, NEW k \in Key, SetDies(c, k) PROVE GoneIsOut'
  BY <1>10, <1>0 DEF SetDies, Stopped
<1>11. ASSUME NEW a \in Assistant, Archive(a) PROVE GoneIsOut'
  BY <1>11, <1>0 DEF Archive
<1>12. ASSUME NEW a \in Assistant, Unarchive(a) PROVE GoneIsOut'
  BY <1>12, <1>0 DEF Unarchive
<1>13. ASSUME NEW a \in Assistant, NEW c \in Conn, BindAssistant(a, c) PROVE GoneIsOut'
  BY <1>13, <1>0 DEF BindAssistant, Of
<1>14. ASSUME NEW a \in Assistant, NEW read \in BOOLEAN, NEW send \in BOOLEAN, SetPermissions(a, read, send)
       PROVE  GoneIsOut'
  BY <1>14, <1>0 DEF SetPermissions, Revoked, UrlOf, Here, Of
<1>15. ASSUME NEW a \in Assistant, SaveTemporary(a) PROVE GoneIsOut'
  BY <1>15, <1>0 DEF SaveTemporary, Saved, Settled, Of
<1>16. ASSUME NEW a \in Assistant, ClearChat(a) PROVE GoneIsOut'
  BY <1>16, <1>0 DEF ClearChat, Of
<1>17. ASSUME NEW S \in SUBSET Request, Govern(S) PROVE GoneIsOut'
  BY <1>17, <1>0 DEF Govern, DropSessions
<1>18. CASE Close
  BY <1>18, <1>0 DEF Close, Stopped
<1>19. CASE Crash
  BY <1>19, <1>0 DEF Crash, Stopped
<1>20. CASE Open
  BY <1>20, <1>0 DEF Open
<1>21. CASE UNCHANGED vars
  BY <1>21, <1>0 DEF vars
<1>22. QED
  BY <1>1, <1>2, <1>3, <1>4, <1>5, <1>6, <1>6a, <1>7, <1>8, <1>9, <1>10, <1>11, <1>12, <1>13, <1>14,
     <1>15, <1>16, <1>17, <1>18, <1>19, <1>20, <1>21 DEF Next, Rounds, Settings, Sessions

(* Rows of temporary rounds come by saving, and calls take what has rows.  *)
LEMMA TemporaryKept ==
  ASSUME RecipientsAssumption, RecipientsInv, [Next]_vars PROVE TemporaryStaysOut'
<1>0. /\ Shapes /\ AssistantOf \in [Request -> Assistant] /\ None \notin Url \cup Conn \cup Key
      /\ Searching \subseteq Tooled \ Temporary /\ Tooled \subseteq Request /\ Temporary \subseteq Request
      /\ TemporaryStaysOut /\ SessionsHold
  BY DEF RecipientsAssumption, RecipientsInv
<1> USE DEF durable, volatile, Shapes, DurableTypes, VolatileTypes, HistoryTypes, Called, Change, TemporaryStaysOut, SessionsHold, Of
<1>1. ASSUME NEW q \in Request, Start(q) PROVE TemporaryStaysOut'
  BY <1>1, <1>0 DEF Start, Execution, Contexts, KeyOf, Here, UrlOf, Readable, Of, Allowed
<1>2. ASSUME NEW q \in Request, Again(q) PROVE TemporaryStaysOut'
  BY <1>2, <1>0 DEF Again, Found, Readable, Current, Of
<1>3. ASSUME NEW q \in Request, Answer(q) PROVE TemporaryStaysOut'
  BY <1>3, <1>0 DEF Answer, Ends
<1>4. ASSUME NEW q \in Request, Cancel(q) PROVE TemporaryStaysOut'
  BY <1>4, <1>0 DEF Cancel
<1>5. ASSUME NEW c \in Conn, SetRefused(c) PROVE TemporaryStaysOut'
  BY <1>5, <1>0 DEF SetRefused, Cut
<1>6a. ASSUME NEW c \in Conn, DeleteFails(c) PROVE TemporaryStaysOut'
  BY <1>6a, <1>0 DEF DeleteFails, Cut
<1>6. ASSUME NEW c \in Conn, DeleteCredential(c) PROVE TemporaryStaysOut'
  BY <1>6, <1>0 DEF DeleteCredential, Removed, Cut, Outdated
<1>7. ASSUME NEW c \in Conn, NEW u \in Url, NEW on \in BOOLEAN, SaveConnection(c, u, on)
      PROVE  TemporaryStaysOut'
  BY <1>7, <1>0 DEF SaveConnection, Cut, Outdated
<1>8. ASSUME NEW c \in Conn, NEW k \in Key, SetTemporary(c, k) PROVE TemporaryStaysOut'
  BY <1>8, <1>0 DEF SetTemporary, Cut
<1>9. ASSUME NEW c \in Conn, NEW k \in Key, SetPersistent(c, k) PROVE TemporaryStaysOut'
  BY <1>9, <1>0 DEF SetPersistent, Cut, Outdated
<1>10. ASSUME NEW c \in Conn, NEW k \in Key, SetDies(c, k) PROVE TemporaryStaysOut'
  BY <1>10, <1>0 DEF SetDies, Stopped
<1>11. ASSUME NEW a \in Assistant, Archive(a) PROVE TemporaryStaysOut'
  BY <1>11, <1>0 DEF Archive
<1>12. ASSUME NEW a \in Assistant, Unarchive(a) PROVE TemporaryStaysOut'
  BY <1>12, <1>0 DEF Unarchive
<1>13. ASSUME NEW a \in Assistant, NEW c \in Conn, BindAssistant(a, c) PROVE TemporaryStaysOut'
  BY <1>13, <1>0 DEF BindAssistant, Of
<1>14. ASSUME NEW a \in Assistant, NEW read \in BOOLEAN, NEW send \in BOOLEAN, SetPermissions(a, read, send)
       PROVE  TemporaryStaysOut'
  BY <1>14, <1>0 DEF SetPermissions, Revoked, UrlOf, Here, Of
<1>15. ASSUME NEW a \in Assistant, SaveTemporary(a) PROVE TemporaryStaysOut'
  BY <1>15, <1>0 DEF SaveTemporary, Saved, Settled, Of
<1>16. ASSUME NEW a \in Assistant, ClearChat(a) PROVE TemporaryStaysOut'
  BY <1>16, <1>0 DEF ClearChat, Of
<1>17. ASSUME NEW S \in SUBSET Request, Govern(S) PROVE TemporaryStaysOut'
  BY <1>17, <1>0 DEF Govern, DropSessions
<1>18. CASE Close
  BY <1>18, <1>0 DEF Close, Stopped
<1>19. CASE Crash
  BY <1>19, <1>0 DEF Crash, Stopped
<1>20. CASE Open
  BY <1>20, <1>0 DEF Open
<1>21. CASE UNCHANGED vars
  BY <1>21, <1>0 DEF vars
<1>22. QED
  BY <1>1, <1>2, <1>3, <1>4, <1>5, <1>6, <1>6a, <1>7, <1>8, <1>9, <1>10, <1>11, <1>12, <1>13, <1>14,
     <1>15, <1>16, <1>17, <1>18, <1>19, <1>20, <1>21 DEF Next, Rounds, Settings, Sessions

(* What is saved has settled, and what has settled does not change.        *)
LEMMA SavedKept ==
  ASSUME RecipientsAssumption, RecipientsInv, [Next]_vars PROVE SavedIsShown'
<1>0. /\ Shapes /\ AssistantOf \in [Request -> Assistant] /\ None \notin Url \cup Conn \cup Key
      /\ Searching \subseteq Tooled \ Temporary /\ Tooled \subseteq Request /\ Temporary \subseteq Request
      /\ SavedIsShown /\ SessionsHold
  BY DEF RecipientsAssumption, RecipientsInv
<1> USE DEF durable, volatile, Shapes, DurableTypes, VolatileTypes, HistoryTypes, Called, Change, SavedIsShown, SessionsHold, Of, States
<1>1. ASSUME NEW q \in Request, Start(q) PROVE SavedIsShown'
  BY <1>1, <1>0 DEF Start, Execution, Contexts, KeyOf, Here, UrlOf, Readable, Of, Allowed
<1>2. ASSUME NEW q \in Request, Again(q) PROVE SavedIsShown'
  BY <1>2, <1>0 DEF Again, Found, Readable, Current, Of
<1>3. ASSUME NEW q \in Request, Answer(q) PROVE SavedIsShown'
  BY <1>3, <1>0 DEF Answer, Ends
<1>4. ASSUME NEW q \in Request, Cancel(q) PROVE SavedIsShown'
  BY <1>4, <1>0 DEF Cancel
<1>5. ASSUME NEW c \in Conn, SetRefused(c) PROVE SavedIsShown'
  BY <1>5, <1>0 DEF SetRefused, Cut
<1>6a. ASSUME NEW c \in Conn, DeleteFails(c) PROVE SavedIsShown'
  BY <1>6a, <1>0 DEF DeleteFails, Cut
<1>6. ASSUME NEW c \in Conn, DeleteCredential(c) PROVE SavedIsShown'
  BY <1>6, <1>0 DEF DeleteCredential, Removed, Cut, Outdated
<1>7. ASSUME NEW c \in Conn, NEW u \in Url, NEW on \in BOOLEAN, SaveConnection(c, u, on)
      PROVE  SavedIsShown'
  BY <1>7, <1>0 DEF SaveConnection, Cut, Outdated
<1>8. ASSUME NEW c \in Conn, NEW k \in Key, SetTemporary(c, k) PROVE SavedIsShown'
  BY <1>8, <1>0 DEF SetTemporary, Cut
<1>9. ASSUME NEW c \in Conn, NEW k \in Key, SetPersistent(c, k) PROVE SavedIsShown'
  BY <1>9, <1>0 DEF SetPersistent, Cut, Outdated
<1>10. ASSUME NEW c \in Conn, NEW k \in Key, SetDies(c, k) PROVE SavedIsShown'
  BY <1>10, <1>0 DEF SetDies, Stopped
<1>11. ASSUME NEW a \in Assistant, Archive(a) PROVE SavedIsShown'
  BY <1>11, <1>0 DEF Archive
<1>12. ASSUME NEW a \in Assistant, Unarchive(a) PROVE SavedIsShown'
  BY <1>12, <1>0 DEF Unarchive
<1>13. ASSUME NEW a \in Assistant, NEW c \in Conn, BindAssistant(a, c) PROVE SavedIsShown'
  BY <1>13, <1>0 DEF BindAssistant, Of
<1>14. ASSUME NEW a \in Assistant, NEW read \in BOOLEAN, NEW send \in BOOLEAN, SetPermissions(a, read, send)
       PROVE  SavedIsShown'
  BY <1>14, <1>0 DEF SetPermissions, Revoked, UrlOf, Here, Of
<1>15. ASSUME NEW a \in Assistant, SaveTemporary(a) PROVE SavedIsShown'
  BY <1>15, <1>0 DEF SaveTemporary, Saved, Settled, Of
<1>16. ASSUME NEW a \in Assistant, ClearChat(a) PROVE SavedIsShown'
  BY <1>16, <1>0 DEF ClearChat, Of
<1>17. ASSUME NEW S \in SUBSET Request, Govern(S) PROVE SavedIsShown'
  BY <1>17, <1>0 DEF Govern, DropSessions
<1>18. CASE Close
  BY <1>18, <1>0 DEF Close, Stopped
<1>19. CASE Crash
  BY <1>19, <1>0 DEF Crash, Stopped
<1>20. CASE Open
  BY <1>20, <1>0 DEF Open
<1>21. CASE UNCHANGED vars
  BY <1>21, <1>0 DEF vars
<1>22. QED
  BY <1>1, <1>2, <1>3, <1>4, <1>5, <1>6, <1>6a, <1>7, <1>8, <1>9, <1>10, <1>11, <1>12, <1>13, <1>14,
     <1>15, <1>16, <1>17, <1>18, <1>19, <1>20, <1>21 DEF Next, Rounds, Settings, Sessions

-----------------------------------------------------------------------------
(***************************************************************************)
(* The theorems.                                                           *)
(***************************************************************************)
LEMMA RecipientsStart ==
  ASSUME RecipientsAssumption, Init PROVE RecipientsInv
<1> USE DEF RecipientsAssumption, Init
<1>1. DurableTypes
  BY DEF DurableTypes, States
<1>2. VolatileTypes
  BY DEF VolatileTypes, States
<1>3. HistoryTypes
  BY DEF HistoryTypes, Called, Nothing
<1>4. Addressed /\ Granted /\ KeysAreKept /\ SessionsHold /\ GoneIsOut
  BY DEF Addressed, Granted, KeysAreKept, SessionsHold, GoneIsOut
<1>5. TemporaryStaysOut /\ SavedIsShown
  BY DEF TemporaryStaysOut, SavedIsShown, Nothing
<1>6. QED
  BY <1>1, <1>2, <1>3, <1>4, <1>5 DEF RecipientsInv, Shapes

(* The invariant holds, whatever the user, the models, the data governance *)
(* and the ends of the program do.                                         *)
THEOREM RecipientsInductive ==
  ASSUME RecipientsAssumption
  PROVE  Spec => []RecipientsInv
<1>1. Init => RecipientsInv
  BY RecipientsStart
<1>2. RecipientsInv /\ [Next]_vars => RecipientsInv'
  <2> SUFFICES ASSUME RecipientsInv, [Next]_vars PROVE RecipientsInv'
    OBVIOUS
  <2>1. Shapes'
    BY DurableTypesKept, VolatileTypesKept, HistoryTypesKept DEF Shapes
  <2>2. Addressed' /\ Granted' /\ KeysAreKept' /\ SessionsHold'
    BY AddressedKept, GrantedKept, KeysKept, SessionsKept
  <2>3. GoneIsOut' /\ TemporaryStaysOut' /\ SavedIsShown'
    BY GoneKept, TemporaryKept, SavedKept
  <2>4. QED
    BY <2>1, <2>2, <2>3 DEF RecipientsInv
<1>3. QED
  BY <1>1, <1>2, PTL DEF Spec

(* Every variable of the connections and of the rounds has its type, and a *)
(* service that is closed has no round under way and no key of its own.    *)
THEOREM RecipientsTypeCorrect ==
  ASSUME RecipientsAssumption
  PROVE  Spec => []TypeOK
<1>1. RecipientsInv => TypeOK
  BY DEF RecipientsInv, Shapes, DurableTypes, VolatileTypes, SessionsHold, States, TypeOK
<1>2. QED
  BY <1>1, RecipientsInductive, PTL

(* What the user withdraws is cut off: no round that uses history is under *)
(* way unaborted without its permission, none under a key, an address or a *)
(* switch that its connection no longer has, and no key taken away is      *)
(* still there for the next call.                                          *)
THEOREM WithdrawalsCutOff ==
  ASSUME RecipientsAssumption
  PROVE  Spec => [](WithdrawnIsCut /\ ChangedIsCut /\ DroppedIsGone)
<1>1. RecipientsInv => WithdrawnIsCut
  BY DEF RecipientsInv, Granted, WithdrawnIsCut
<1>2. RecipientsInv => ChangedIsCut
  BY DEF RecipientsInv, Addressed, KeyOf, ChangedIsCut
<1>3. RecipientsInv => DroppedIsGone
  BY DEF RecipientsInv, KeysAreKept, DroppedIsGone
<1>4. QED
  BY <1>1, <1>2, <1>3, RecipientsInductive, PTL

(* A temporary chat reaches neither the timeline nor any other chat until  *)
(* its user saves it, and takes nothing from them; what is saved from a    *)
(* session has settled, and the timeline and the session agree on it.      *)
THEOREM TemporaryIsApart ==
  ASSUME RecipientsAssumption
  PROVE  Spec => [](TemporaryStaysOut /\ SavedIsShown)
<1>1. RecipientsInv => TemporaryStaysOut /\ SavedIsShown
  BY DEF RecipientsInv
<1>2. QED
  BY <1>1, RecipientsInductive, PTL

(* The calls that a step makes: the first of a round, or one more.         *)
LEMMA CallsOfSteps ==
  ASSUME [Next]_vars, NEW q \in Request, sends'[q] > sends[q],
         Shapes
  PROVE  Start(q) \/ Again(q)
<1> USE DEF Shapes, HistoryTypes, durable, volatile
<1>1. UNCHANGED sends \/ \E r \in Request : Start(r) \/ Again(r)
  BY DEF Next, Rounds, Settings, Sessions, Answer, Cancel, SetRefused, DeleteCredential, DeleteFails,
         SaveConnection, SetTemporary, SetPersistent, SetDies, Archive, Unarchive, BindAssistant,
         SetPermissions, SaveTemporary, ClearChat, Govern, Close, Crash, Open, vars
<1>2. sends[q] \in Nat /\ ~(sends[q] > sends[q])
  OBVIOUS
<1>3. PICK r \in Request : Start(r) \/ Again(r)
  BY <1>1, <1>2
<1>4. r = q
  BY <1>2, <1>3 DEF Start, Again
<1>5. QED
  BY <1>3, <1>4

(* Whatever goes out goes to the address the assistant is bound to at that *)
(* moment, with the key its connection has at that moment, not to a        *)
(* disabled connection and not for an archived assistant.                  *)
THEOREM CallsAreAsConfigured ==
  ASSUME RecipientsAssumption
  PROVE  Spec => SentAsConfigured
<1>1. RecipientsInv /\ [Next]_vars => [SentAsConfiguredStep]_vars
  <2> SUFFICES ASSUME RecipientsInv, [Next]_vars, NEW q \in Request, sends'[q] > sends[q]
               PROVE  LET s == sent'[q] IN
                      /\ s.conn = bound[AssistantOf[q]] /\ s.url = conn[s.conn].url /\ conn[s.conn].on
                      /\ s.key # None
                      /\ s.key = (IF temp[s.conn] # None THEN temp[s.conn] ELSE file[s.conn])
                      /\ AssistantOf[q] \notin archived
    BY DEF SentAsConfiguredStep
  <2>0. /\ Shapes /\ Addressed /\ AssistantOf \in [Request -> Assistant]
        /\ aborted \subseteq flight
    BY DEF RecipientsInv, RecipientsAssumption, Shapes, VolatileTypes
  <2> USE DEF Shapes, DurableTypes, VolatileTypes, HistoryTypes, Called, KeyOf
  <2>1. CASE Start(q)
    BY <2>0, <2>1 DEF Start, Execution, Here
  <2>2. CASE Again(q)
    <3>1. /\ q \in flight /\ q \notin aborted /\ q \notin stale /\ AssistantOf[q] \notin archived
          /\ sent'[q].conn = sent[q].conn /\ sent'[q].url = sent[q].url /\ sent'[q].key = sent[q].key
      BY <2>0, <2>2 DEF Again, Current
    <3>2. QED
      BY <2>0, <3>1 DEF Addressed
  <2>3. QED
    BY <2>0, <2>1, <2>2, CallsOfSteps
<1>2. QED
  BY <1>1, RecipientsInductive, PTL DEF Spec, SentAsConfigured

(* Earlier rounds go only to an address that was granted them, for an      *)
(* assistant that may read them, and none that has been taken away.        *)
THEOREM EarlierRoundsAreGranted ==
  ASSUME RecipientsAssumption
  PROVE  Spec => PastIsGranted
<1>1. RecipientsInv /\ [Next]_vars => [PastIsGrantedStep]_vars
  <2> SUFFICES ASSUME RecipientsInv, [Next]_vars, NEW q \in Request \ Temporary,
                      sends'[q] > sends[q], sent'[q].past # {}
               PROVE  /\ may[AssistantOf[q]].read /\ sent'[q].url \in may[AssistantOf[q]].send
                      /\ sent'[q].past \cap gone = {}
    BY DEF PastIsGrantedStep
  <2>0. /\ Shapes /\ Granted /\ AssistantOf \in [Request -> Assistant]
        /\ Searching \subseteq Tooled
    BY DEF RecipientsInv, RecipientsAssumption
  <2> USE DEF Shapes, DurableTypes, HistoryTypes, Called
  <2>1. CASE Start(q)
    <3>1. PICK past \in Contexts(q) :
            sent'[q].past = past /\ sent'[q].url = conn[Here(AssistantOf[q])].url
      BY <2>0, <2>1 DEF Start
    <3>2. UrlOf(AssistantOf[q]) = conn[Here(AssistantOf[q])].url
      BY <2>1 DEF Start, Execution, UrlOf
    <3>3. past # {}
      BY <3>1
    <3>4. Allowed(AssistantOf[q], UrlOf(AssistantOf[q])) /\ past \subseteq Readable(AssistantOf[q])
      BY <3>3 DEF Contexts
    <3>5. QED
      BY <3>1, <3>2, <3>4 DEF Allowed, Readable
  <2>2. CASE Again(q)
    <3>1. PICK found \in Found(q) : sent' = [sent EXCEPT ![q].past = @ \cup found]
      BY <2>2 DEF Again
    <3>2. /\ q \in flight /\ sent[q].past \cap gone = {}
          /\ sent[q].history => Allowed(AssistantOf[q], sent[q].url)
      BY <2>2 DEF Again, Current
    <3>3. sent'[q].past = sent[q].past \cup found /\ sent'[q].url = sent[q].url
      BY <2>0, <3>1
    <3>4. found \cap gone = {} /\ (found # {} => q \in Searching)
      BY DEF Found, Readable
    <3>5. sent[q].history
      BY <2>0, <3>2, <3>3, <3>4 DEF Granted
    <3>6. QED
      BY <3>2, <3>3, <3>4, <3>5 DEF Allowed
  <2>3. QED
    BY <2>0, <2>1, <2>2, CallsOfSteps
<1>2. QED
  BY <1>1, RecipientsInductive, PTL DEF Spec, PastIsGranted

(* No temporary chat goes on with a round that the data governance has     *)
(* taken away.                                                             *)
THEOREM GoneIsNotCarriedOn ==
  ASSUME RecipientsAssumption
  PROVE  Spec => NotCarriedOn
<1>1. RecipientsInv /\ [Next]_vars => [NotCarriedOnStep]_vars
  <2> SUFFICES ASSUME RecipientsInv, [Next]_vars, NEW q \in Request \cap Temporary,
                      sends'[q] > sends[q]
               PROVE  sent'[q].past \cap gone = {}
    BY DEF NotCarriedOnStep
  <2>0. /\ Shapes /\ GoneIsOut /\ AssistantOf \in [Request -> Assistant]
        /\ q \notin Searching
    BY DEF RecipientsInv, RecipientsAssumption
  <2> USE DEF Shapes, DurableTypes, HistoryTypes, Called
  <2>1. CASE Start(q)
    BY <2>0, <2>1 DEF Start, Contexts, GoneIsOut
  <2>2. CASE Again(q)
    BY <2>0, <2>2 DEF Again, Current, Found
  <2>3. QED
    BY <2>0, <2>1, <2>2, CallsOfSteps
<1>2. QED
  BY <1>1, RecipientsInductive, PTL DEF Spec, NotCarriedOn

==============================================================================

