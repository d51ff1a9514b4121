--------------------------- MODULE ResponseStream ---------------------------
(***************************************************************************)
(* chatCompletions of chat-completions-transport.ts: one request and the   *)
(* reading of its answer, with ToolAccumulator of tool-protocol.ts.  The   *)
(* body comes in chunks that may cut it anywhere; what is read of a chunk  *)
(* is one step.  A body is a sequence of tokens: line ends, the field      *)
(* name "data", a remark (any line that is not data) and payloads.         *)
(***************************************************************************)
EXTENDS Integers, Sequences, SequencesExt, FiniteSets

CONSTANTS
  Stream,    \* the answer is asked for as a stream of events
  ToolMode,  \* tools are offered
  Retained,  \* the provider's profile asks for its reasoning
  Packets,   \* the payloads that are packets: a function to their records
  Chunks,    \* what the server may send at a time
  ValidArguments, \* whole arguments of a call
  MaxCalls,  \* TOOL_LIMITS.calls
  MaxText, MaxDelta, MaxBuffer, MaxBytes, \* the limits of the code
  MaxChunks  \* bounds the server

VARIABLES
  place,     \* fetching, reading or done
  aborted,   \* none, user or timer
  parser,    \* the variables of the reading of the body
  result,    \* what is returned
  received,  \* history: the body so far
  chunks

vars == <<place, aborted, parser, result, received, chunks>>

LineEnds == {"CR", "LF"}

NoResult == [status |-> "none", error |-> "none"]

(***************************************************************************)
(* Text in UTF-16 units: H and L are the halves of a pair                  *)
(***************************************************************************)
SliceAnywhere(value, limit) ==
  IF limit < Len(value) THEN limit ELSE Len(value)

(* unicodeSliceEnd                                                         *)
SliceEnd(value, limit) ==
  LET end == IF limit < Len(value) THEN limit ELSE Len(value) IN
  IF end \in 1..(Len(value) - 1) /\ value[end] = "H" /\ value[end + 1] = "L"
  THEN end - 1 ELSE end

(* The texts onDelta is called with.                                       *)
Deltas(accepted) ==
  LET From[start \in 0..Len(accepted)] ==
        IF start = Len(accepted) THEN <<>>
        ELSE LET end == SliceEnd(accepted, start + MaxDelta) IN
             <<SubSeq(accepted, start + 1, end)>> \o From[end]
  IN From[0]

(***************************************************************************)
(* ToolAccumulator                                                         *)
(***************************************************************************)
NoCall == [id |-> "", name |-> "", arguments |-> <<>>]

Contradicts(old, part) == old # "" /\ part # "" /\ part # old

Or(part, old) == IF part = "" THEN old ELSE part

(* Where a piece belongs: without a stream it is a whole call.             *)
IndexOf(pieces, i) == IF Stream THEN pieces[i].index ELSE i - 1

Merged(call, piece) ==
  [id |-> Or(piece.id, call.id), name |-> Or(piece.name, call.name),
   arguments |-> call.arguments \o piece.arguments]

CallAt(calls, index) == IF index \in DOMAIN calls THEN calls[index] ELSE NoCall

FailUnknown(p, error) == [p EXCEPT !.fail = "error"]

Fail(p, error) == [p EXCEPT !.fail = error]

AddPiece(p, piece, index) ==
  LET call == CallAt(p.calls, index) IN
  IF p.fail # "none" THEN p
  ELSE IF index \notin 0..(MaxCalls - 1) \/ Contradicts(call.id, piece.id)
            \/ Contradicts(call.name, piece.name)
  THEN Fail(p, "protocol")
  ELSE [p EXCEPT !.calls = [j \in DOMAIN p.calls \cup {index} |->
          IF j = index THEN Merged(call, piece) ELSE p.calls[j]]]

AddPieces(p, packet) ==
  IF Len(packet.pieces) > MaxCalls THEN Fail(p, "protocol")
  ELSE FoldLeftDomain(LAMBDA q, i :
         AddPiece(q, packet.pieces[i], IndexOf(packet.pieces, i)),
         [p EXCEPT !.reasoned = @ \/ packet.reasoning], packet.pieces)

CallsSparse(calls) == TRUE

(* The indexes are 0, 1, ... without a gap.                                *)
CallsDense(calls) == DOMAIN calls = 0..(Cardinality(DOMAIN calls) - 1)

CallsAnyId(calls) ==
  CallsDense(calls) /\ \A i \in DOMAIN calls : calls[i].arguments \in ValidArguments

(* finish and validateToolCalls                                            *)
CallsValid(calls) ==
  /\ CallsDense(calls)
  /\ \A i \in DOMAIN calls :
       /\ calls[i].id # "" /\ calls[i].name # ""
       /\ calls[i].arguments \in ValidArguments
       /\ \A j \in DOMAIN calls : calls[i].id = calls[j].id => i = j

CallsFinish(p) ==
  /\ Retained => p.reasoned
  /\ IF p.calls = <<>> THEN p.reason = "stop"
     ELSE p.reason = "tool_calls" /\ CallsValid(p.calls)

(***************************************************************************)
(* consume                                                                 *)
(***************************************************************************)
AddText(p, content) ==
  LET remaining == MaxText - Len(p.text)
      overflow == Len(content) > remaining
      accepted == SubSeq(content, 1, SliceEnd(content, remaining)) IN
  IF p.fail # "none" THEN p
  ELSE IF overflow /\ ~Stream THEN Fail(p, "limit")
  ELSE [p EXCEPT !.text = @ \o accepted, !.deltas = @ \o Deltas(accepted),
                 !.fail = IF overflow THEN "limit" ELSE "none"]

FinishPacket(p, reason) ==
  IF p.fail # "none" \/ reason = "none" THEN p
  ELSE [p EXCEPT !.finished = TRUE, !.reason = reason]

AfterFinishToo(p) == FALSE

(* No packet with a choice comes after the one that ends it.               *)
AfterFinish(p) == p.finished

UsesTools == ToolMode \/ Retained

ConsumePacket(p, packet) ==
  IF ~packet.choice THEN (IF packet.usage THEN p ELSE Fail(p, "protocol"))
  ELSE IF AfterFinish(p) \/ (~ToolMode /\ Retained /\ packet.pieces # <<>>)
  THEN Fail(p, "protocol")
  ELSE FinishPacket(
         AddText(IF UsesTools THEN AddPieces(p, packet) ELSE p, packet.content),
         packet.reason)

Consume(q, raw) ==
  LET p == [q EXCEPT !.seen = Append(@, raw)] IN
  IF raw = <<"DONE">>
  THEN IF p.finished THEN [p EXCEPT !.done = TRUE] ELSE Fail(p, "protocol")
  ELSE IF Len(raw) = 1 /\ raw[1] \in DOMAIN Packets
  THEN ConsumePacket(p, Packets[raw[1]])
  ELSE Fail(p, "protocol")

(***************************************************************************)
(* The lines of a stream of events                                         *)
(***************************************************************************)
LongLine(p) == Len(p.line) > MaxBuffer

(* What is kept until the next blank line is bounded as a whole.           *)
Long(p) == Len(p.line) + Len(p.data) > MaxBuffer

(* Each line of data ends in a new line, and the last is cut off.          *)
EmitLine(p) ==
  LET blank == p.line = <<>>
      isData == ~blank /\ p.line[1] = "data"
      q == IF blank /\ p.dataSeen THEN Consume(p, Front(p.data)) ELSE p
      data == IF blank THEN <<>>
              ELSE IF isData THEN p.data \o Tail(p.line) \o <<"NL">> ELSE p.data
      r == [q EXCEPT !.line = <<>>, !.data = data,
                     !.dataSeen = ~blank /\ (@ \/ isData)] IN
  IF q.fail # "none" THEN q ELSE IF Long(r) THEN Fail(r, "limit") ELSE r

CRLFTwice(p, token) == FALSE

(* The second half of CR LF.                                               *)
CRLF(p, token) == p.previousCR /\ token = "LF"

OverWhenFailed(p) == p.fail # "none"

Over(p) == p.done \/ p.fail # "none"

Token(p, token) ==
  IF Over(p) THEN p
  ELSE IF CRLF(p, token) THEN [p EXCEPT !.previousCR = FALSE]
  ELSE IF token \in LineEnds
  THEN [EmitLine(p) EXCEPT !.previousCR = token = "CR"]
  ELSE LET q == [p EXCEPT !.line = Append(@, token), !.previousCR = FALSE] IN
       IF Long(q) THEN Fail(q, "limit") ELSE q

ResumeFresh(p) == [p EXCEPT !.previousCR = FALSE]

(* The state of the parser is kept between chunks.                         *)
Resume(p) == p

ConsumeChunk(p, chunk) ==
  IF Stream THEN FoldLeft(Token, Resume(p), chunk)
  ELSE [p EXCEPT !.data = @ \o chunk]

(***************************************************************************)
(* The end                                                                 *)
(***************************************************************************)
Category(p) ==
  IF aborted = "timer" THEN "timeout" ELSE IF aborted = "user" THEN "cancelled" ELSE p

FailedAfterTimeout(p, error) ==
  [status |-> IF Category(error) = "cancelled" THEN "cancelled"
              ELSE IF p.text = <<>> \/ aborted = "timer" THEN "failed" ELSE "interrupted",
   error |-> Category(error)]

Failed(p, error) ==
  [status |-> IF Category(error) = "cancelled" THEN "cancelled"
              ELSE IF p.text = <<>> THEN "failed" ELSE "interrupted",
   error |-> Category(error)]

Completes(p) ==
  /\ p.done /\ p.finished
  /\ IF UsesTools THEN CallsFinish(p) ELSE p.reason = "stop"

Finish(p) ==
  IF p.fail # "none" THEN Failed(p, p.fail)
  ELSE IF Completes(p) THEN [status |-> "completed", error |-> "none"]
  ELSE Failed(p, "protocol")

Return(p, value) ==
  /\ place' = "done" /\ result' = value /\ parser' = p
  /\ UNCHANGED aborted

(***************************************************************************)
(* The actions                                                             *)
(***************************************************************************)
(* The request is refused before it is sent, or answered with an error.    *)
Refuse(error) ==
  /\ place = "fetching" /\ aborted = "none"
  /\ error \in {"configuration", "limit", "authentication", "quota", "temporary", "protocol"}
  /\ Return(parser, Failed(parser, error)) /\ UNCHANGED <<received, chunks>>

Respond ==
  /\ place = "fetching" /\ aborted = "none" /\ place' = "reading"
  /\ UNCHANGED <<aborted, parser, result, received, chunks>>

(* A chunk that was there before the abort is still read.                  *)
Receive(chunk) ==
  /\ place = "reading" /\ chunks < MaxChunks /\ chunks' = chunks + 1
  /\ received' = received \o chunk
  /\ LET p == ConsumeChunk(parser, chunk) IN
     IF Len(received') > MaxBytes THEN Return(parser, Failed(parser, "limit"))
     ELSE IF p.fail # "none" \/ p.done THEN Return(p, Finish(p))
     ELSE IF aborted # "none" THEN Return(p, Failed(p, "protocol"))
     ELSE parser' = p /\ UNCHANGED <<place, aborted, result>>

BodyEnds ==
  /\ place = "reading"
  /\ LET p == IF Stream THEN parser
              ELSE [Consume(parser, parser.data) EXCEPT !.done = TRUE] IN
     Return(p, Finish(p))
  /\ UNCHANGED <<received, chunks>>

(* The connection breaks, or the bytes are not UTF-8.                      *)
BodyBreaks ==
  /\ place = "reading" /\ aborted = "none"
  /\ Return(parser, Failed(parser, "protocol")) /\ UNCHANGED <<received, chunks>>

Abort(by) ==
  /\ place # "done" /\ aborted = "none" /\ aborted' = by
  /\ UNCHANGED <<place, parser, result, received, chunks>>

Cancel == Abort("user")

TimeoutFetching == place = "fetching" /\ Abort("timer")

Timeout == Abort("timer")

GiveUp ==
  /\ place # "done" /\ aborted # "none"
  /\ Return(parser, Failed(parser, "temporary")) /\ UNCHANGED <<received, chunks>>

Init ==
  /\ place = "fetching" /\ aborted = "none" /\ result = NoResult
  /\ parser = [line |-> <<>>, data |-> <<>>, dataSeen |-> FALSE, previousCR |-> FALSE,
               done |-> FALSE, finished |-> FALSE, reason |-> "none", text |-> <<>>,
               deltas |-> <<>>, calls |-> <<>>, reasoned |-> FALSE, seen |-> <<>>,
               fail |-> "none"]
  /\ received = <<>> /\ chunks = 0

Next ==
  \/ \E error \in {"configuration", "limit", "authentication", "quota", "temporary", "protocol"} :
       Refuse(error)
  \/ Respond \/ BodyEnds \/ BodyBreaks \/ Cancel \/ Timeout \/ GiveUp
  \/ \E chunk \in Chunks : Receive(chunk)

Spec == Init /\ [][Next]_vars

(* The timer fires, and what waits for it goes on.                         *)
FairSpec == Spec /\ WF_vars(Timeout) /\ WF_vars(GiveUp)

-----------------------------------------------------------------------------
(* What was sent, read as a whole: the reference the parser is checked     *)
(* against.                                                                *)
LineEndsOf(b) ==
  {i \in 1..Len(b) : b[i] = "CR" \/ (b[i] = "LF" /\ (i = 1 \/ b[i - 1] # "CR"))}

Before(S, i) == Max({0} \cup {j \in S : j < i})

(* The lines by their ends.                                                *)
Lines(b) ==
  [i \in LineEndsOf(b) |->
     SelectSeq(SubSeq(b, Before(LineEndsOf(b), i) + 1, i - 1), LAMBDA c : c \notin LineEnds)]

(* An event is what the lines of data between two blank lines carry.       *)
Events(b) ==
  LET line == Lines(b)
      blank == {i \in DOMAIN line : line[i] = <<>>}
      data == {i \in DOMAIN line \ blank : line[i][1] = "data"}
      dataOf == [i \in blank |-> {j \in data : j < i /\ j > Before(blank, i)}]
      ascending(S) == SelectSeq([i \in 1..Len(b) |-> i], LAMBDA i : i \in S)
      ends == ascending({i \in blank : dataOf[i] # {}})
      event(i) == FlattenSeq([k \in DOMAIN ascending(dataOf[i]) |->
                    Append(Tail(line[ascending(dataOf[i])[k]]), "NL")])
  IN [k \in DOMAIN ends |-> Front(event(ends[k]))]

(* The packets that were consumed.                                         *)
Consumed ==
  LET good == SelectSeq(parser.seen, LAMBDA raw : Len(raw) = 1 /\ raw[1] \in DOMAIN Packets)
  IN [k \in DOMAIN good |-> Packets[good[k][1]]]

Contents == FlattenSeq([k \in DOMAIN Consumed |-> Consumed[k].content])

(* The pieces sent for a call, in their order.                             *)
ArgumentsSent(index) ==
  LET pieces == FlattenSeq([k \in DOMAIN Consumed |-> Consumed[k].pieces])
      own == SelectSeq(pieces, LAMBDA piece : piece.index = index)
  IN FlattenSeq([k \in DOMAIN own |-> own[k].arguments])

(* The pieces of the state have their types.                               *)
TypeOK ==
  /\ place \in {"fetching", "reading", "done"} /\ aborted \in {"none", "user", "timer"}
  /\ parser.fail \in {"none", "protocol", "limit"}
  /\ parser.reason \in {"none", "stop", "tool_calls", "length"}
  /\ {parser.dataSeen, parser.previousCR, parser.done, parser.finished, parser.reasoned}
       \subseteq BOOLEAN
  /\ DOMAIN parser.calls \subseteq 0..(MaxCalls - 1)
  /\ result.status \in {"none", "completed", "interrupted", "cancelled", "failed"}
  /\ (place = "done") = (result # NoResult)
  /\ chunks \in 0..MaxChunks

(* However the body was cut into chunks, its events are those of the whole *)
(* body, and nothing is read after the one that ends it.                   *)
SeenIsSent ==
  Stream =>
    /\ IsPrefix(parser.seen, Events(received))
    /\ place = "reading" => parser.seen = Events(received)
    /\ \A k \in 1..(Len(parser.seen) - 1) : parser.seen[k] # <<"DONE">>

(* What was shown is what is returned, it is a beginning of what was sent, *)
(* and no pair of units is cut.                                            *)
ShownIsText ==
  /\ parser.text = FlattenSeq(parser.deltas) /\ IsPrefix(parser.text, Contents)
  /\ Len(parser.text) <= MaxText
  /\ \A k \in DOMAIN parser.deltas :
       Len(parser.deltas[k]) \in 1..MaxDelta /\ Last(parser.deltas[k]) # "H"

(* An answer is complete only with its end, its whole text and every call  *)
(* from the first index on, each with all it was sent for it.              *)
AnswerIsWhole ==
  result.status = "completed" =>
    /\ parser.text = Contents
    /\ Stream => Last(parser.seen) = <<"DONE">>
    /\ Cardinality({k \in DOMAIN Consumed : Consumed[k].reason # "none"}) = 1
    /\ (parser.reason = "tool_calls") = (parser.calls # <<>>)
    /\ \A i \in DOMAIN parser.calls :
         /\ i > 0 => i - 1 \in DOMAIN parser.calls
         /\ parser.calls[i].arguments \in ValidArguments
         /\ Stream => parser.calls[i].arguments = ArgumentsSent(i)
         /\ \A j \in DOMAIN parser.calls : parser.calls[i].id = parser.calls[j].id => i = j

(* A call that failed has shown nothing; one that was interrupted keeps    *)
(* the text that was shown.                                                *)
FailedIsEmpty ==
  /\ result.status = "failed" => parser.deltas = <<>>
  /\ result.status = "interrupted" => parser.text # <<>>

(* While the body is read, what is kept of it is bounded.                  *)
BufferBounded ==
  (Stream /\ place = "reading") => Len(parser.line) + Len(parser.data) <= MaxBuffer

(* Every request ends, also when the server falls silent.                  *)
AnswerComes == <>(place = "done")
=============================================================================
