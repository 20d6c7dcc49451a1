--------------------------- MODULE ResponseStream ---------------------------
(***************************************************************************)
(* The turns of one conversation on their way to an Open Responses service *)
(* and back: the request body built from the messages, the server-sent     *)
(* events of the response (internal/llm/openresponses/client.go, and the   *)
(* provider of openresponses/fakeprovider), and the parts of the reply     *)
(* that the chat session (internal/chat/service.go) and the turn of the    *)
(* web server (internal/web/server.go) each put together from them.        *)
(*                                                                         *)
(* A text is a sequence of chunks, a chunk names its turn, item, content   *)
(* and place. An item is known by <<turn, index>>; that name stands for    *)
(* its id, its summary and its encrypted content.                          *)
(***************************************************************************)
EXTENDS Integers, SequencesExt

CONSTANTS
    MaxTurns,   \* the turns asked one after the other
    Chunks,     \* the chunks of a text
    Buffer,     \* the events on the wire that are not read
    Shapes      \* the responses a service may send, see FakeShape

VARIABLES
    messages,   \* Session.messages
    turn,       \* the number of turns asked
    pc,         \* where the turn is
    input,      \* the input of its request
    shape,      \* the response the service is sending
    unsent,     \* its events still to be written
    wire,       \* its events written and not read
    end,        \* how the body ends
    cancelled,  \* the context of the turn is cancelled
    timedOut,   \* http.Client.Timeout has passed
    done, textSeen, span,   \* of the stream; span: the outcomes it recorded
    parts,      \* TurnStream.assistantParts
    shown       \* assistantParts of turnJob.run

chatVars == <<messages, turn, input>>
serviceVars == <<shape, unsent>>
streamVars == <<done, textSeen, span>>
contextVars == <<cancelled, timedOut>>
vars == <<chatVars, pc, serviceVars, wire, end, contextVars, streamVars, parts, shown>>

NoItem == <<0, 0>>

\* A response: its items, and whether it is completed. Of an item: the number
\* of its contents, whether they are streamed, closed, and sent with the item.
Reasoning(deltas, whole) ==
    [kind |-> "reasoning", contents |-> 1, deltas |-> deltas, closes |-> FALSE, whole |-> whole]
MessageItem(contents, deltas, closes, whole) ==
    [kind |-> "message", contents |-> contents, deltas |-> deltas, closes |-> closes,
     whole |-> whole]

ItemShapes ==
    [kind : {"reasoning", "message"}, contents : Nat, deltas : BOOLEAN, closes : BOOLEAN,
     whole : BOOLEAN]

\* A service sends the text of a message in one way at least.
SendsItsText(it) == it.kind = "message" => it.deltas \/ it.closes \/ it.whole

ASSUME ServiceAssumption ==
    /\ MaxTurns \in Nat /\ Chunks \in Nat \ {0} /\ Buffer \in Nat
    /\ \A s \in Shapes :
          /\ s.items \in Seq(ItemShapes) /\ s.completes \in BOOLEAN
          /\ \A i \in DOMAIN s.items : SendsItsText(s.items[i])

\* buildStreamEvents of the fake provider: the reasoning has a summary only.
FakeShape ==
    [items |-> <<Reasoning(TRUE, FALSE), MessageItem(1, TRUE, TRUE, TRUE)>>, completes |-> TRUE]

----------------------------------------------------------------------------
(* The events of a response *)

Event(type, item, content, texts) ==
    [type |-> type, item |-> item, content |-> content, texts |-> texts]
Bare(type) == Event(type, NoItem, 0, <<>>)

\* chunkText
Text(item, c) == [k \in 1..Chunks |-> <<item[1], item[2], c, k>>]
Deltas(type, item, c) ==
    [k \in 1..Chunks |-> Event(type, item, c, << <<Text(item, c)[k]>> >>)]
When(sent, events) == IF sent THEN events ELSE <<>>
Contents(it, item) == [c \in 1..it.contents |-> Text(item, c)]

ReasoningEvents(it, item) ==
    When(it.deltas, Deltas("reasoning.delta", item, 1))
        \o <<Event("item.done", item, 0, When(it.whole, Contents(it, item)))>>

ContentEvents(it, item, c) ==
    <<Bare("content_part.added")>>
        \o When(it.deltas, Deltas("output_text.delta", item, c))
        \o When(it.closes, <<Event("output_text.done", item, c, <<Text(item, c)>>)>>)
        \o <<Bare("content_part.done")>>

MessageEvents(it, item) ==
    FlattenSeq([c \in 1..it.contents |-> ContentEvents(it, item, c)])
        \o When(it.whole, <<Event("item.done", item, 0, Contents(it, item))>>)

ItemEvents(it, item) ==
    <<Bare("item.added")>>
        \o (IF it.kind = "reasoning" THEN ReasoningEvents(it, item) ELSE MessageEvents(it, item))

\* The events of a response of shape s to turn t, and the end mark.
buildStreamEvents(s, t) ==
    <<Bare("created"), Bare("in_progress")>>
        \o FlattenSeq([i \in DOMAIN s.items |-> ItemEvents(s.items[i], <<t, i>>)])
        \o When(s.completes, <<Bare("completed")>>)
        \o <<Bare("[DONE]")>>

\* Of the response to turn t: the whole text of its messages.
WholeText(s, t) ==
    FlattenSeq([i \in DOMAIN s.items |->
        IF s.items[i].kind = "message" THEN FlattenSeq(Contents(s.items[i], <<t, i>>)) ELSE <<>>])

----------------------------------------------------------------------------
(* Messages, parts and the input of a request *)

Part(type, id, text) == [type |-> type, id |-> id, text |-> text]
Prompt(t) == [role |-> "user", parts |-> <<Part("text", NoItem, << <<t, 0, 0, 0>> >>)>>, complete |-> FALSE]
Reply(ps, complete) == [role |-> "assistant", parts |-> ps, complete |-> complete]

TextOf(ps) == FlattenSeq([i \in DOMAIN ps |-> IF ps[i].type = "text" THEN ps[i].text ELSE <<>>])

\* Mutant of openResponsesInput: of a reply only the text is sent.
InputOfTexts(ms) ==
    FlattenSeq([m \in DOMAIN ms |-> <<Part(ms[m].role, NoItem, TextOf(ms[m].parts))>>])

\* A reasoning part goes with its id, its summary and its encrypted content,
\* without its text; texts that are empty are left out.
InputOfPart(p) ==
    IF p.type = "reasoning" THEN <<Part("reasoning", p.id, <<>>)>>
    ELSE When(p.text # <<>>, <<Part("assistant", NoItem, p.text)>>)

InputOfMessage(m) ==
    IF m.role = "assistant"
    THEN FlattenSeq([i \in DOMAIN m.parts |-> InputOfPart(m.parts[i])])
    ELSE <<Part("user", NoItem, TextOf(m.parts))>>

openResponsesInput(ms) == FlattenSeq([i \in DOMAIN ms |-> InputOfMessage(ms[i])])

\* TurnStream.appendDelta: no delta here is empty.
appendDelta(ps, type, text) ==
    IF ps # <<>> /\ Last(ps).type = type
    THEN [ps EXCEPT ![Len(ps)].text = @ \o text]
    ELSE Append(ps, Part(type, NoItem, text))

\* TurnStream.mergeCompletedPart, for the reasoning items this client reports:
\* the last reasoning part takes what the completed item has.
mergeCompletedPart(ps, p) ==
    LET i == SelectLastInSeq(ps, LAMBDA q : q.type = "reasoning")
    IN  IF i = 0 THEN Append(ps, p)
        ELSE [ps EXCEPT ![i].id = p.id, ![i].text = IF p.text = <<>> THEN @ ELSE p.text]

\* The web server's copies of the two.
appendOutputDelta(ps, type, text) ==
    IF ps # <<>> /\ Last(ps).type = type
    THEN [ps EXCEPT ![Len(ps)].text = @ \o text]
    ELSE Append(ps, Part(type, NoItem, text))

\* Mutant of mergeCompletedOutputPart: only the very last part is merged into.
MergeOutputIntoLast(ps, p) ==
    IF ps = <<>> \/ Last(ps).type # "reasoning" THEN Append(ps, p)
    ELSE [ps EXCEPT ![Len(ps)].id = p.id]

mergeCompletedOutputPart(ps, p) ==
    LET Reasonings == {j \in DOMAIN ps : ps[j].type = "reasoning"}
        i == Max(Reasonings)
    IN  IF Reasonings = {} THEN Append(ps, p)
        ELSE [ps EXCEPT ![i].id = p.id, ![i].text = IF p.text = <<>> THEN @ ELSE p.text]

----------------------------------------------------------------------------

Init ==
    /\ messages = <<>> /\ turn = 0 /\ pc = "idle" /\ input = <<>>
    /\ shape = FakeShape /\ unsent = <<>>
    /\ wire = <<>> /\ end = "open"
    /\ cancelled = FALSE /\ timedOut = FALSE
    /\ done = FALSE /\ textSeen = {} /\ span = <<>>
    /\ parts = <<>> /\ shown = <<>>

\* Session.Send and the first half of Client.Stream
Send ==
    /\ pc \in {"idle", "closed", "refused"} /\ turn < MaxTurns
    /\ turn' = turn + 1
    /\ input' = openResponsesInput(Append(messages, Prompt(turn + 1)))
    /\ pc' = "requested"
    /\ unsent' = <<>> /\ wire' = <<>> /\ end' = "open"
    /\ cancelled' = FALSE /\ timedOut' = FALSE
    /\ done' = FALSE /\ textSeen' = {} /\ span' = <<>>
    /\ parts' = <<>> /\ shown' = <<>>
    /\ UNCHANGED <<messages, shape>>

----------------------------------------------------------------------------
(* The service *)

\* ServeHTTP writes the headers; the client returns a stream.
Accept ==
    /\ pc = "requested"
    /\ \E s \in Shapes : shape' = s /\ unsent' = buildStreamEvents(s, turn)
    /\ pc' = "reading"
    /\ UNCHANGED <<chatVars, wire, end, contextVars, streamVars, parts, shown>>

\* A status outside 2xx, or no response: Stream returns the error.
Refuse ==
    /\ pc = "requested"
    /\ pc' = "refused"
    /\ UNCHANGED <<chatVars, serviceVars, wire, end, contextVars, streamVars, parts, shown>>

\* writeSSEEvent, writeSSEDone
Write ==
    /\ unsent # <<>> /\ end = "open" /\ Len(wire) < Buffer
    /\ wire' = Append(wire, Head(unsent))
    /\ unsent' = Tail(unsent)
    /\ end' = IF Len(unsent) = 1 THEN "eof" ELSE "open"
    /\ UNCHANGED <<chatVars, pc, shape, contextVars, streamVars, parts, shown>>

\* An event of type error, or response.failed, instead of the rest.
WriteFailure ==
    /\ unsent # <<>> /\ end = "open" /\ Len(wire) < Buffer
    /\ wire' = Append(wire, Bare("failed"))
    /\ unsent' = <<Bare("[DONE]")>>
    /\ UNCHANGED <<chatVars, pc, shape, end, contextVars, streamVars, parts, shown>>

\* The body ends early: between two events, behind the data line of one, or
\* within it; or the connection fails.
Cut ==
    /\ unsent # <<>> /\ end = "open" /\ Len(wire) < Buffer
    /\ \/ end' \in {"eof", "error"} /\ wire' = wire
       \/ end' = "eof" /\ wire' \in {Append(wire, Head(unsent)), Append(wire, Bare("torn"))}
    /\ unsent' = <<>>
    /\ UNCHANGED <<chatVars, pc, shape, contextVars, streamVars, parts, shown>>

\* The provider sees the cancelled request, between two events or in a delay.
StopWriting ==
    /\ pc = "closed" /\ unsent # <<>>
    /\ unsent' = <<>>
    /\ UNCHANGED <<chatVars, pc, shape, wire, end, contextVars, streamVars, parts, shown>>

----------------------------------------------------------------------------
(* The client's stream and its two readers *)

\* stream.finish
Finish(outcome) == span' = IF span = <<>> THEN <<outcome>> ELSE span

Key(e) == <<e.item, e.content>>
EndTurn(outcome) == pc' = "ended" /\ Finish(outcome)

\* Each reader appends the delta to its parts.
Deliver(type, text) ==
    /\ parts' = appendDelta(parts, type, text)
    /\ shown' = appendOutputDelta(shown, type, text)

Skip == UNCHANGED <<messages, pc, streamVars, parts, shown>>

\* Mutant of TextDelta: the content is not marked.
TextDeltaUnmarked(e) ==
    /\ e.type = "output_text.delta"
    /\ Deliver("text", e.texts[1])
    /\ UNCHANGED <<messages, pc, streamVars>>

TextDelta(e) ==
    /\ e.type = "output_text.delta"
    /\ textSeen' = textSeen \cup {Key(e)}
    /\ Deliver("text", e.texts[1])
    /\ UNCHANGED <<messages, pc, done, span>>

TextDone(e) ==
    /\ e.type = "output_text.done"
    /\ \/ Key(e) \in textSeen /\ Skip
       \/ /\ Key(e) \notin textSeen
          /\ textSeen' = textSeen \cup {Key(e)}
          /\ Deliver("text", e.texts[1])
          /\ UNCHANGED <<messages, pc, done, span>>

ReasoningDelta(e) ==
    /\ e.type = "reasoning.delta"
    /\ Deliver("reasoning", e.texts[1])
    /\ UNCHANGED <<messages, pc, streamVars>>

KindOf(item) == shape.items[item[2]].kind

ReasoningDone(e) ==
    /\ e.type = "item.done" /\ KindOf(e.item) = "reasoning"
    /\ LET p == Part("reasoning", e.item, FlattenSeq(e.texts))
       IN  /\ parts' = mergeCompletedPart(parts, p)
           /\ shown' = mergeCompletedOutputPart(shown, p)
    /\ UNCHANGED <<messages, pc, streamVars>>

\* The contents of the message that no event brought.
missingMessageText(e) ==
    FlattenSeq([c \in DOMAIN e.texts |->
        IF <<e.item, c>> \in textSeen THEN <<>> ELSE e.texts[c]])

\* Mutant of MessageDone: the item is not looked at.
MessageDoneIgnored(e) == e.type = "item.done" /\ KindOf(e.item) = "message" /\ Skip

MessageDone(e) ==
    /\ e.type = "item.done" /\ KindOf(e.item) = "message"
    /\ \/ missingMessageText(e) = <<>> /\ Skip
       \/ /\ missingMessageText(e) # <<>>
          /\ textSeen' = textSeen \cup {<<e.item, c>> : c \in DOMAIN e.texts}
          /\ Deliver("text", missingMessageText(e))
          /\ UNCHANGED <<messages, pc, done, span>>

CommitReply(complete) ==
    messages' = messages \o <<Prompt(turn), Reply(parts, complete)>>

\* response.completed: the session commits the turn.
Completed(e) ==
    /\ e.type = "completed"
    /\ done' = TRUE
    /\ CommitReply(TRUE)
    /\ EndTurn("ok")
    /\ UNCHANGED <<textSeen, parts, shown>>

\* error, response.failed, or JSON that does not parse.
Failed(e) ==
    /\ e.type \in {"failed", "torn"}
    /\ EndTurn("error")
    /\ UNCHANGED <<messages, done, textSeen, parts, shown>>

\* io.EOF: the turn was not completed and is not recorded.
EndOfStream ==
    /\ done' = TRUE
    /\ EndTurn("ok")
    /\ UNCHANGED <<messages, textSeen, parts, shown>>

EndMark(e) == e.type = "[DONE]" /\ EndOfStream

Unmapped(e) ==
    /\ e.type \in {"created", "in_progress", "item.added", "content_part.added",
                   "content_part.done"}
    /\ Skip

MapPayload(e) ==
    \/ TextDelta(e) \/ TextDone(e) \/ ReasoningDelta(e) \/ ReasoningDone(e)
    \/ MessageDone(e) \/ Completed(e) \/ Failed(e) \/ EndMark(e) \/ Unmapped(e)

\* stream.Next, one event of the body: readLine, dispatch, recordPayload.
Next1 ==
    /\ pc = "reading" /\ wire # <<>>
    /\ MapPayload(Head(wire))
    /\ wire' = Tail(wire)
    /\ UNCHANGED <<turn, input, serviceVars, end, contextVars>>

NextEOF ==
    /\ pc = "reading" /\ wire = <<>> /\ end = "eof"
    /\ EndOfStream
    /\ UNCHANGED <<turn, input, serviceVars, wire, end, contextVars>>

\* Reading fails: of the connection, of the timeout, of the cancelled context.
NextFails ==
    /\ pc = "reading"
    /\ (wire = <<>> /\ end = "error") \/ timedOut
    /\ EndTurn("error")
    /\ UNCHANGED <<messages, turn, input, serviceVars, wire, end, contextVars, done,
                   textSeen, parts, shown>>

\* The parts so far are committed: TurnStream.CommitPartial.
NextCancelled ==
    /\ pc = "reading" /\ cancelled
    /\ CommitReply(FALSE)
    /\ EndTurn("error")
    /\ UNCHANGED <<turn, input, serviceVars, wire, end, contextVars, done, textSeen,
                   parts, shown>>

\* Stream fails before there is a response.
RequestFails ==
    /\ pc = "requested" /\ (cancelled \/ timedOut)
    /\ pc' = "refused"
    /\ UNCHANGED <<chatVars, serviceVars, wire, end, contextVars, streamVars, parts, shown>>

\* printStream of the CLI cannot write what it reads: it closes the stream.
StopReading ==
    /\ pc = "reading" /\ parts # <<>>
    /\ pc' = "ended"
    /\ UNCHANGED <<chatVars, serviceVars, wire, end, contextVars, streamVars, parts, shown>>

\* Mutant of Close: the span is left to the errors.
CloseLeavesSpan ==
    /\ pc = "ended"
    /\ pc' = "closed"
    /\ UNCHANGED <<chatVars, serviceVars, wire, end, contextVars, streamVars, parts, shown>>

\* stream.Close
Close ==
    /\ pc = "ended"
    /\ pc' = "closed"
    /\ IF done THEN UNCHANGED span ELSE Finish("error")
    /\ UNCHANGED <<chatVars, serviceVars, wire, end, contextVars, done, textSeen, parts, shown>>

Abort ==
    /\ pc \in {"requested", "reading"} /\ ~cancelled
    /\ cancelled' = TRUE
    /\ UNCHANGED <<chatVars, pc, serviceVars, wire, end, timedOut, streamVars, parts, shown>>

\* Mutant of Timeout: the wait for the headers is limited, the body is not.
TimeoutOfHeaders ==
    /\ pc = "requested" /\ ~timedOut
    /\ timedOut' = TRUE
    /\ UNCHANGED <<chatVars, pc, serviceVars, wire, end, cancelled, streamVars, parts, shown>>

\* http.Client.Timeout runs from the request to the end of the body.
Timeout ==
    /\ pc \in {"requested", "reading"} /\ ~timedOut
    /\ timedOut' = TRUE
    /\ UNCHANGED <<chatVars, pc, serviceVars, wire, end, cancelled, streamVars, parts, shown>>

----------------------------------------------------------------------------

Service == Accept \/ Refuse \/ Write \/ WriteFailure \/ Cut \/ StopWriting
Client == Next1 \/ NextEOF \/ NextFails \/ NextCancelled \/ RequestFails \/ Close
Next == Send \/ Service \/ Client \/ StopReading \/ Abort \/ Timeout

Spec == Init /\ [][Next]_vars

\* The goroutine of the turn runs and the timer fires; of the service nothing
\* is assumed.
FairSpec == Spec /\ WF_vars(Client) /\ WF_vars(Timeout)

----------------------------------------------------------------------------
(* Properties *)

Items == (0..MaxTurns) \X Nat
Texts == Seq((0..MaxTurns) \X Nat \X Nat \X Nat)
Parts == Seq([type : {"text", "reasoning"}, id : Items, text : Texts])

(***************************************************************************)
(* The types of the variables.                                             *)
(***************************************************************************)
TypeOK ==
    /\ messages \in Seq([role : {"user", "assistant"}, parts : Parts, complete : BOOLEAN])
    /\ turn \in 0..MaxTurns
    /\ pc \in {"idle", "requested", "reading", "ended", "closed", "refused"}
    /\ input \in Seq([type : {"user", "assistant", "reasoning"}, id : Items, text : Texts])
    /\ shape \in Shapes \cup {FakeShape}
    /\ Len(wire) <= Buffer
    /\ end \in {"open", "eof", "error"}
    /\ cancelled \in BOOLEAN /\ timedOut \in BOOLEAN /\ done \in BOOLEAN
    /\ textSeen \subseteq Items \X Nat
    /\ Len(span) <= 1 /\ span \in Seq({"ok", "error"})
    /\ parts \in Parts /\ shown \in Parts

Open == pc \in {"reading", "ended"}

(***************************************************************************)
(* The text of a reply is, at every moment, the beginning of the text the  *)
(* service sends: nothing twice and nothing out of order, whether a text   *)
(* comes in deltas, at the end of its content or with its item             *)
(* (mapPayload, missingMessageText).                                       *)
(***************************************************************************)
TextArrivesOnce == Open => IsPrefix(TextOf(parts), WholeText(shape, turn))

\* The reply to turn t in the conversation, if there is one.
RepliesTo(t) ==
    {messages[i + 1] : i \in {j \in DOMAIN messages : messages[j] = Prompt(t)}}

(***************************************************************************)
(* A reply recorded as complete has the whole text of the response, and a  *)
(* reply whose stream was cut, failed or stopped is not recorded as        *)
(* complete: what comes between the last text and response.completed may   *)
(* be the only place a text is sent. Types hold.                           *)
(***************************************************************************)
CompleteIsWhole ==
    /\ TypeOK
    /\ pc \in {"ended", "closed"} =>
          \A r \in RepliesTo(turn) : r.complete =>
              /\ shape.completes
              /\ TextOf(r.parts) = WholeText(shape, turn)

(***************************************************************************)
(* What the page shows at the end of a turn is what the conversation       *)
(* keeps and a reload shows: the two readers put the same parts together   *)
(* (mergeCompletedPart, mergeCompletedOutputPart).                         *)
(***************************************************************************)
ShownIsRecorded ==
    pc \in {"ended", "closed"} => \A r \in RepliesTo(turn) : r.parts = shown

(***************************************************************************)
(* A closed stream has ended its span once, as failed unless the stream    *)
(* came to its end: neither Close after completion nor an error reported   *)
(* by dispatch and again by Next records another outcome.                  *)
(***************************************************************************)
SpanTellsOutcome ==
    /\ Len(span) <= 1
    /\ pc = "closed" => Len(span) = 1 /\ (span[1] = "ok" <=> done)

ReasoningOf(s, t) ==
    {<<t, i>> : i \in {j \in DOMAIN s.items : s.items[j].kind = "reasoning"}}
SentReasoning(t) ==
    {input[i].id : i \in {j \in DOMAIN input : input[j].type = "reasoning" /\ input[j].id[1] = t}}

(***************************************************************************)
(* The request of a turn brings every completed reply before it with all   *)
(* of its reasoning items, each under its own id (openResponsesInput), as  *)
(* service_test.go:84 tests it. It holds of services that send at most one *)
(* reasoning item per response, and is checked for one shape:              *)
(* mergeCompletedPart merges the items of a reply into one.                *)
(***************************************************************************)
PriorReasoningIsSent ==
    pc = "requested" =>
        \A t \in 1..turn - 1 : \A r \in RepliesTo(t) : r.complete =>
            \E s \in Shapes : SentReasoning(t) = ReasoningOf(s, t)

(***************************************************************************)
(* Every turn ends, also against a service that stops answering: the       *)
(* timeout of the client covers the body of the response.                  *)
(***************************************************************************)
TurnsEnd == pc = "requested" ~> pc \in {"closed", "refused"}

=============================================================================
