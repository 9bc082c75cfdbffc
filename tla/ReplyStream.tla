----------------------------- MODULE ReplyStream ------------------------------
(***************************************************************************)
(* One streamed reply, from the upstream iterator to the client: the       *)
(* generator of the API, with and without tools (response_helpers.py,      *)
(* routes_api_chat.py, routes_api_messages.py, reasoning_stream.py), the   *)
(* keepalives that are put between its events (sse_stream.py), and the     *)
(* guarded response that writes them and lets go of what the turn holds    *)
(* (stream_guard.py, routes_api_responses.py).                             *)
(*                                                                         *)
(* Every route rewrites media addresses in the whole text, so reasoning is *)
(* passed on as it comes and the text in one piece at the end.  Text is a  *)
(* sequence of "a", of "stop", the client's stop sequence, and of "call",  *)
(* a tool call in the text.  The blocks of messages and the output items   *)
(* of Responses are both blocks here; chat has none, its events are of     *)
(* block 0.                                                                *)
(***************************************************************************)
EXTENDS Common, Lists, Integers, Sequences, SequencesExt

CONSTANTS Streams,   \* of "chat", "messages", "responses"
          MaxItems,  \* bound: what upstream sends before it ends
          MaxBeats   \* bound: keepalives

ASSUME StreamsAssumption ==
  /\ Streams \subseteq {"chat", "messages", "responses"}
  /\ None \notin {"text", "thinking", "r1", "r2", "item"}
  /\ None \notin [type : {"begin", "start", "delta", "stop", "finish", "keepalive", "comment", "body"},
                  at : Nat, text : Seq({"a", "stop", "call", "error"}), n : Int]

VARIABLES
  stream,  \* the API, the upstream iterator and the generator's state
  pending, \* the event being computed ahead: "running", "ready", "stopped"
  beat,    \* the heartbeat's view of the stream
  writing, \* the event that is being written, or None
  wire,    \* what the client has received
  phase    \* of the response, and what it leaves behind

streamVars == <<stream, pending, beat, writing, wire, phase>>
-----------------------------------------------------------------------------
Thoughts == {"r1", "r2"}

Event(type, at, text) == [type |-> type, at |-> at, text |-> text, n |-> -1]

\* api; tools; upstream: open, and how much it sent; what is being emitted:
\* queue, the open block (messages) or every block (Responses) and the next
\* index.  The response owns the request's lock.
StreamInit ==
  /\ \E api \in Streams, tools \in BOOLEAN :
       stream = [api |-> api, tools |-> tools, open |-> TRUE, items |-> 0, raw |-> <<>>, ok |-> FALSE,
                 queue |-> <<Event("begin", 0, <<>>)>>,
                 kind |-> None, blocks |-> <<>>, seq |-> 0]
  /\ pending = "running"
  /\ beat = [next |-> 0, shift |-> 0, begun |-> FALSE, done |-> FALSE, count |-> 0]
  /\ writing = None /\ wire = <<>>
  /\ phase = [at |-> "serving", sent |-> FALSE, succeeded |-> FALSE,
              committed |-> FALSE, locked |-> TRUE]

\* AnthropicContentStream.close, ResponsesReasoningStream.finish: the stops
\* of what is open.
Stops(s) ==
  IF s.api = "responses"
  THEN [i \in DOMAIN s.blocks |-> Event("stop", i - 1, <<>>)]
  ELSE IF s.kind = None THEN <<>> ELSE <<Event("stop", Len(s.blocks) - 1, <<>>)>>

\* AnthropicContentStream._start, ResponsesReasoningStream.add, text_events:
\* the block a delta belongs to.  Messages has one open at a time, with the
\* thoughts of a turn in one; Responses has one for each thought.
Opens(s, kind) ==
  IF s.api = "chat" \/ (s.api = "messages" /\ s.kind = kind)
       \/ (s.api = "responses" /\ kind \in ToSet(s.blocks))
  THEN s
  ELSE [s EXCEPT !.queue = (IF s.api = "messages" THEN @ \o Stops(s) ELSE @)
                           \o <<Event("start", Len(s.blocks), <<>>)>>,
                 !.kind = kind, !.blocks = Append(@, kind)]

Block(s, kind) ==
  IF s.api = "chat" THEN 0
  ELSE IF s.api = "messages" THEN Len(s.blocks) - 1
  ELSE (CHOOSE i \in DOMAIN s.blocks : s.blocks[i] = kind) - 1

Says(s, kind, text) ==
  LET t == Opens(s, kind) IN
  [t EXCEPT !.queue = Append(@, Event("delta", Block(t, kind), text))]

Closes(s) == [s EXCEPT !.queue = @ \o Stops(s), !.kind = None]

Finishes(s) == [s EXCEPT !.queue = Append(@, Event("finish", 0, <<>>))]

\* apply_stop
Cut(text) ==
  IF "stop" \in ToSet(text)
  THEN SubSeq(text, 1, (CHOOSE i \in DOMAIN text :
                          text[i] = "stop" /\ \A j \in 1 .. i - 1 : text[j] # "stop") - 1)
  ELSE text

\* The end of a turn without tools.
Plain(s) ==
  LET text == IF s.api = "responses" THEN s.raw ELSE Cut(s.raw)
      said == IF text # <<>> THEN Says(s, "text", text)
              ELSE IF s.api = "chat" THEN s ELSE Opens(s, "text") IN
  Closes(said)

Calls(s) == Selected(s.raw, {i \in DOMAIN s.raw : s.raw[i] = "call"})
Words(s) == Selected(s.raw, {i \in DOMAIN s.raw : s.raw[i] # "call"})

\* A block of its own, whole: AnthropicContentStream.tool, and the items of a
\* Responses answer.
Item(s, text) ==
  LET at == Len(s.blocks) IN
  [s EXCEPT !.blocks = Append(@, "item"),
            !.queue = @ \o <<Event("start", at, <<>>)>>
                        \o (IF text = <<>> THEN <<>> ELSE <<Event("delta", at, text)>>)
                        \o <<Event("stop", at, <<>>)>>]

\* One for each call: three events, of which the n-th is about call Of(n).
Items(s, calls) ==
  LET Of(n) == (n - 1) \div 3 + 1
      At(n) == Len(s.blocks) + Of(n) - 1 IN
  [s EXCEPT !.blocks = @ \o [i \in DOMAIN calls |-> "item"],
            !.queue = @ \o [n \in 1 .. 3 * Len(calls) |->
                               CASE n % 3 = 1 -> Event("start", At(n), <<>>)
                                 [] n % 3 = 2 -> Event("delta", At(n), <<calls[Of(n)]>>)
                                 [] OTHER     -> Event("stop", At(n), <<>>)]]

\* The ends of a turn with tools: what is left of the text, then the calls.
ChatAnswer(s) ==
  IF Calls(s) = <<>> THEN Says(s, "text", Cut(Words(s)))
  ELSE [IF Words(s) = <<>> THEN s ELSE Says(s, "text", Words(s)) EXCEPT
          !.queue = @ \o [i \in DOMAIN Calls(s) |-> Event("delta", 0, <<Calls(s)[i]>>)]]

AnthropicAnswer(s) ==
  LET text == Cut(Words(s))
      said == IF text = <<>> THEN Opens(s, "text") ELSE Says(s, "text", text) IN
  Items(Closes(said), Calls(s))

\* The thoughts are closed first, the items follow them.
ResponsesAnswer(s) ==
  LET t == Closes(s) IN
  Items(IF Words(s) # <<>> \/ Calls(s) = <<>> THEN Item(t, Words(s)) ELSE t, Calls(s))

Completed(s) ==
  [Finishes(IF ~ s.tools THEN Plain(s)
            ELSE CASE s.api = "chat" -> ChatAnswer(s)
                   [] s.api = "messages" -> AnthropicAnswer(s)
                   [] s.api = "responses" -> ResponsesAnswer(s)) EXCEPT !.ok = TRUE]

\* A failure is told as text in chat, after the text a turn with tools had,
\* while the text of one without is dropped.
ChatFails(s) ==
  Finishes(Says(s, "text", IF s.tools THEN Append(s.raw, "error") ELSE <<"error">>))

\* Messages delivers the text there was, but for tools, and tells of an error
\* other than a throttle or the network as text.
AnthropicFails(s, cause) ==
  LET said == IF s.raw # <<>> /\ ~ s.tools THEN Says(s, "text", s.raw) ELSE s IN
  Finishes(Closes(IF cause = "other" THEN Says(said, "text", <<"error">>) ELSE said))

\* Responses only fails.
Failed(s, cause) ==
  CASE s.api = "chat" -> ChatFails(s)
    [] s.api = "messages" -> AnthropicFails(s, cause)
    [] s.api = "responses" -> Finishes(s)

Computes == phase.at = "serving" /\ pending = "running"

Waits == Computes /\ stream.queue = <<>> /\ stream.open

\* A reasoning delta is passed on, a text delta is kept.
Receive(item) ==
  /\ Waits /\ stream.items < MaxItems
  /\ item = "call" => stream.tools
  /\ stream' = [IF item \in Thoughts
                THEN Says(stream, IF stream.api = "messages" THEN "thinking" ELSE item, <<>>)
                ELSE [stream EXCEPT !.raw = Append(@, item)]
                EXCEPT !.items = @ + 1]
  /\ UNCHANGED <<pending, beat, writing, wire, phase>>

\* closing_stream closes the upstream iterator before the last events.
UpstreamEnds ==
  /\ Waits
  /\ stream' \in {[Completed(stream) EXCEPT !.open = FALSE]} \cup
                 {[Failed(stream, cause) EXCEPT !.open = FALSE] : cause \in {"throttled", "other"}}
  /\ UNCHANGED <<pending, beat, writing, wire, phase>>

\* The generator yields; before the final event it notes the outcome.
Yields ==
  /\ Computes /\ stream.queue # <<>>
  /\ pending' = "ready"
  /\ phase' = [phase EXCEPT !.succeeded = @ \/ (Head(stream.queue).type = "finish" /\ stream.ok)]
  /\ UNCHANGED <<stream, beat, writing, wire>>

Stopped ==
  /\ Computes /\ stream.queue = <<>> /\ ~ stream.open
  /\ pending' = "stopped"
  /\ UNCHANGED <<stream, beat, writing, wire, phase>>
-----------------------------------------------------------------------------
\* Mutant: the shift is left out.
Numbered_AsIs(event) == [event EXCEPT !.n = stream.seq]

\* observe: the number the generator gave, after the keepalives before it.
Numbered(event) == [event EXCEPT !.n = stream.seq + beat.shift]

\* keepalive_stream: an event that is ready is written, and the next one is
\* computed meanwhile.
Writes ==
  LET event == Numbered(Head(stream.queue)) IN
  /\ phase.at = "serving" /\ pending = "ready" /\ writing = None
  /\ writing' = event
  /\ stream' = [stream EXCEPT !.queue = Tail(@), !.seq = @ + 1]
  /\ beat' = [beat EXCEPT !.next = event.n + 1, !.begun = TRUE,
                          !.done = @ \/ event.type = "finish"]
  /\ pending' = "running"
  /\ UNCHANGED <<wire, phase>>

\* ChatHeartbeat, ResponsesHeartbeat: whether there is a reply to extend.
Extends == beat.begun /\ ~ beat.done

\* Nothing came for an interval: a ping (messages), a numbered keepalive
\* (Responses) or an empty delta (chat); outside of the reply, a comment.
Heartbeat ==
  LET real == Extends /\ stream.api # "messages"
      type == IF real THEN "keepalive" ELSE "comment" IN
  /\ phase.at = "serving" /\ pending = "running" /\ writing = None
  /\ beat.count < MaxBeats
  /\ writing' = [Event(type, 0, <<>>) EXCEPT !.n = IF real THEN beat.next ELSE -1]
  /\ beat' = [beat EXCEPT !.count = @ + 1,
                          !.next = IF real THEN @ + 1 ELSE @,
                          !.shift = IF real THEN @ + 1 ELSE @]
  /\ UNCHANGED <<stream, pending, wire, phase>>

\* The terminal body, after the last event.
WritesBody ==
  /\ phase.at = "serving" /\ pending = "stopped" /\ writing = None
  /\ writing' = Event("body", 0, <<>>)
  /\ UNCHANGED <<stream, pending, beat, wire, phase>>

\* The transport accepts what is written.
IsAccepted ==
  /\ phase.at = "serving" /\ writing # None
  /\ IF writing.type = "body"
     THEN phase' = [phase EXCEPT !.sent = TRUE, !.at = "closing"] /\ UNCHANGED wire
     ELSE wire' = Append(wire, writing) /\ UNCHANGED phase
  /\ writing' = None
  /\ UNCHANGED <<stream, pending, beat>>

\* The write deadline passes, or the client is gone: what is being computed
\* is cancelled.
Abandoned ==
  /\ phase.at = "serving"
  /\ phase' = [phase EXCEPT !.at = "closing"]
  /\ writing' = None
  /\ UNCHANGED <<stream, pending, beat, wire>>

\* The finally clauses: the body iterator and with it the upstream one ...
ClosesUpstream ==
  /\ phase.at = "closing"
  /\ phase' = [phase EXCEPT !.at = "closed"]
  /\ stream' = [stream EXCEPT !.open = FALSE, !.queue = <<>>]
  /\ UNCHANGED <<pending, beat, writing, wire>>

\* Mutant: an outcome counts although it was not delivered.
Delivered_Assumed == TRUE

\* transport_complete
Delivered == phase.sent

\* ... then finish_continuation, and last the lock of the request.
Settles ==
  /\ phase.at = "closed"
  /\ phase' = [phase EXCEPT !.at = "settled", !.committed = Delivered /\ phase.succeeded]
  /\ UNCHANGED <<stream, pending, beat, writing, wire>>

Unlocks ==
  /\ phase.at = "settled"
  /\ phase' = [phase EXCEPT !.at = "over", !.locked = FALSE]
  /\ UNCHANGED <<stream, pending, beat, writing, wire>>

StreamNext ==
  \/ \E item \in Thoughts \cup {"a", "stop", "call"} : Receive(item)
  \/ UpstreamEnds \/ Yields \/ Stopped
  \/ Writes \/ Heartbeat \/ WritesBody \/ IsAccepted \/ Abandoned
  \/ ClosesUpstream \/ Settles \/ Unlocks

StreamSpec == StreamInit /\ [][StreamNext]_streamVars
-----------------------------------------------------------------------------
Ended == \E i \in DOMAIN wire : wire[i].type = "finish"

(* What a client received is a prefix of a well-formed stream, wherever    *)
(* keepalives fell and whatever upstream interleaved: blocks are numbered  *)
(* in the order they start, are written to while they are open, and are    *)
(* closed once, before a turn that succeeded ends; events are numbered     *)
(* without gap; and nothing extends a reply before it began or after it    *)
(* ended.                                                                  *)
WellFormed ==
  LET Of(type) == {i \in DOMAIN wire : wire[i].type = type}
      Real == DOMAIN wire \ Of("comment")
      one == stream.api = "messages" IN
  /\ \A i \in Real : wire[i].n = Cardinality({j \in Real : j < i})
  /\ \A i \in Of("keepalive") : \E b \in Of("begin") : b < i
  /\ \A f \in Of("finish"), i \in DOMAIN wire : i > f => wire[i].type = "comment"
  /\ \A i \in Of("start") :
       /\ wire[i].at = Cardinality({j \in Of("start") : j < i})
       /\ one => Cardinality({j \in Of("start") : j < i}) = Cardinality({j \in Of("stop") : j < i})
  /\ stream.api # "chat" =>
       \A i \in Of("delta") \cup Of("stop") :
         /\ \E j \in Of("start") : j < i /\ wire[j].at = wire[i].at
         /\ \A j \in Of("stop") : wire[j].at = wire[i].at => j >= i
  /\ (Ended /\ stream.ok) => Cardinality(Of("start")) = Cardinality(Of("stop"))

(* A continuation is consumed only by a reply the client has to its end,   *)
(* and the request lock is passed on after upstream was let go and the     *)
(* continuation is settled: the next turn finds the slot vacated.          *)
SettledAfterDelivery ==
  /\ phase.committed => Ended /\ stream.ok
  /\ ~ phase.locked => ~ stream.open /\ (Ended /\ stream.ok /\ phase.sent => phase.committed)

(* "Hand the client only the text that precedes the first hit."            *)
NothingPastStop ==
  stream.api # "responses" => \A i \in DOMAIN wire : "stop" \notin ToSet(wire[i].text)
=============================================================================
