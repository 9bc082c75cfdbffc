----------------------------- MODULE PlannedTurns -----------------------------
(***************************************************************************)
(* A request that declares tools, in the three APIs: the order of its      *)
(* planners (studio_planner.py), the router's classification               *)
(* (tool_router.py), the retry of an answer that claims a file or lacks a  *)
(* demanded call, and what the delivered reply takes with it: its sources  *)
(* and the session it is recorded under.                                   *)
(*                                                                         *)
(* One client goes through one conversation.  Up to two upstream           *)
(* conversations serve it: the session of the native client, and that of   *)
(* the Studio agent.  What each of them knows is a set of messages: the    *)
(* prompt of request e is <<e, "asked">>, and the reply of its studio,     *)
(* router, inline or retry turn is <<e, "studio">> and so on.              *)
(***************************************************************************)
EXTENDS Common, Integers, Sequences, SequencesExt

CONSTANTS Apis,        \* of "chat", "messages", "responses"
          MaxRequests  \* bound: requests of the client

VARIABLES
  api,       \* the endpoint the client uses
  past,      \* the client's history: the replies it was given
  upstream,  \* the two sessions: turn_count, what they know, and the
             \* history studio_context_id stands for
  request,   \* the request in work
  requests   \* how many there were

planVars == <<api, past, upstream, request, requests>>
-----------------------------------------------------------------------------
Planners == {"native", "auto", "router", "studio"}

Unused == [count |-> 0, knows |-> {}, context |-> None]

NoRequest == [pc |-> "none", layers |-> <<>>, prompt |-> FALSE, result |-> FALSE,
              required |-> FALSE, tools |-> FALSE, guard |-> FALSE, stream |-> FALSE,
              inc |-> FALSE, incStudio |-> FALSE,
              kind |-> None, said |-> None, sources |-> None]

PlanInit ==
  /\ api \in Apis
  /\ past = <<>>
  /\ upstream = [s \in {"native", "studio"} |-> Unused]
  /\ request = NoRequest /\ requests = 0

\* Who speaks, and what a client keeps of a request.
Said == Nat \X {"router", "studio", "inline", "class", "retry"}

Replies == [e : Nat, said : Said, call : BOOLEAN, sources : Said \cup {None}]

ASSUME HistoryAssumption == None \notin Seq(Replies)

\* What a history holds: the prompts and the replies.
Messages(h) ==
  {<<h[i].e, "asked">> : i \in DOMAIN h} \cup {h[i].said : i \in DOMAIN h}

\* ordered_or_answered, ordered_or_streamed: the layers a mode goes through.
Layers(mode, studio, result) ==
  CASE mode = "router" /\ studio -> <<"router", "studio", "inline">>
    [] mode = "studio" /\ studio /\ result -> <<"studio", "inline">>
    [] mode = "studio" /\ studio -> <<"studio", "router", "inline">>
    [] OTHER -> <<"router">>

\* Mutant: the Studio session is continued whatever history it answered.
ForContext_Any(s, h) == s

\* _studio_session_for_context: a session of another history is replaced.
ForContext(s, h) ==
  IF s.count = 0 \/ h = <<>> \/ s.context = h THEN s ELSE Unused

\* router_prompt: whether the router is to classify before it answers.
RouterPrompt(mode, tools, result) ==
  /\ tools /\ ~ result
  /\ mode \in {"router", "studio"} \/ (mode = "auto" /\ api # "responses")

\* The native session: chat is incremental, Responses always is, and messages
\* never.
Incremental ==
  api = "responses" \/ (api = "chat" /\ upstream["native"].count > 0)

Ask(e, mode, tools, ready, o) ==
  LET result == tools /\ past # <<>> /\ Last(past).call
      studio == tools /\ mode \in {"router", "studio"} /\ ready
      session == IF studio THEN ForContext(upstream["studio"], past) ELSE upstream["studio"] IN
  /\ request.pc = "none" /\ requests < MaxRequests
  /\ requests' = e /\ e = requests + 1
  /\ upstream' = [upstream EXCEPT !["studio"] = session]
  /\ request' = [NoRequest EXCEPT
       !.pc = "layer",
       !.layers = IF tools THEN Layers(mode, studio, result) ELSE <<"inline">>,
       !.prompt = RouterPrompt(mode, tools, result),
       !.result = result, !.tools = tools,
       !.required = tools /\ o.required, !.guard = o.guard, !.stream = o.stream,
       !.inc = Incremental,
       !.incStudio = session.count > 0]
  /\ UNCHANGED <<api, past>>

Layer == Head(request.layers)
Where(layer) == IF layer = "studio" THEN "studio" ELSE "native"
IsInc(s) == IF s = "studio" THEN request.incStudio ELSE request.inc

\* The prompt and the transcript before it, which a session that is taken to
\* have it is not sent again.
Sent(s) == {<<requests, "asked">>} \cup (IF IsInc(s) THEN {} ELSE Messages(past))

\* reserve_turn and the invocation: what a session knows once it is asked.
Told(s) == [upstream EXCEPT ![s].count = @ + 1, ![s].knows = @ \cup Sent(s)]

Heard(u, s, said) == [u EXCEPT ![s].knows = @ \cup {said}]

FailsWith(u) == upstream' = u /\ request' = NoRequest /\ UNCHANGED <<api, past, requests>>

\* Whether another planner follows, and planner_fallback_needed: neither a
\* call nor a verdict, a claimed file or an image is a reason to ask it.
Follows == Len(request.layers) > 1

\* planner_predicate: not the turn that reads what its tools returned.
FallsBack(kind) == Follows /\ ~ request.result /\ kind = "prose"

Next_(u) ==
  /\ upstream' = u
  /\ request' = [request EXCEPT !.layers = Tail(@)]
  /\ UNCHANGED <<api, past, requests>>

\* Mutant: the sources found first stay.
Cites_First(said) == IF request.sources # None THEN request.sources ELSE said

\* The sources of what was said; a classification has none, and chat has no
\* place for them.
Cites(said) == IF said[2] = "class" \/ api = "chat" THEN None ELSE said

\* The layer's text is the turn's.  Only now its sources become the turn's;
\* an inline turn collects its own at once.
Adopt(u, kind, said) ==
  /\ upstream' = u
  /\ request' = [request EXCEPT !.pc = "read", !.kind = kind, !.said = said,
                                     !.sources = Cites(said)]
  /\ UNCHANGED <<api, past, requests>>

Classifies == request.pc = "layer" /\ Layer = "router" /\ request.prompt

\* _router_decision, without a session: a call is the whole answer.
Classified == Classifies /\ Adopt(upstream, "call", <<requests, "class">>)

\* The classification failed or cannot be read, and there is another planner.
Unclear == Classifies /\ Follows /\ Next_(upstream)

\* ... or there is none; or no tool is needed: the ordinary answer turn.
Unneeded ==
  /\ Classifies
  /\ \E declined \in BOOLEAN :
       /\ Follows => declined
       /\ request' = [request EXCEPT !.prompt = FALSE,
                                     !.kind = IF declined THEN "declined" ELSE None]
  /\ UNCHANGED <<api, past, upstream, requests>>

Asks == request.pc = "layer" /\ ~ Classifies

\* _resolve_tool_calls: prose is not read for a call after the verdict of the
\* classification, which goes with the answer.
Resolved(answer) ==
  IF request.kind = "declined" /\ answer = "prose" THEN "declined" ELSE answer

\* The turn of a layer has answered: another planner follows, or it is kept
\* with its sources.
Concludes(u, kind, said) ==
  IF FallsBack(kind) THEN Next_(u) ELSE Adopt(u, kind, said)

PlannerAnswers(answer) ==
  LET s == Where(Layer)
      said == <<requests, Layer>> IN
  /\ Asks
  /\ Concludes(Heard(Told(s), s, said), Resolved(answer), said)

\* Studio failed before any text and was not throttled: reset_conversation.
StudioFails ==
  /\ Asks /\ Layer = "studio"
  /\ Next_([upstream EXCEPT !["studio"] = Unused])

\* Any other failure, also after some text, and a client that leaves.
LayerFails == Asks /\ FailsWith(Told(Where(Layer)))

\* The demanded call of the Responses API, and the file that was claimed.
Demands == api = "responses" /\ request.required /\ request.kind # "call"
Claims ==
  /\ request.kind = "claim" /\ request.tools /\ ~ request.guard
  /\ ~ (request.result /\ ~ request.required)

Retries == request.pc = "read" /\ (Demands \/ Claims)

\* A retry is asked where the planner was that answered.
RetrySession == Where(Layer)

\* Without calls a retry is thrown away: text and sources stay.
Kept(u) ==
  /\ upstream' = u
  /\ request' = [request EXCEPT !.pc = "reply", !.kind = "prose"]
  /\ UNCHANGED <<api, past, requests>>

Retry(answer) ==
  LET s == RetrySession
      said == <<requests, "retry">>
      u == Heard(Told(s), s, said) IN
  /\ Retries
  /\ \/ /\ answer = "call" /\ upstream' = u
        /\ request' = [request EXCEPT !.pc = "reply", !.kind = "call", !.said = said,
                         !.sources = Cites(said)]
        /\ UNCHANGED <<api, past, requests>>
     \/ /\ answer # "call"
        /\ IF Demands THEN FailsWith(u) ELSE Kept(u)

\* The retry fails: the answer is kept, but for a demanded call, and for the
\* streams of messages and Responses, whose one handler reports the error.
RetryLosesReply == Demands \/ (request.stream /\ api # "chat")

RetryFails ==
  /\ Retries
  /\ IF RetryLosesReply THEN FailsWith(Told(RetrySession)) ELSE Kept(Told(RetrySession))

Ready == request.pc = "reply" \/ (request.pc = "read" /\ ~ Retries)

\* Buffered chat and messages report a demanded call that is missing.
Refuses == api # "responses" /\ request.required /\ request.kind # "call" /\ ~ request.guard

Refuse == Ready /\ ~ request.stream /\ Refuses /\ FailsWith(upstream)

\* record_auto_session_response, record_issued_response: by the stage.
RecordedReply(h) ==
  IF Layer = "studio" THEN [upstream EXCEPT !["studio"].context = h] ELSE upstream

\* What the client is given: the text, its calls and its sources.
Reply == [e |-> requests, said |-> request.said, call |-> request.kind = "call",
          sources |-> request.sources]

\* The reply is recorded, then delivered.
Delivers ==
  /\ Ready /\ (request.stream \/ ~ Refuses)
  /\ past' = Append(past, Reply)
  /\ upstream' = RecordedReply(past')
  /\ request' = NoRequest
  /\ UNCHANGED <<api, requests>>

\* The client goes back to before an exchange.
Rewind ==
  /\ request.pc = "none" /\ past # <<>> /\ api # "responses"
  /\ past' = Front(past)
  /\ UNCHANGED <<api, upstream, request, requests>>

PlannerAnswer == {"call", "unusable", "prose", "claim", "declined"}

PlanNext ==
  \/ \E mode \in Planners, tools, ready \in BOOLEAN,
        o \in [required : BOOLEAN, guard : BOOLEAN, stream : BOOLEAN] :
       Ask(requests + 1, mode, tools, ready, o)
  \/ Classified \/ Unclear \/ Unneeded
  \/ \E answer \in PlannerAnswer : PlannerAnswers(answer) \/ Retry(answer)
  \/ StudioFails \/ LayerFails \/ RetryFails \/ Refuse \/ Delivers \/ Rewind

PlanSpec == PlanInit /\ [][PlanNext]_planVars
-----------------------------------------------------------------------------
(* "the kept reply never cites another turn": whatever planners fell back, *)
(* failed or were asked again, a delivered reply has the sources of the    *)
(* turn that said it, and all of them.                                     *)
SourcesOfReply ==
  \A i \in DOMAIN past :
    past[i].sources = IF api = "chat" \/ past[i].said[2] = "class" THEN None
                      ELSE past[i].said

(* A Studio conversation that is sent only what is new has the history of  *)
(* the client before it, also when other planners answered in between, its *)
(* own drafts were thrown away, or the client went back.                   *)
StudioKnows ==
  (request.pc = "layer" /\ ~ Classifies /\ Layer = "studio" /\ request.incStudio
     /\ api # "responses")
  => Messages(past) \subseteq upstream["studio"].knows

(* "the M365 server already remembers everything up to and including its   *)
(* last assistant response" (translator.py:786): the same of the native    *)
(* session.                                                                *)
NativeKnows ==
  (Asks /\ Layer # "studio" /\ request.inc /\ api = "chat")
  => Messages(past) \subseteq upstream["native"].knows

(* The Anthropic stream with tools "mirrors _openai_stream_with_tools",    *)
(* which keeps the original response if the retry fails: no retry costs a  *)
(* client the answer there was.                                            *)
ReplyKept ==
  [][request.pc = "read" /\ ~ Demands /\ (request.stream \/ ~ Refuses) => request'.pc # "none" \/ past' # past]_planVars
=============================================================================
