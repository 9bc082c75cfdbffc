------------------------------ MODULE RepliesProofs ----------------------------
(***************************************************************************)
(* Proofs about what a client is told.  PlannedTurns: whatever planners    *)
(* fall back, fail or are asked again, a reply has the sources of the turn *)
(* that said it, and a Studio conversation that is sent only what is new   *)
(* knows the rest.  ReplyStream: a client receives a prefix of a           *)
(* well-formed stream, and what the turn holds is let go of in order.      *)
(* AnswerMerge: however deltas, snapshots and the completion interleave,   *)
(* an answer is read once, in order, and to its end.                       *)
(***************************************************************************)
EXTENDS PlannedTurns, AnswerMerge, ReplyStream, ListsProofs

-----------------------------------------------------------------------------
(* The stages that are left of a request.                                  *)

WithStudio == {<<"router", "studio", "inline">>, <<"studio", "inline">>,
               <<"studio", "router", "inline">>}

Stages == WithStudio \cup {<<"router", "inline">>, <<"inline">>, <<"router">>}

LEMMA StageFacts ==
  ASSUME NEW l \in Stages
  PROVE  /\ Head(l) \in {"router", "studio", "inline"}
         /\ Head(l) = "studio" => /\ l \in WithStudio /\ Len(l) > 1
                                  /\ Tail(l) \in Stages \ WithStudio
         /\ Len(l) > 1 => Tail(l) \in Stages
         /\ Len(l) > 1 /\ Tail(l) \in WithStudio => l \in WithStudio
  <1>1. CASE l = <<"router", "studio", "inline">>
    <2>1. Head(l) = "router" /\ Len(l) = 3 /\ Tail(l) = <<"studio", "inline">> BY <1>1
    <2> QED BY <1>1, <2>1 DEF Stages, WithStudio
  <1>2. CASE l = <<"studio", "inline">>
    <2>1. Head(l) = "studio" /\ Len(l) = 2 /\ Tail(l) = <<"inline">> BY <1>2
    <2> QED BY <1>2, <2>1 DEF Stages, WithStudio
  <1>3. CASE l = <<"studio", "router", "inline">>
    <2>1. Head(l) = "studio" /\ Len(l) = 3 /\ Tail(l) = <<"router", "inline">> BY <1>3
    <2> QED BY <1>3, <2>1 DEF Stages, WithStudio
  <1>4. CASE l = <<"router", "inline">>
    <2>1. Head(l) = "router" /\ Len(l) = 2 /\ Tail(l) = <<"inline">> BY <1>4
    <2> QED BY <1>4, <2>1 DEF Stages, WithStudio
  <1>5. CASE l \in {<<"inline">>, <<"router">>}
    <2>1. Head(l) \in {"inline", "router"} /\ Len(l) = 1 BY <1>5
    <2> QED BY <2>1
  <1> QED BY <1>1, <1>2, <1>3, <1>4, <1>5 DEF Stages, WithStudio

LEMMA LayersAreStages ==
  ASSUME NEW mode, NEW studio, NEW result
  PROVE  /\ Layers(mode, studio, result) \in Stages
         /\ Layers(mode, studio, result) \in WithStudio => studio
  <1>1. <<"router">> \notin WithStudio /\ <<"inline">> \notin WithStudio
    BY DEF WithStudio
  <1> QED BY <1>1 DEF Layers, Stages, WithStudio

-----------------------------------------------------------------------------
(* The invariant.                                                          *)

PlanTypes ==
  /\ past \in Seq(Replies) /\ requests \in Nat
  /\ DOMAIN request = DOMAIN NoRequest
  /\ request.pc \in {"none", "layer", "read", "reply"}
  /\ request.pc # "none" => request.layers \in Stages
  /\ request.pc \in {"read", "reply"} => request.said \in Said
  /\ DOMAIN upstream = {"native", "studio"}
  /\ \A s \in DOMAIN upstream : DOMAIN upstream[s] = DOMAIN Unused

SourcesSo == request.pc \in {"read", "reply"} => request.sources = Cites(request.said)

\* The history that the Studio session stands for is known to it; so is the
\* client's, where the session is still to be asked for no more than is new;
\* and so is all that a kept answer of it goes with.
Studio == upstream["studio"]

KnownSo ==
  /\ \A h \in Seq(Replies) : Studio.context = h => Messages(h) \subseteq Studio.knows
  /\ request.pc = "layer" /\ request.layers \in WithStudio /\ request.incStudio
       => Messages(past) \subseteq Studio.knows
  /\ request.pc \in {"read", "reply"} /\ Layer = "studio"
       => Messages(past) \cup {<<requests, "asked">>, request.said} \subseteq Studio.knows

PlanInv == PlanTypes /\ SourcesSo /\ SourcesOfReply /\ KnownSo

LEMMA Fields ==
  /\ DOMAIN NoRequest = {"pc", "layers", "prompt", "result", "required", "tools", "guard",
                         "stream", "inc", "incStudio", "kind", "said", "sources"}
  /\ DOMAIN Unused = {"count", "knows", "context"}
  /\ NoRequest.pc = "none"
  BY DEF NoRequest, Unused

-----------------------------------------------------------------------------
(* What a turn does to the sessions: the one that is asked knows more.     *)

Grown(u) ==
  /\ DOMAIN u = {"native", "studio"}
  /\ \A s \in DOMAIN u : DOMAIN u[s] = DOMAIN Unused
  /\ u["studio"].context = Studio.context
  /\ Studio.knows \subseteq u["studio"].knows

LEMMA TurnGrows ==
  ASSUME PlanTypes, NEW s \in {"native", "studio"}, NEW said
  PROVE  /\ Grown(upstream) /\ Grown(Told(s)) /\ Grown(Heard(Told(s), s, said))
         /\ Sent(s) \cup {said} \subseteq Heard(Told(s), s, said)[s].knows
  <1> USE Fields
  <1>1. Grown(upstream) BY DEF Grown, PlanTypes, Studio
  <1>2. /\ DOMAIN Told(s) = {"native", "studio"}
        /\ \A n \in {"native", "studio"} : DOMAIN Told(s)[n] = DOMAIN Unused
        /\ \A n \in {"native", "studio"} :
             /\ Told(s)[n].context = upstream[n].context
             /\ Told(s)[n].knows = IF n = s THEN upstream[n].knows \cup Sent(s)
                                   ELSE upstream[n].knows
    BY DEF Told, PlanTypes
  <1> DEFINE u == Told(s)
             v == Heard(u, s, said)
  <1>3. Grown(u) BY <1>2 DEF Grown, Studio
  <1>4. /\ DOMAIN v = {"native", "studio"}
        /\ \A n \in {"native", "studio"} : DOMAIN v[n] = DOMAIN Unused
        /\ \A n \in {"native", "studio"} :
             /\ v[n].context = u[n].context
             /\ v[n].knows = IF n = s THEN u[n].knows \cup {said} ELSE u[n].knows
    <2> HIDE DEF u
    <2> QED BY <1>2 DEF Heard, u
  <1>5. Grown(v) BY <1>2, <1>4 DEF Grown, Studio
  <1>6. Sent(s) \cup {said} \subseteq v[s].knows BY <1>2, <1>4
  <1> QED BY <1>1, <1>3, <1>5, <1>6

-----------------------------------------------------------------------------
(* The steps.                                                              *)

(* A request that ends without a reply leaves nothing to be known.         *)
LEMMA FailsKept ==
  ASSUME PlanInv, NEW u, Grown(u), FailsWith(u)
  PROVE  PlanInv'
  <1> USE Fields
  <1>1. /\ upstream' = u /\ request' = NoRequest
        /\ past' = past /\ api' = api /\ requests' = requests
    BY DEF FailsWith
  <1>2. PlanTypes' BY <1>1 DEF PlanInv, PlanTypes, Grown
  <1>3. SourcesSo' /\ SourcesOfReply' BY <1>1 DEF PlanInv, SourcesSo, SourcesOfReply
  <1>4. KnownSo' BY <1>1 DEF PlanInv, KnownSo, Grown, Studio
  <1> QED BY <1>2, <1>3, <1>4 DEF PlanInv

(* The next planner: no Studio turn follows one.                           *)
LEMMA NextKept ==
  ASSUME PlanInv, request.pc = "layer", Follows, NEW u, Next_(u),
         Grown(u) \/ (Layer = "studio" /\ u = [upstream EXCEPT !["studio"] = Unused])
  PROVE  PlanInv'
  <1> USE Fields
  <1>1. /\ upstream' = u /\ request' = [request EXCEPT !.layers = Tail(request.layers)]
        /\ past' = past /\ api' = api /\ requests' = requests
    BY DEF Next_
  <1>2. DOMAIN request = DOMAIN NoRequest /\ request.layers \in Stages
    BY DEF PlanInv, PlanTypes
  <1>3. /\ request'.pc = "layer" /\ request'.layers = Tail(request.layers)
        /\ request'.incStudio = request.incStudio /\ DOMAIN request' = DOMAIN NoRequest
    BY <1>1, <1>2
  <1>4. Tail(request.layers) \in Stages
    BY <1>2, StageFacts DEF Follows
  <1>5. PlanTypes' BY <1>1, <1>3, <1>4 DEF PlanInv, PlanTypes, Grown
  <1>6. SourcesSo' /\ SourcesOfReply'
    BY <1>1, <1>3 DEF PlanInv, SourcesSo, SourcesOfReply
  <1>7. CASE Grown(u)
    <2>1. request'.layers \in WithStudio => request.layers \in WithStudio
      BY <1>2, <1>3, StageFacts DEF Follows
    <2>2. KnownSo' BY <1>1, <1>3, <1>7, <2>1 DEF PlanInv, KnownSo, Grown, Studio
    <2> QED BY <1>5, <1>6, <2>2 DEF PlanInv
  <1>8. CASE Layer = "studio" /\ u = [upstream EXCEPT !["studio"] = Unused]
    <2>1. request'.layers \notin WithStudio
      BY <1>2, <1>3, <1>8, StageFacts DEF Layer
    <2>2. u["studio"] = Unused BY <1>8 DEF PlanInv, PlanTypes
    <2>3. \A h \in Seq(Replies) : u["studio"].context # h
      BY <2>2, HistoryAssumption DEF Unused
    <2>4. KnownSo' BY <1>1, <1>3, <2>1, <2>3 DEF PlanInv, KnownSo, Studio
    <2> QED BY <1>5, <1>6, <2>4 DEF PlanInv
  <1> QED BY <1>7, <1>8

(* The text of a layer is kept, with its sources.                          *)
LEMMA AdoptKept ==
  ASSUME PlanInv, request.pc = "layer", NEW u, Grown(u), NEW kind, NEW said \in Said,
         Adopt(u, kind, said),
         Layer = "studio" =>
           Messages(past) \cup {<<requests, "asked">>, said} \subseteq u["studio"].knows
  PROVE  PlanInv'
  <1> USE Fields
  <1>1. /\ upstream' = u /\ past' = past /\ api' = api /\ requests' = requests
        /\ request' = [request EXCEPT !.pc = "read", !.kind = kind, !.said = said,
                                      !.sources = Cites(said)]
    BY DEF Adopt
  <1>2. DOMAIN request = DOMAIN NoRequest /\ request.layers \in Stages
    BY DEF PlanInv, PlanTypes
  <1>3. /\ request'.pc = "read" /\ request'.said = said /\ request'.sources = Cites(said)
        /\ request'.layers = request.layers /\ DOMAIN request' = DOMAIN NoRequest
    BY <1>1, <1>2
  <1>5. PlanTypes' BY <1>1, <1>2, <1>3 DEF PlanInv, PlanTypes, Grown
  <1>6. SourcesSo'
    <2>1. request'.sources = IF said[2] = "class" \/ api' = "chat" THEN None ELSE said
      BY <1>1, <1>3 DEF Cites
    <2> QED BY <1>3, <2>1 DEF SourcesSo, Cites
  <1>7. SourcesOfReply' BY <1>1 DEF PlanInv, SourcesOfReply
  <1>8. KnownSo' BY <1>1, <1>3 DEF PlanInv, KnownSo, Grown, Studio, Layer
  <1> QED BY <1>5, <1>6, <1>7, <1>8 DEF PlanInv

LEMMA PlannerKept ==
  ASSUME PlanInv, NEW answer, PlannerAnswers(answer)
  PROVE  PlanInv'
  <1> DEFINE s == Where(Layer)
             said == <<requests, Layer>>
             u == Heard(Told(s), s, said)
  <1>1. /\ request.pc = "layer" /\ request.layers \in Stages /\ PlanTypes
        /\ requests \in Nat
    BY DEF PlannerAnswers, Asks, PlanInv, PlanTypes
  <1>2. Layer \in {"router", "studio", "inline"} BY <1>1, StageFacts DEF Layer
  <1>3. said \in Said /\ s \in {"native", "studio"}
    BY <1>1, <1>2 DEF Said, Where
  <1>4. Grown(u) /\ Sent(s) \cup {said} \subseteq u[s].knows
    <2> HIDE DEF s, said
    <2> QED BY <1>1, <1>3, TurnGrows DEF u
  <1>5. Layer = "studio" =>
          Messages(past) \cup {<<requests, "asked">>, said} \subseteq u["studio"].knows
    <2> SUFFICES ASSUME Layer = "studio"
                 PROVE  Messages(past) \cup {<<requests, "asked">>, said} \subseteq u["studio"].knows
      OBVIOUS
    <2>1. s = "studio" BY DEF Where
    <2>2. request.incStudio => Messages(past) \subseteq Studio.knows
      BY <1>1, StageFacts DEF PlanInv, KnownSo, Layer
    <2>3. Sent(s) = {<<requests, "asked">>}
                       \cup (IF request.incStudio THEN {} ELSE Messages(past))
      BY <2>1 DEF Sent, IsInc
    <2> HIDE DEF u, said
    <2> QED BY <1>4, <2>1, <2>2, <2>3 DEF Grown
  <1>6. \/ Follows /\ Next_(u)
        \/ Adopt(u, Resolved(answer), said)
    BY DEF PlannerAnswers, Concludes, FallsBack
  <1> HIDE DEF u, said
  <1> QED BY <1>1, <1>3, <1>4, <1>5, <1>6, NextKept, AdoptKept

(* A classification is its own text.                                       *)
LEMMA ClassifiedKept ==
  ASSUME PlanInv, Classified \/ Unclear \/ Unneeded
  PROVE  PlanInv'
  <1> USE Fields
  <1>1. /\ request.pc = "layer" /\ Layer = "router" /\ PlanTypes /\ requests \in Nat
        /\ DOMAIN request = DOMAIN NoRequest /\ request.layers \in Stages
    BY DEF Classified, Unclear, Unneeded, Classifies, PlanInv, PlanTypes
  <1>2. Grown(upstream) BY <1>1, TurnGrows
  <1>3. CASE Classified
    <2>1. <<requests, "class">> \in Said BY <1>1 DEF Said
    <2> QED BY <1>1, <1>2, <1>3, <2>1, AdoptKept DEF Classified
  <1>4. CASE Unclear
    BY <1>1, <1>2, <1>4, NextKept DEF Unclear
  <1>5. CASE Unneeded
    <2>1. /\ UNCHANGED <<api, past, upstream, requests>>
          /\ request'.pc = "layer" /\ request'.layers = request.layers
          /\ request'.incStudio = request.incStudio /\ DOMAIN request' = DOMAIN NoRequest
      BY <1>1, <1>5 DEF Unneeded
    <2>2. PlanTypes' BY <1>1, <2>1 DEF PlanTypes
    <2>3. SourcesSo' /\ SourcesOfReply' BY <1>1, <2>1 DEF PlanInv, SourcesSo, SourcesOfReply
    <2>4. KnownSo' BY <1>1, <2>1 DEF PlanInv, KnownSo, Studio
    <2> QED BY <2>2, <2>3, <2>4 DEF PlanInv
  <1> QED BY <1>3, <1>4, <1>5

LEMMA StudioFailsKept ==
  ASSUME PlanInv, StudioFails \/ LayerFails
  PROVE  PlanInv'
  <1>1. /\ request.pc = "layer" /\ request.layers \in Stages /\ PlanTypes
    BY DEF StudioFails, LayerFails, Asks, PlanInv, PlanTypes
  <1>2. CASE StudioFails
    <2>1. Follows BY <1>1, <1>2, StageFacts DEF StudioFails, Layer, Follows
    <2> QED BY <1>1, <1>2, <2>1, NextKept DEF StudioFails
  <1>3. CASE LayerFails
    <2>1. Where(Layer) \in {"native", "studio"} BY DEF Where
    <2>2. Grown(Told(Where(Layer))) BY <1>1, <2>1, TurnGrows
    <2> QED BY <1>3, <2>2, FailsKept DEF LayerFails
  <1> QED BY <1>2, <1>3

(* The answer is settled: as it is, or by what the retry said.             *)
LEMMA SettledKept ==
  ASSUME PlanInv, request.pc = "read", NEW u, Grown(u), upstream' = u,
         UNCHANGED <<api, past, requests>>, NEW said \in Said, NEW kind, NEW sources,
         request' = [request EXCEPT !.pc = "reply", !.kind = kind, !.said = said,
                                    !.sources = sources],
         sources = Cites(said),
         Layer = "studio" => said \in u["studio"].knows
  PROVE  PlanInv'
  <1> USE Fields
  <1>1. DOMAIN request = DOMAIN NoRequest /\ request.layers \in Stages
    BY DEF PlanInv, PlanTypes
  <1>2. /\ request'.pc = "reply" /\ request'.said = said /\ request'.sources = sources
        /\ request'.layers = request.layers /\ DOMAIN request' = DOMAIN NoRequest
    BY <1>1
  <1>3. PlanTypes' BY <1>1, <1>2 DEF PlanInv, PlanTypes, Grown
  <1>4. SourcesSo'
    <2>1. sources = IF said[2] = "class" \/ api' = "chat" THEN None ELSE said
      BY DEF Cites
    <2> QED BY <1>2, <2>1 DEF SourcesSo, Cites
  <1>5. SourcesOfReply' BY DEF PlanInv, SourcesOfReply
  <1>6. KnownSo' BY <1>2 DEF PlanInv, KnownSo, Grown, Studio, Layer
  <1> QED BY <1>3, <1>4, <1>5, <1>6 DEF PlanInv

LEMMA KeptKept ==
  ASSUME PlanInv, request.pc = "read", NEW u, Grown(u), Kept(u)
  PROVE  PlanInv'
  <1> USE Fields
  <1>1. /\ request.said \in Said /\ request.sources = Cites(request.said)
        /\ DOMAIN request = DOMAIN NoRequest
    BY DEF PlanInv, PlanTypes, SourcesSo
  <1>2. request' = [request EXCEPT !.pc = "reply", !.kind = "prose", !.said = request.said,
                                   !.sources = request.sources]
    BY <1>1 DEF Kept
  <1>3. Layer = "studio" => request.said \in u["studio"].knows
    BY DEF PlanInv, KnownSo, Grown
  <1>4. upstream' = u /\ UNCHANGED <<api, past, requests>> BY DEF Kept
  <1> DEFINE said == request.said
             sources == request.sources
  <1> HIDE DEF said, sources
  <1>5. /\ said \in Said /\ sources = Cites(said)
        /\ request' = [request EXCEPT !.pc = "reply", !.kind = "prose", !.said = said,
                                      !.sources = sources]
        /\ Layer = "studio" => said \in u["studio"].knows
    BY <1>1, <1>2, <1>3 DEF said, sources
  <1> QED BY <1>4, <1>5, SettledKept

LEMMA RetryKept ==
  ASSUME PlanInv, NEW answer, Retry(answer) \/ RetryFails
  PROVE  PlanInv'
  <1> DEFINE s == Where(Layer)
             said == <<requests, "retry">>
             u == Heard(Told(s), s, said)
  <1>1. request.pc = "read" /\ PlanTypes /\ requests \in Nat
    BY DEF Retry, RetryFails, Retries, PlanInv, PlanTypes
  <1>2. said \in Said /\ s \in {"native", "studio"} /\ (Layer = "studio" => s = "studio")
    BY <1>1 DEF Said, Where
  <1>3. Grown(u) /\ said \in u[s].knows /\ Grown(Told(s))
    <2> HIDE DEF s, said
    <2> QED BY <1>1, <1>2, TurnGrows DEF u
  <1>4. CASE RetryFails
    BY <1>1, <1>3, <1>4, FailsKept, KeptKept DEF RetryFails, RetrySession
  <1>5. CASE Retry(answer)
    <2>1. \/ FailsWith(u) \/ Kept(u)
          \/ /\ upstream' = u /\ UNCHANGED <<api, past, requests>>
             /\ request' = [request EXCEPT !.pc = "reply", !.kind = "call", !.said = said,
                                           !.sources = Cites(said)]
      BY <1>5 DEF Retry, RetrySession
    <2> HIDE DEF u, said
    <2>2. Layer = "studio" => said \in u["studio"].knows BY <1>2, <1>3
    <2> QED BY <1>1, <1>2, <1>3, <2>1, <2>2, FailsKept, KeptKept, SettledKept
  <1> QED BY <1>4, <1>5

LEMMA MessagesAppend ==
  ASSUME NEW h \in Seq(Replies), NEW r \in Replies
  PROVE  Messages(Append(h, r)) = Messages(h) \cup {<<r.e, "asked">>, r.said}
  <1>1. /\ DOMAIN Append(h, r) = DOMAIN h \cup {Len(h) + 1} /\ Len(h) + 1 \notin DOMAIN h
        /\ Append(h, r)[Len(h) + 1] = r
        /\ \A i \in DOMAIN h : Append(h, r)[i] = h[i]
    OBVIOUS
  <1> DEFINE g == Append(h, r)
  <1> HIDE DEF g
  <1>2. {<<g[i].e, "asked">> : i \in DOMAIN g}
          = {<<h[i].e, "asked">> : i \in DOMAIN h} \cup {<<r.e, "asked">>}
    BY <1>1 DEF g
  <1>3. {g[i].said : i \in DOMAIN g} = {h[i].said : i \in DOMAIN h} \cup {r.said}
    BY <1>1 DEF g
  <1> QED BY <1>2, <1>3 DEF Messages, g

(* The delivered reply becomes the end of the client's history.            *)
LEMMA DeliversKept ==
  ASSUME PlanInv, Delivers
  PROVE  PlanInv'
  <1> USE Fields
  <1>1. /\ request.pc \in {"read", "reply"} /\ past \in Seq(Replies) /\ requests \in Nat
        /\ request.said \in Said /\ request.sources = Cites(request.said)
        /\ DOMAIN upstream = {"native", "studio"}
        /\ \A s \in DOMAIN upstream : DOMAIN upstream[s] = DOMAIN Unused
    BY DEF Delivers, Ready, PlanInv, PlanTypes, SourcesSo
  <1>2. /\ past' = Append(past, Reply) /\ upstream' = RecordedReply(past')
        /\ request' = NoRequest /\ api' = api /\ requests' = requests
    BY DEF Delivers
  <1>3. Reply \in Replies
    <2>1. request.sources \in Said \cup {None} BY <1>1 DEF Cites
    <2>2. (request.kind = "call") \in BOOLEAN OBVIOUS
    <2> QED BY <1>1, <2>1, <2>2 DEF Reply, Replies
  <1>4. /\ past' \in Seq(Replies) /\ DOMAIN past' = DOMAIN past \cup {Len(past) + 1}
        /\ past'[Len(past) + 1] = Reply /\ \A i \in DOMAIN past : past'[i] = past[i]
    BY <1>1, <1>2, <1>3
  <1>5. /\ DOMAIN upstream' = {"native", "studio"}
        /\ \A s \in {"native", "studio"} : DOMAIN upstream'[s] = DOMAIN Unused
        /\ upstream'["studio"].knows = Studio.knows
        /\ upstream'["studio"].context = IF Layer = "studio" THEN past' ELSE Studio.context
    BY <1>1, <1>2 DEF RecordedReply, Studio
  <1>6. PlanTypes' BY <1>1, <1>2, <1>4, <1>5 DEF PlanTypes
  <1>7. SourcesSo' BY <1>2 DEF SourcesSo
  <1>8. SourcesOfReply'
    <2>1. /\ Reply.said = request.said
          /\ Reply.sources = IF api = "chat" \/ Reply.said[2] = "class" THEN None ELSE Reply.said
      BY <1>1 DEF Reply, Cites
    <2> QED BY <1>2, <1>4, <2>1 DEF PlanInv, SourcesOfReply
  <1>9. Layer = "studio" => Messages(past') \subseteq Studio.knows
    <2>1. Messages(past') = Messages(past) \cup {<<requests, "asked">>, request.said}
      BY <1>1, <1>2, <1>3, MessagesAppend DEF Reply
    <2> QED BY <1>1, <2>1 DEF PlanInv, KnownSo
  <1>10. KnownSo'
    <2>1. ASSUME NEW h \in Seq(Replies), upstream'["studio"].context = h
          PROVE  Messages(h) \subseteq upstream'["studio"].knows
      BY <1>5, <1>9, <2>1 DEF PlanInv, KnownSo
    <2> QED BY <1>2, <2>1 DEF KnownSo, Studio
  <1> QED BY <1>6, <1>7, <1>8, <1>10 DEF PlanInv

LEMMA RewindKept ==
  ASSUME PlanInv, Rewind
  PROVE  PlanInv'
  <1>1. /\ request.pc = "none" /\ past \in Seq(Replies) /\ past # <<>>
        /\ past' = SubSeq(past, 1, Len(past) - 1)
        /\ UNCHANGED <<api, upstream, request, requests>>
    BY DEF Rewind, Front, PlanInv, PlanTypes
  <1>2. /\ past' \in Seq(Replies) /\ DOMAIN past' \subseteq DOMAIN past
        /\ \A i \in DOMAIN past' : past'[i] = past[i]
    BY <1>1
  <1>3. PlanTypes' BY <1>1, <1>2 DEF PlanInv, PlanTypes
  <1>4. SourcesSo' /\ SourcesOfReply' BY <1>1, <1>2 DEF PlanInv, SourcesSo, SourcesOfReply
  <1>5. KnownSo' BY <1>1 DEF PlanInv, KnownSo, Studio
  <1> QED BY <1>3, <1>4, <1>5 DEF PlanInv

(* A Studio session is continued for the history it answered, or not asked *)
(* for only what is new.                                                   *)
LEMMA AskKept ==
  ASSUME PlanInv, NEW e, NEW mode, NEW tools, NEW ready, NEW o, Ask(e, mode, tools, ready, o)
  PROVE  PlanInv'
  <1> USE Fields
  <1> DEFINE result == tools /\ past # <<>> /\ Last(past).call
             studio == tools /\ mode \in {"router", "studio"} /\ ready
             session == IF studio THEN ForContext(Studio, past) ELSE Studio
             layers == IF tools THEN Layers(mode, studio, result) ELSE <<"inline">>
  <1>1. /\ past \in Seq(Replies) /\ requests \in Nat /\ DOMAIN upstream = {"native", "studio"}
        /\ \A s \in DOMAIN upstream : DOMAIN upstream[s] = DOMAIN Unused
    BY DEF PlanInv, PlanTypes
  <1>2. /\ requests' = requests + 1 /\ past' = past /\ api' = api
        /\ upstream' = [upstream EXCEPT !["studio"] = session]
        /\ request'.pc = "layer" /\ request'.layers = layers
        /\ request'.incStudio = (session.count > 0) /\ DOMAIN request' = DOMAIN NoRequest
    BY DEF Ask, Studio, NoRequest
  <1>3. layers \in Stages /\ (layers \in WithStudio => studio)
    <2>1. <<"inline">> \in Stages \ WithStudio BY DEF Stages, WithStudio
    <2> HIDE DEF studio, result
    <2> QED BY <2>1, LayersAreStages
  <1>4. session = Studio \/ session = Unused
    BY DEF ForContext
  <1>5. /\ upstream'["studio"] = session /\ DOMAIN session = DOMAIN Unused
        /\ upstream'["native"] = upstream["native"] /\ DOMAIN upstream' = {"native", "studio"}
    <2> HIDE DEF session
    <2> QED BY <1>1, <1>2, <1>4 DEF Studio
  <1>6. PlanTypes'
    <2> HIDE DEF session, layers
    <2> QED BY <1>1, <1>2, <1>3, <1>5 DEF PlanTypes
  <1>7. SourcesSo' /\ SourcesOfReply' BY <1>2 DEF PlanInv, SourcesSo, SourcesOfReply
  <1>8. \A h \in Seq(Replies) : session.context = h => Messages(h) \subseteq session.knows
    <2>1. \A h \in Seq(Replies) : Unused.context # h
      BY HistoryAssumption DEF Unused
    <2> HIDE DEF session
    <2> QED BY <1>4, <2>1 DEF PlanInv, KnownSo
  <1>9. studio /\ session.count > 0 => Messages(past) \subseteq session.knows
    <2> SUFFICES ASSUME studio, session.count > 0 PROVE Messages(past) \subseteq session.knows
      OBVIOUS
    <2>1. Unused.count = 0 BY DEF Unused
    <2>2. session = Studio /\ (past = <<>> \/ Studio.context = past)
      BY <2>1 DEF ForContext
    <2>3. past = <<>> => Messages(past) = {} BY DEF Messages
    <2> QED BY <1>1, <1>8, <2>2, <2>3
  <1>10. KnownSo'
    <2> HIDE DEF session, layers, studio
    <2> QED BY <1>2, <1>3, <1>5, <1>8, <1>9 DEF KnownSo, Studio
  <1> QED BY <1>6, <1>7, <1>10 DEF PlanInv

LEMMA PlanStays ==
  /\ PlanInit => PlanInv
  /\ PlanInv /\ [PlanNext]_planVars => PlanInv'
  <1> USE Fields
  <1>1. PlanInit => PlanInv
    <2> SUFFICES ASSUME PlanInit PROVE PlanInv OBVIOUS
    <2>1. PlanTypes BY DEF PlanInit, PlanTypes
    <2>2. SourcesSo /\ SourcesOfReply BY DEF PlanInit, SourcesSo, SourcesOfReply
    <2>3. KnownSo BY HistoryAssumption DEF PlanInit, KnownSo, Studio, Unused
    <2> QED BY <2>1, <2>2, <2>3 DEF PlanInv
  <1>2. ASSUME PlanInv, UNCHANGED planVars PROVE PlanInv'
    BY <1>2 DEF planVars, PlanInv, PlanTypes, SourcesSo, SourcesOfReply, KnownSo, Studio, Layer,
                Cites
  <1>3. ASSUME PlanInv, Refuse PROVE PlanInv'
    <2>1. Grown(upstream) BY <1>3, TurnGrows DEF PlanInv
    <2> QED BY <1>3, <2>1, FailsKept DEF Refuse
  <1>4. ASSUME PlanInv, PlanNext PROVE PlanInv'
    BY <1>3, <1>4, AskKept, ClassifiedKept, PlannerKept, RetryKept, StudioFailsKept,
       DeliversKept, RewindKept
    DEF PlanNext
  <1> QED BY <1>1, <1>2, <1>4

(* For any number of requests, in each of the APIs: a delivered reply has  *)
(* the sources of the turn that said it, and of no other.                  *)
THEOREM SourcesAreOwn == PlanSpec => []SourcesOfReply
  <1>1. PlanInv => SourcesOfReply BY DEF PlanInv
  <1> QED BY <1>1, PlanStays, PTL DEF PlanSpec

(* ... and a Studio conversation that is sent only what is new knows what  *)
(* the client said and was told before.                                    *)
THEOREM StudioIsInformed == PlanSpec => []StudioKnows
  <1>1. PlanInv => StudioKnows
    <2> SUFFICES ASSUME PlanInv, request.pc = "layer", Layer = "studio", request.incStudio
                 PROVE  Messages(past) \subseteq upstream["studio"].knows
      BY DEF StudioKnows
    <2>1. request.layers \in WithStudio BY StageFacts DEF PlanInv, PlanTypes, Layer
    <2> QED BY <2>1 DEF PlanInv, KnownSo, Studio
  <1> QED BY <1>1, PlanStays, PTL DEF PlanSpec
-----------------------------------------------------------------------------
(* The events of a reply.  What matters of those a client has had is a     *)
(* view of them: which blocks were started and which are shut.             *)

Bits == {"a", "stop", "call", "error"}

Kinds == {"text", "thinking", "r1", "r2", "item"}

Spoken == [type : {"begin", "start", "delta", "stop", "finish"},
         at : Nat, text : Seq(Bits), n : Int]

View == [begun : BOOLEAN, ended : BOOLEAN, starts : Nat, stops : Nat, shut : SUBSET Nat]

\* The view z after the event e.
After(z, e) ==
  [begun |-> z.begun \/ e.type = "begin",
   ended |-> z.ended \/ e.type = "finish",
   starts |-> IF e.type = "start" THEN z.starts + 1 ELSE z.starts,
   stops |-> IF e.type = "stop" THEN z.stops + 1 ELSE z.stops,
   shut |-> IF e.type = "stop" THEN z.shut \cup {e.at} ELSE z.shut]

\* The event e may follow, where z is the view of what was before it.
Fits(e, z, form) ==
  /\ z.ended => e.type = "comment"
  /\ e.type \notin {"begin", "comment"} => z.begun
  /\ e.type = "start" => e.at = z.starts /\ (form = "messages" => z.starts = z.stops)
  /\ e.type \in {"delta", "stop"} /\ form # "chat" => e.at < z.starts /\ e.at \notin z.shut

Steps(f, q, form) ==
  \A i \in 1..Len(q) : Fits(q[i], f[i - 1], form) /\ f[i] = After(f[i - 1], q[i])

\* The events q may follow in this order, and lead from the view z to y.
Leads(z, q, y, form) ==
  \E f \in [0..Len(q) -> View] : f[0] = z /\ f[Len(q)] = y /\ Steps(f, q, form)

LEMMA AfterIsView ==
  ASSUME NEW z \in View, NEW e, e.at \in Nat
  PROVE  After(z, e) \in View
  BY DEF View, After

LEMMA NoSteps ==
  ASSUME NEW z \in View, NEW form
  PROVE  Leads(z, <<>>, z, form)
  <1> DEFINE f == [i \in 0..0 |-> z]
  <1>1. f \in [0..Len(<<>>) -> View] /\ f[0] = z /\ f[Len(<<>>)] = z OBVIOUS
  <1>2. Steps(f, <<>>, form) BY DEF Steps
  <1> QED BY <1>1, <1>2 DEF Leads

LEMMA OneStep ==
  ASSUME NEW z \in View, NEW e \in Spoken, NEW form, Fits(e, z, form)
  PROVE  Leads(z, <<e>>, After(z, e), form)
  <1> DEFINE f == [i \in 0..1 |-> IF i = 0 THEN z ELSE After(z, e)]
  <1>1. After(z, e) \in View BY AfterIsView DEF Spoken
  <1>2. Len(<<e>>) = 1 /\ <<e>>[1] = e OBVIOUS
  <1>3. f \in [0..1 -> View] /\ f[0] = z /\ f[1] = After(z, e) BY <1>1
  <1>4. Steps(f, <<e>>, form) BY <1>2, <1>3 DEF Steps
  <1> QED BY <1>2, <1>3, <1>4 DEF Leads

LEMMA Joining ==
  ASSUME NEW z \in View, NEW y \in View, NEW x \in View, NEW form,
         NEW p \in Seq(Spoken), NEW q \in Seq(Spoken),
         Leads(z, p, y, form), Leads(y, q, x, form)
  PROVE  Leads(z, p \o q, x, form)
  <1>1. PICK f \in [0..Len(p) -> View] : f[0] = z /\ f[Len(p)] = y /\ Steps(f, p, form)
    BY DEF Leads
  <1>2. PICK g \in [0..Len(q) -> View] : g[0] = y /\ g[Len(q)] = x /\ Steps(g, q, form)
    BY DEF Leads
  <1> DEFINE h == [i \in 0..(Len(p) + Len(q)) |->
                     IF i <= Len(p) THEN f[i] ELSE g[i - Len(p)]]
  <1>3. Len(p) \in Nat /\ Len(q) \in Nat /\ Len(p \o q) = Len(p) + Len(q) OBVIOUS
  <1>4. \A i \in 1..Len(p) : (p \o q)[i] = p[i] OBVIOUS
  <1>5. \A i \in (Len(p) + 1)..(Len(p) + Len(q)) : (p \o q)[i] = q[i - Len(p)] OBVIOUS
  <1>6. h \in [0..Len(p \o q) -> View]
    <2>1. ASSUME NEW i \in 0..(Len(p) + Len(q)) PROVE h[i] \in View
      <3>1. CASE i <= Len(p) BY <1>1, <1>3, <3>1
      <3>2. CASE ~ (i <= Len(p))
        <4>1. i - Len(p) \in 0..Len(q) BY <1>3, <3>2
        <4> QED BY <1>2, <3>2, <4>1
      <3> QED BY <3>1, <3>2
    <2> QED BY <1>3, <2>1
  <1>7. h[0] = z /\ h[Len(p \o q)] = x
    <2>1. h[0] = z BY <1>1, <1>3
    <2>2. CASE Len(q) = 0 BY <1>1, <1>2, <1>3, <2>2
    <2>3. CASE Len(q) # 0
      <3>1. (Len(p) + Len(q)) - Len(p) = Len(q) /\ ~ (Len(p) + Len(q) <= Len(p)) BY <1>3, <2>3
      <3> QED BY <1>2, <1>3, <2>1, <3>1
    <2> QED BY <2>1, <2>2, <2>3
  <1>8. ASSUME NEW i \in 1..Len(p \o q)
        PROVE Fits((p \o q)[i], h[i - 1], form) /\ h[i] = After(h[i - 1], (p \o q)[i])
    <2>1. CASE i <= Len(p)
      <3>1. /\ i \in 1..Len(p) /\ i - 1 \in 0..(Len(p) + Len(q))
            /\ i \in 0..(Len(p) + Len(q)) /\ i - 1 <= Len(p)
        BY <1>3, <2>1
      <3>2. h[i] = f[i] /\ h[i - 1] = f[i - 1] /\ (p \o q)[i] = p[i] BY <1>4, <2>1, <3>1
      <3> QED BY <1>1, <3>1, <3>2 DEF Steps
    <2>2. CASE i = Len(p) + 1
      <3>1. h[i] = g[1] /\ h[i - 1] = f[Len(p)] /\ (p \o q)[i] = q[1] /\ 1 \in 1..Len(q)
        BY <1>3, <1>5, <2>2
      <3>2. h[i - 1] = g[1 - 1] BY <1>1, <1>2, <3>1
      <3> QED BY <1>2, <3>1, <3>2 DEF Steps
    <2>3. CASE i > Len(p) + 1
      <3> DEFINE j == i - Len(p)
      <3>1. j \in 1..Len(q) /\ h[i] = g[j] /\ h[i - 1] = g[j - 1] /\ (p \o q)[i] = q[j]
        <4>1. i \in (Len(p) + 1)..(Len(p) + Len(q)) BY <1>3, <2>3
        <4>2. ~ (i <= Len(p)) /\ ~ (i - 1 <= Len(p)) /\ (i - 1) - Len(p) = j - 1
          BY <1>3, <2>3
        <4>3. i \in 0..(Len(p) + Len(q)) /\ i - 1 \in 0..(Len(p) + Len(q)) BY <1>3, <2>3
        <4> QED BY <1>3, <1>5, <4>1, <4>2, <4>3
      <3> QED BY <1>2, <3>1 DEF Steps
    <2> QED BY <1>3, <2>1, <2>2, <2>3
  <1> QED BY <1>6, <1>7, <1>8 DEF Leads, Steps

LEMMA Taking ==
  ASSUME NEW z \in View, NEW y \in View, NEW form, NEW q \in Seq(Spoken), q # <<>>,
         Leads(z, q, y, form)
  PROVE  /\ Fits(Head(q), z, form)
         /\ After(z, Head(q)) \in View
         /\ Leads(After(z, Head(q)), Tail(q), y, form)
  <1>1. PICK f \in [0..Len(q) -> View] : f[0] = z /\ f[Len(q)] = y /\ Steps(f, q, form)
    BY DEF Leads
  <1>2. Len(q) \in Nat /\ 1 \in 1..Len(q) /\ Head(q) = q[1]
        /\ Tail(q) \in Seq(Spoken) /\ Len(Tail(q)) = Len(q) - 1
        /\ \A i \in 1..(Len(q) - 1) : Tail(q)[i] = q[i + 1]
    OBVIOUS
  <1>3. Fits(q[1], f[1 - 1], form) /\ f[1] = After(f[1 - 1], q[1]) BY <1>1, <1>2 DEF Steps
  <1>4. Fits(Head(q), z, form) /\ f[1] = After(z, Head(q)) /\ f[1] \in View
    BY <1>1, <1>2, <1>3
  <1> DEFINE g == [i \in 0..(Len(q) - 1) |-> f[i + 1]]
  <1>5. g \in [0..Len(Tail(q)) -> View] BY <1>1, <1>2
  <1>6. g[0] = f[1] /\ g[Len(Tail(q))] = y
    <2>1. Len(q) - 1 \in 0..(Len(q) - 1) /\ (Len(q) - 1) + 1 = Len(q) BY <1>2
    <2> QED BY <1>1, <1>2, <2>1
  <1>7. ASSUME NEW i \in 1..Len(Tail(q))
        PROVE Fits(Tail(q)[i], g[i - 1], form) /\ g[i] = After(g[i - 1], Tail(q)[i])
    <2>1. i + 1 \in 1..Len(q) /\ i \in 0..(Len(q) - 1) /\ i - 1 \in 0..(Len(q) - 1)
          /\ (i + 1) - 1 = i /\ (i - 1) + 1 = i BY <1>2
    <2>2. Tail(q)[i] = q[i + 1] /\ g[i] = f[i + 1] /\ g[i - 1] = f[i] BY <1>2, <2>1
    <2> QED BY <1>1, <2>1, <2>2 DEF Steps
  <1> QED BY <1>4, <1>5, <1>6, <1>7 DEF Leads, Steps

LEMMA NothingLeads ==
  ASSUME NEW z, NEW y, NEW form, Leads(z, <<>>, y, form)
  PROVE  y = z
  BY DEF Leads
-----------------------------------------------------------------------------
(* The generator of the API: what each of its operators appends, given the *)
(* view of what was emitted.                                               *)

Generator ==
  [api : Streams, tools : BOOLEAN, open : BOOLEAN, items : Int, raw : Seq(Bits),
   ok : BOOLEAN, queue : Seq(Spoken), kind : Kinds \cup {None}, blocks : Seq(Kinds), seq : Int]

\* The generator s is where the view y says.
Emits(z, s, y) == s \in Generator /\ z \in View /\ y \in View /\ Leads(z, s.queue, y, s.api)

\* Text and thoughts may follow.
Apt(s, y) ==
  /\ y.begun /\ ~ y.ended /\ y.starts = Len(s.blocks)
  /\ s.api = "chat" => s.blocks = <<>> /\ s.kind = None /\ y.stops = 0
  /\ s.api = "messages" =>
       IF s.kind = None THEN y.stops = y.starts /\ y.shut = 0..(y.starts - 1)
       ELSE y.starts >= 1 /\ y.stops = y.starts - 1 /\ y.shut = 0..(y.starts - 2)
  /\ s.api = "responses" => y.stops = 0 /\ y.shut = {}

\* All blocks are shut; whole ones may follow.
Shut(s, y) ==
  /\ y.begun /\ ~ y.ended /\ y.starts = Len(s.blocks)
  /\ s.api # "chat" /\ s.kind = None
  /\ y.stops = y.starts /\ y.shut = 0..(y.starts - 1)

\* What a turn does not change of its generator while it emits.
Same(s, t) ==
  /\ t.api = s.api /\ t.tools = s.tools /\ t.open = s.open /\ t.items = s.items
  /\ t.raw = s.raw /\ t.ok = s.ok /\ t.seq = s.seq

LEMMA GeneratorFields ==
  ASSUME NEW s \in Generator
  PROVE  /\ s.api \in {"chat", "messages", "responses"}
         /\ s.queue \in Seq(Spoken) /\ s.blocks \in Seq(Kinds) /\ s.raw \in Seq(Bits)
         /\ s.kind \in Kinds \cup {None}
         /\ s.open \in BOOLEAN /\ s.ok \in BOOLEAN /\ s.tools \in BOOLEAN
         /\ s.items \in Int /\ s.seq \in Int /\ s.api \in Streams
  BY StreamsAssumption DEF Generator

LEMMA EventIsSpoken ==
  ASSUME NEW type \in {"begin", "start", "delta", "stop", "finish"}, NEW at \in Nat,
         NEW text \in Seq(Bits)
  PROVE  /\ Event(type, at, text) \in Spoken
         /\ Event(type, at, text).type = type /\ Event(type, at, text).at = at
  BY DEF Event, Spoken

LEMMA MarkIsSpoken ==
  \A type \in {"begin", "start", "delta", "stop", "finish"} : \A at \in Nat :
    /\ Event(type, at, <<>>) \in Spoken
    /\ Event(type, at, <<>>).type = type /\ Event(type, at, <<>>).at = at
  <1> TAKE type \in {"begin", "start", "delta", "stop", "finish"}
  <1> TAKE at \in Nat
  <1>1. <<>> \in Seq(Bits) OBVIOUS
  <1> QED BY <1>1 DEF Event, Spoken

LEMMA ListOf ==
  ASSUME NEW n \in Nat, NEW S, NEW q, q = [i \in 1..n |-> q[i]], \A i \in 1..n : q[i] \in S
  PROVE  q \in Seq(S) /\ Len(q) = n
  <1>1. q \in [1..n -> S] OBVIOUS
  <1>2. q \in Seq(S) BY <1>1
  <1> QED BY <1>1, <1>2

\* A generator that appended events to its queue.
LEMMA Appends ==
  ASSUME NEW z, NEW s, NEW y, Emits(z, s, y), NEW x \in View, NEW q \in Seq(Spoken),
         Leads(y, q, x, s.api),
         NEW t \in Generator, t.api = s.api, t.queue = s.queue \o q
  PROVE  Emits(z, t, x)
  <1>1. s.queue \in Seq(Spoken) BY GeneratorFields DEF Emits
  <1> QED BY <1>1, Joining DEF Emits

\* The stops of all blocks of a Responses reply.
LEMMA StopsAll ==
  ASSUME NEW s \in Generator, s.api = "responses", NEW y \in View, Apt(s, y)
  PROVE  /\ Stops(s) \in Seq(Spoken)
         /\ \E x \in View :
              /\ Leads(y, Stops(s), x, s.api)
              /\ x.begun /\ ~ x.ended /\ x.starts = y.starts
              /\ x.stops = x.starts /\ x.shut = 0..(x.starts - 1)
  <1> DEFINE n == Len(s.blocks)
             q == Stops(s)
             f == [k \in 0..n |-> [begun |-> TRUE, ended |-> FALSE, starts |-> n,
                                   stops |-> k, shut |-> 0..(k - 1)]]
  <1>1. n \in Nat /\ DOMAIN s.blocks = 1..n /\ y.starts = n BY GeneratorFields DEF Apt
  <1>2. q = [i \in 1..n |-> Event("stop", i - 1, <<>>)] BY <1>1 DEF Stops
  <1> HIDE DEF q, f
  <1>4. \A i \in 1..n : q[i] \in Spoken /\ q[i].type = "stop" /\ q[i].at = i - 1
    <2> TAKE i \in 1..n
    <2>1. i - 1 \in Nat BY <1>1
    <2>2. q[i] = Event("stop", i - 1, <<>>) BY <1>2
    <2> QED BY <2>1, <2>2, MarkIsSpoken
  <1>5. q \in Seq(Spoken) /\ Len(q) = n
    <2>1. q = [i \in 1..n |-> q[i]] BY <1>2
    <2> QED BY <1>1, <1>4, <2>1, ListOf
  <1>6. \A k \in 0..n : f[k] \in View
    <2> TAKE k \in 0..n
    <2>1. k \in Nat /\ 0..(k - 1) \in SUBSET Nat BY <1>1
    <2> QED BY <1>1, <2>1 DEF View, f
  <1>7. y = f[0]
    <2>1. y.begun = TRUE /\ y.ended = FALSE /\ y.stops = 0 /\ y.shut = {} /\ y.starts = n
      BY <1>1 DEF Apt, View
    <2>2. f[0] = [begun |-> TRUE, ended |-> FALSE, starts |-> n, stops |-> 0, shut |-> 0..(0 - 1)]
      BY <1>1 DEF f
    <2>3. 0..(0 - 1) = {} OBVIOUS
    <2>4. y = [begun |-> y.begun, ended |-> y.ended, starts |-> y.starts, stops |-> y.stops,
               shut |-> y.shut] BY DEF View
    <2> QED BY <2>1, <2>2, <2>3, <2>4
  <1>8. ASSUME NEW i \in 1..n
        PROVE  Fits(q[i], f[i - 1], s.api) /\ f[i] = After(f[i - 1], q[i])
    <2>1. i - 1 \in 0..n /\ i \in 0..n /\ i - 1 < n BY <1>1
    <2>2. /\ f[i - 1].begun = TRUE /\ f[i - 1].ended = FALSE /\ f[i - 1].starts = n
          /\ f[i - 1].stops = i - 1 /\ f[i - 1].shut = 0..((i - 1) - 1)
      BY <2>1 DEF f
    <2>3. i - 1 \notin 0..((i - 1) - 1) /\ 0..((i - 1) - 1) \cup {i - 1} = 0..(i - 1)
          /\ (i - 1) + 1 = i
      BY <1>1
    <2>4. Fits(q[i], f[i - 1], s.api) BY <1>4, <2>1, <2>2, <2>3 DEF Fits
    <2>5. After(f[i - 1], q[i]) =
            [begun |-> TRUE, ended |-> FALSE, starts |-> n, stops |-> i, shut |-> 0..(i - 1)]
      BY <1>4, <2>2, <2>3 DEF After
    <2>6. f[i] = [begun |-> TRUE, ended |-> FALSE, starts |-> n, stops |-> i, shut |-> 0..(i - 1)]
      BY <2>1 DEF f
    <2> QED BY <2>4, <2>5, <2>6
  <1>9. Steps(f, q, s.api) BY <1>5, <1>8 DEF Steps
  <1>10. f \in [0..Len(q) -> View] BY <1>5, <1>6 DEF f
  <1>11. n \in 0..n /\ f[n] \in View BY <1>1, <1>6
  <1>12. Leads(y, q, f[n], s.api) BY <1>5, <1>7, <1>9, <1>10 DEF Leads
  <1>13. /\ f[n].begun = TRUE /\ f[n].ended = FALSE /\ f[n].starts = n /\ f[n].stops = n
         /\ f[n].shut = 0..(n - 1)
    BY <1>11 DEF f
  <1> QED BY <1>1, <1>5, <1>11, <1>12, <1>13 DEF q

\* The stop of the open block of messages, if there is one; chat has none.
LEMMA StopsOne ==
  ASSUME NEW s \in Generator, s.api # "responses", NEW y \in View, Apt(s, y)
  PROVE  /\ Stops(s) \in Seq(Spoken)
         /\ \E x \in View :
              /\ Leads(y, Stops(s), x, s.api)
              /\ x.begun /\ ~ x.ended /\ x.starts = y.starts
              /\ s.api = "chat" => x.stops = 0
              /\ s.api = "messages" => x.stops = x.starts /\ x.shut = 0..(x.starts - 1)
  <1>1. CASE s.kind = None
    <2>1. Stops(s) = <<>> BY <1>1 DEF Stops
    <2>2. Leads(y, <<>>, y, s.api) BY NoSteps
    <2> QED BY <1>1, <2>1, <2>2 DEF Apt
  <1>2. CASE s.kind # None
    <2> DEFINE n == Len(s.blocks)
               e == Event("stop", n - 1, <<>>)
    <2>1. s.api = "messages" /\ n \in Nat BY <1>2, GeneratorFields DEF Apt
    <2>2. y.begun /\ ~ y.ended /\ y.starts = n /\ n >= 1 /\ y.stops = n - 1 /\ y.shut = 0..(n - 2)
      BY <1>2, <2>1 DEF Apt
    <2>3. n - 1 \in Nat BY <2>1, <2>2
    <2>4. e \in Spoken /\ e.type = "stop" /\ e.at = n - 1 BY <2>3, MarkIsSpoken
    <2>5. Stops(s) = <<e>> BY <1>2, <2>1 DEF Stops
    <2>6. n - 1 \notin 0..(n - 2) /\ n - 1 < n /\ 0..(n - 2) \cup {n - 1} = 0..(n - 1)
          /\ (n - 1) + 1 = n
      BY <2>1, <2>2
    <2>7. Fits(e, y, s.api) BY <2>2, <2>4, <2>6 DEF Fits
    <2>8. Leads(y, <<e>>, After(y, e), s.api) BY <2>4, <2>7, OneStep
    <2>9. After(y, e) \in View BY <2>3, <2>4, AfterIsView
    <2>10. /\ After(y, e).begun /\ ~ After(y, e).ended /\ After(y, e).starts = n
           /\ After(y, e).stops = n /\ After(y, e).shut = 0..(n - 1)
      BY <2>2, <2>4, <2>6 DEF After
    <2>11. <<e>> \in Seq(Spoken) BY <2>4
    <2> HIDE DEF e
    <2> QED BY <2>1, <2>2, <2>5, <2>8, <2>9, <2>10, <2>11
  <1> QED BY <1>1, <1>2

LEMMA ClosesFits ==
  ASSUME NEW z, NEW s, NEW y, Emits(z, s, y), Apt(s, y)
  PROVE  \E x \in View :
           /\ Emits(z, Closes(s), x) /\ Same(s, Closes(s))
           /\ s.api # "chat" => Shut(Closes(s), x)
           /\ s.api # "responses" => Apt(Closes(s), x)
  <1> DEFINE t == Closes(s)
  <1>1. s \in Generator /\ y \in View /\ z \in View BY DEF Emits
  <1>2. Stops(s) \in Seq(Spoken) BY <1>1, StopsAll, StopsOne
  <1>3. /\ t \in Generator /\ Same(s, t) /\ t.queue = s.queue \o Stops(s)
        /\ t.kind = None /\ t.blocks = s.blocks
    <2> PICK q \in Seq(Spoken) : q = Stops(s) BY <1>2
    <2>1. t = [s EXCEPT !.queue = s.queue \o q, !.kind = None] BY DEF Closes
    <2>2. s.queue \o q \in Seq(Spoken) BY <1>1, GeneratorFields
    <2> QED BY <1>1, <2>1, <2>2 DEF Generator, Same
  <1>4. PICK x \in View :
          /\ Leads(y, Stops(s), x, s.api)
          /\ x.begun /\ ~ x.ended /\ x.starts = y.starts
          /\ s.api = "chat" => x.stops = 0
          /\ s.api # "chat" => x.stops = x.starts /\ x.shut = 0..(x.starts - 1)
    <2>1. CASE s.api = "responses" BY <1>1, <2>1, StopsAll
    <2>2. CASE s.api # "responses"
      <3>1. s.api # "chat" => s.api = "messages" BY <1>1, <2>2, GeneratorFields
      <3> QED BY <1>1, <2>2, <3>1, StopsOne
    <2> QED BY <2>1, <2>2
  <1> HIDE DEF t
  <1>5. t.api = s.api BY <1>3 DEF Same
  <1>6. Emits(z, t, x) BY <1>2, <1>3, <1>4, <1>5, Appends
  <1>7. s.api # "chat" => Shut(t, x) BY <1>3, <1>4, <1>5 DEF Shut, Apt
  <1>8. s.api # "responses" => Apt(t, x) BY <1>3, <1>4, <1>5 DEF Apt
  <1> QED BY <1>3, <1>6, <1>7, <1>8 DEF t

\* Two events or lists of events after another.
LEMMA OneMore ==
  ASSUME NEW z \in View, NEW y \in View, NEW form, NEW p \in Seq(Spoken), NEW e \in Spoken,
         Leads(z, p, y, form), Fits(e, y, form)
  PROVE  /\ After(y, e) \in View
         /\ p \o <<e>> \in Seq(Spoken) /\ Leads(z, p \o <<e>>, After(y, e), form)
         /\ Append(p, e) \in Seq(Spoken) /\ Leads(z, Append(p, e), After(y, e), form)
  <1>1. e.at \in Nat BY DEF Spoken
  <1>2. After(y, e) \in View BY <1>1, AfterIsView
  <1>3. Leads(y, <<e>>, After(y, e), form) BY OneStep
  <1>4. <<e>> \in Seq(Spoken) /\ Append(p, e) = p \o <<e>> /\ p \o <<e>> \in Seq(Spoken) OBVIOUS
  <1>5. Leads(z, p \o <<e>>, After(y, e), form) BY <1>2, <1>3, <1>4, Joining
  <1> QED BY <1>2, <1>4, <1>5

\* A block that starts: what its view is.
LEMMA StartFits ==
  ASSUME NEW y \in View, NEW n \in Nat, NEW form, y.begun, ~ y.ended, y.starts = n,
         form = "messages" => y.stops = y.starts
  PROVE  LET e == Event("start", n, <<>>) IN
         /\ e \in Spoken /\ Fits(e, y, form)
         /\ After(y, e).begun /\ ~ After(y, e).ended /\ After(y, e).starts = n + 1
         /\ After(y, e).stops = y.stops /\ After(y, e).shut = y.shut
  <1> DEFINE e == Event("start", n, <<>>)
  <1>1. e \in Spoken /\ e.type = "start" /\ e.at = n BY MarkIsSpoken
  <1> HIDE DEF e
  <1>2. Fits(e, y, form) BY <1>1 DEF Fits
  <1>3. /\ After(y, e).begun /\ ~ After(y, e).ended /\ After(y, e).starts = n + 1
        /\ After(y, e).stops = y.stops /\ After(y, e).shut = y.shut
    BY <1>1 DEF After
  <1> QED BY <1>1, <1>2, <1>3 DEF e

\* Text of a block that is open changes nothing of the view.
LEMMA DeltaFits ==
  ASSUME NEW y \in View, NEW b \in Nat, NEW text \in Seq(Bits), NEW form, y.begun, ~ y.ended,
         form # "chat" => b < y.starts /\ b \notin y.shut
  PROVE  LET e == Event("delta", b, text) IN
         e \in Spoken /\ Fits(e, y, form) /\ After(y, e) = y
  <1> DEFINE e == Event("delta", b, text)
  <1>1. e \in Spoken /\ e.type = "delta" /\ e.at = b BY EventIsSpoken
  <1> HIDE DEF e
  <1>2. Fits(e, y, form) BY <1>1 DEF Fits
  <1>3. After(y, e) = y
    <2>1. y = [begun |-> y.begun, ended |-> y.ended, starts |-> y.starts, stops |-> y.stops,
               shut |-> y.shut] /\ y.begun \in BOOLEAN /\ y.ended \in BOOLEAN BY DEF View
    <2>2. After(y, e) = [begun |-> y.begun, ended |-> y.ended, starts |-> y.starts,
                        stops |-> y.stops, shut |-> y.shut] BY <1>1, <2>1 DEF After
    <2> QED BY <2>1, <2>2
  <1> QED BY <1>1, <1>2, <1>3 DEF e

LEMMA OpensFits ==
  ASSUME NEW z, NEW s, NEW y, Emits(z, s, y), Apt(s, y), NEW kind \in Kinds
  PROVE  \E x \in View :
           /\ Emits(z, Opens(s, kind), x) /\ Same(s, Opens(s, kind)) /\ Apt(Opens(s, kind), x)
           /\ s.api = "messages" => Opens(s, kind).kind = kind
           /\ s.api = "responses" => kind \in ToSet(Opens(s, kind).blocks)
  <1> DEFINE n == Len(s.blocks)
             e == Event("start", n, <<>>)
             t == Opens(s, kind)
  <1>1. s \in Generator /\ y \in View /\ z \in View /\ Leads(z, s.queue, y, s.api) BY DEF Emits
  <1>2. n \in Nat /\ s.queue \in Seq(Spoken) /\ s.blocks \in Seq(Kinds)
        /\ s.api \in {"chat", "messages", "responses"}
    BY <1>1, GeneratorFields
  <1>3. None \notin Kinds BY StreamsAssumption DEF Kinds
  <1>4. CASE \/ s.api = "chat" \/ (s.api = "messages" /\ s.kind = kind)
             \/ (s.api = "responses" /\ kind \in ToSet(s.blocks))
    <2>1. t = s BY <1>4 DEF Opens
    <2>2. s.api = "messages" => s.kind = kind BY <1>4
    <2>3. s.api = "responses" => kind \in ToSet(s.blocks) BY <1>4
    <2> QED BY <1>1, <2>1, <2>2, <2>3 DEF Same
  <1>5. CASE s.api = "messages" /\ s.kind # kind
    <2>1. PICK q \in Seq(Spoken) : q = Stops(s) BY <1>1, <1>5, StopsOne
    <2>2. PICK x \in View :
            /\ Leads(y, q, x, s.api) /\ x.begun /\ ~ x.ended /\ x.starts = y.starts
            /\ x.stops = x.starts /\ x.shut = 0..(x.starts - 1)
      BY <1>1, <1>5, <2>1, StopsOne
    <2>3. x.starts = n BY <2>2 DEF Apt
    <2>4. /\ e \in Spoken /\ Fits(e, x, s.api)
          /\ After(x, e).begun /\ ~ After(x, e).ended /\ After(x, e).starts = n + 1
          /\ After(x, e).stops = x.stops /\ After(x, e).shut = x.shut
      BY <1>2, <2>2, <2>3, StartFits
    <2> HIDE DEF e
    <2>5. s.queue \o q \in Seq(Spoken) /\ Leads(z, s.queue \o q, x, s.api)
      BY <1>1, <1>2, <2>2, Joining
    <2>6. /\ After(x, e) \in View /\ (s.queue \o q) \o <<e>> \in Seq(Spoken)
          /\ Leads(z, (s.queue \o q) \o <<e>>, After(x, e), s.api)
      BY <1>1, <2>4, <2>5, OneMore
    <2>7. t = [s EXCEPT !.queue = (s.queue \o q) \o <<e>>, !.kind = kind,
                        !.blocks = Append(s.blocks, kind)]
      BY <1>5, <2>1 DEF Opens, e
    <2>8. Append(s.blocks, kind) \in Seq(Kinds) /\ Len(Append(s.blocks, kind)) = n + 1
      BY <1>2
    <2>9. /\ t \in Generator /\ Same(s, t) /\ t.queue = (s.queue \o q) \o <<e>>
          /\ t.kind = kind /\ Len(t.blocks) = n + 1
      BY <1>1, <2>6, <2>7, <2>8 DEF Generator, Same
    <2> HIDE DEF t, n
    <2>10. t.api = s.api BY <2>9 DEF Same
    <2>11. Emits(z, t, After(x, e)) BY <1>1, <2>6, <2>9, <2>10 DEF Emits
    <2>12. Apt(t, After(x, e))
      <3>1. (n + 1) - 1 = n /\ (n + 1) - 2 = n - 1 /\ n + 1 >= 1 BY <1>2
      <3>2. CASE kind # None BY <1>5, <2>2, <2>3, <2>4, <2>9, <2>10, <3>1, <3>2 DEF Apt
      <3> QED BY <1>3, <3>2
    <2> QED BY <1>5, <2>6, <2>9, <2>11, <2>12 DEF t
  <1>6. CASE s.api = "responses" /\ kind \notin ToSet(s.blocks)
    <2>1. y.begun /\ ~ y.ended /\ y.starts = n /\ y.stops = 0 /\ y.shut = {} BY <1>6 DEF Apt
    <2>2. /\ e \in Spoken /\ Fits(e, y, s.api)
          /\ After(y, e).begun /\ ~ After(y, e).ended /\ After(y, e).starts = n + 1
          /\ After(y, e).stops = y.stops /\ After(y, e).shut = y.shut
      <3>1. s.api # "messages" BY <1>6
      <3> QED BY <1>1, <1>2, <2>1, <3>1, StartFits
    <2> HIDE DEF e
    <2>3. /\ After(y, e) \in View /\ s.queue \o <<e>> \in Seq(Spoken)
          /\ Leads(z, s.queue \o <<e>>, After(y, e), s.api)
      BY <1>1, <1>2, <2>2, OneMore
    <2>4. t = [s EXCEPT !.queue = s.queue \o <<e>>, !.kind = kind,
                        !.blocks = Append(s.blocks, kind)]
      BY <1>6 DEF Opens, e
    <2>11. Append(s.blocks, kind) \in Seq(Kinds) BY <1>2
    <2>5. PICK b \in Seq(Kinds) : b = Append(s.blocks, kind) BY <2>11
    <2>6. Len(b) = n + 1 /\ kind \in ToSet(b)
      <3>1. Len(b) = n + 1 /\ n + 1 \in DOMAIN b /\ b[n + 1] = kind BY <1>2, <2>5
      <3> QED BY <3>1 DEF ToSet
    <2>7. /\ t \in Generator /\ Same(s, t) /\ t.queue = s.queue \o <<e>>
          /\ t.kind = kind /\ t.blocks = b
      BY <1>1, <2>3, <2>4, <2>5 DEF Generator, Same
    <2> HIDE DEF t, n
    <2>8. t.api = s.api BY <2>7 DEF Same
    <2>9. Emits(z, t, After(y, e)) BY <1>1, <2>3, <2>7, <2>8 DEF Emits
    <2>10. Apt(t, After(y, e)) BY <1>6, <2>1, <2>2, <2>6, <2>7, <2>8 DEF Apt
    <2> QED BY <1>6, <2>3, <2>6, <2>7, <2>9, <2>10 DEF t
  <1> QED BY <1>2, <1>4, <1>5, <1>6

LEMMA SaysFits ==
  ASSUME NEW z, NEW s, NEW y, Emits(z, s, y), Apt(s, y), NEW kind \in Kinds,
         NEW text \in Seq(Bits)
  PROVE  \E x \in View :
           /\ Emits(z, Says(s, kind, text), x) /\ Same(s, Says(s, kind, text))
           /\ Apt(Says(s, kind, text), x)
  <1>1. PICK t : t = Opens(s, kind) OBVIOUS
  <1>2. PICK x \in View :
          /\ Emits(z, t, x) /\ Same(s, t) /\ Apt(t, x)
          /\ s.api = "messages" => t.kind = kind
          /\ s.api = "responses" => kind \in ToSet(t.blocks)
    BY <1>1, OpensFits
  <1> DEFINE b == Block(t, kind)
             e == Event("delta", b, text)
             u == Says(s, kind, text)
  <1>3. t \in Generator /\ z \in View /\ Leads(z, t.queue, x, t.api) BY <1>2 DEF Emits
  <1>4. t.queue \in Seq(Spoken) /\ t.blocks \in Seq(Kinds) /\ Len(t.blocks) \in Nat
        /\ t.api \in {"chat", "messages", "responses"} /\ t.api = s.api
    BY <1>2, <1>3, GeneratorFields DEF Same
  <1>5. x.begun /\ ~ x.ended /\ x.starts = Len(t.blocks) BY <1>2 DEF Apt
  <1>6. b \in Nat /\ (t.api # "chat" => b < x.starts /\ b \notin x.shut)
    <2>1. CASE t.api = "chat" BY <2>1 DEF Block
    <2>2. CASE t.api = "messages"
      <3>1. kind # None \/ kind = None OBVIOUS
      <3>2. b = Len(t.blocks) - 1 BY <2>2 DEF Block
      <3>3. CASE kind # None
        <4>1. x.starts >= 1 /\ x.shut = 0..(x.starts - 2) BY <1>2, <1>4, <2>2, <3>3 DEF Apt
        <4> QED BY <1>4, <1>5, <3>2, <4>1
      <3> QED BY <3>3, StreamsAssumption DEF Kinds
    <2>3. CASE t.api = "responses"
      <3>1. \E i \in DOMAIN t.blocks : t.blocks[i] = kind BY <1>2, <1>4, <2>3 DEF ToSet
      <3>2. PICK i \in DOMAIN t.blocks : b = i - 1
        BY <2>3, <3>1 DEF Block
      <3>3. i \in 1..Len(t.blocks) BY <1>4, <3>2
      <3>4. x.shut = {} BY <1>2, <2>3 DEF Apt
      <3> QED BY <1>4, <1>5, <3>2, <3>3, <3>4
    <2> QED BY <1>4, <2>1, <2>2, <2>3
  <1> HIDE DEF b
  <1>7. e \in Spoken /\ Fits(e, x, t.api) /\ After(x, e) = x BY <1>5, <1>6, DeltaFits
  <1>8. u = [t EXCEPT !.queue = Append(t.queue, e)] BY <1>1 DEF Says, b
  <1> HIDE DEF e
  <1>9. Append(t.queue, e) \in Seq(Spoken) /\ Leads(z, Append(t.queue, e), x, t.api)
    BY <1>3, <1>4, <1>7, OneMore
  <1>10. /\ u \in Generator /\ u.queue = Append(t.queue, e) /\ Same(t, u)
         /\ u.kind = t.kind /\ u.blocks = t.blocks
    BY <1>3, <1>8, <1>9 DEF Generator, Same
  <1> HIDE DEF u
  <1>11. u.api = t.api /\ Same(s, u) BY <1>2, <1>10 DEF Same
  <1>12. Emits(z, u, x) BY <1>3, <1>9, <1>10, <1>11 DEF Emits
  <1>13. Apt(u, x) BY <1>2, <1>10, <1>11 DEF Apt
  <1> QED BY <1>11, <1>12, <1>13 DEF u
-----------------------------------------------------------------------------
(* The ends of a turn.                                                     *)

LEMMA PiecesOf ==
  ASSUME NEW s \in Generator
  PROVE  Calls(s) \in Seq(Bits) /\ Words(s) \in Seq(Bits)
  <1> DEFINE c == {i \in DOMAIN s.raw : s.raw[i] = "call"}
             w == {i \in DOMAIN s.raw : s.raw[i] # "call"}
  <1>1. s.raw \in Seq(Bits) BY GeneratorFields
  <1>2. c \in SUBSET DOMAIN s.raw /\ w \in SUBSET DOMAIN s.raw OBVIOUS
  <1>3. Calls(s) = Selected(s.raw, c) /\ Words(s) = Selected(s.raw, w) BY DEF Calls, Words
  <1> HIDE DEF c, w
  <1> QED BY <1>1, <1>2, <1>3, SelectedIs

LEMMA CutIsText ==
  ASSUME NEW text \in Seq(Bits)
  PROVE  Cut(text) \in Seq(Bits)
  <1> DEFINE T == {i \in DOMAIN text : text[i] = "stop"}
             P(i) == text[i] = "stop" /\ \A j \in 1 .. i - 1 : text[j] # "stop"
  <1>1. Len(text) \in Nat /\ DOMAIN text = 1..Len(text) OBVIOUS
  <1>2. CASE "stop" \in ToSet(text)
    <2>1. T # {} BY <1>2 DEF ToSet
    <2>2. T \in SUBSET Nat BY <1>1
    <2>3. PICK m \in T : \A n \in T : m <= n BY <2>1, <2>2, Smallest
    <2>4. \A j \in 1 .. m - 1 : j \in DOMAIN text /\ ~ (m <= j) BY <1>1, <2>3
    <2>5. P(m) /\ m \in DOMAIN text BY <2>3, <2>4
    <2> PICK k : k = CHOOSE i \in DOMAIN text : P(i) OBVIOUS
    <2>6. k \in DOMAIN text BY <2>5
    <2>7. Cut(text) = SubSeq(text, 1, k - 1) BY <1>2 DEF Cut
    <2>11. k \in Int /\ k - 1 \in Int BY <1>1, <2>6
    <2>8. PICK m1 \in Int : m1 = k - 1 BY <2>11
    <2>9. \A i \in 1..m1 : text[i] \in Bits BY <1>1, <2>6, <2>8
    <2>10. SubSeq(text, 1, m1) \in Seq(Bits) BY <2>9, SubSeqProperties
    <2> QED BY <2>7, <2>8, <2>10
  <1>3. CASE ~ ("stop" \in ToSet(text)) BY <1>3 DEF Cut
  <1> QED BY <1>2, <1>3

\* Blocks that start and stop follow each other.
Even(y) == y.begun /\ ~ y.ended /\ y.stops = y.starts

LEMMA ItemFits ==
  ASSUME NEW z, NEW s, NEW y, Emits(z, s, y), Shut(s, y), NEW text \in Seq(Bits)
  PROVE  \E x \in View :
           Emits(z, Item(s, text), x) /\ Same(s, Item(s, text)) /\ Shut(Item(s, text), x)
  <1> DEFINE n == Len(s.blocks)
             e1 == Event("start", n, <<>>)
             e2 == Event("delta", n, text)
             e3 == Event("stop", n, <<>>)
             t == Item(s, text)
  <1>1. s \in Generator /\ y \in View /\ z \in View /\ Leads(z, s.queue, y, s.api) BY DEF Emits
  <1>2. n \in Nat /\ s.queue \in Seq(Spoken) /\ s.blocks \in Seq(Kinds) BY <1>1, GeneratorFields
  <1>3. /\ y.begun /\ ~ y.ended /\ y.starts = n /\ y.stops = n /\ y.shut = 0..(n - 1)
        /\ s.api # "chat" /\ s.kind = None
    BY DEF Shut
  <1>4. PICK y1 : y1 = After(y, e1) OBVIOUS
  <1>5. /\ e1 \in Spoken /\ Fits(e1, y, s.api)
        /\ y1.begun /\ ~ y1.ended /\ y1.starts = n + 1 /\ y1.stops = n /\ y1.shut = 0..(n - 1)
    <2>1. s.api = "messages" => y.stops = y.starts BY <1>3
    <2> QED BY <1>1, <1>2, <1>3, <1>4, <2>1, StartFits
  <1> HIDE DEF e1
  <1>6. PICK q1 : q1 = s.queue \o <<e1>> OBVIOUS
  <1>7. y1 \in View /\ q1 \in Seq(Spoken) /\ Leads(z, q1, y1, s.api)
    BY <1>1, <1>2, <1>4, <1>5, <1>6, OneMore
  <1>8. PICK q2 : q2 = q1 \o (IF text = <<>> THEN <<>> ELSE <<e2>>) OBVIOUS
  <1>9. q2 \in Seq(Spoken) /\ Leads(z, q2, y1, s.api)
    <2>1. CASE text = <<>>
      <3>1. q2 = q1 BY <1>7, <1>8, <2>1
      <3> QED BY <1>7, <3>1
    <2>2. CASE text # <<>>
      <3>1. q2 = q1 \o <<e2>> BY <1>8, <2>2
      <3>2. n < y1.starts /\ n \notin y1.shut BY <1>2, <1>5
      <3>3. e2 \in Spoken /\ Fits(e2, y1, s.api) /\ After(y1, e2) = y1
        BY <1>2, <1>5, <1>7, <3>2, DeltaFits
      <3> HIDE DEF e2
      <3> QED BY <1>1, <1>7, <3>1, <3>3, OneMore
    <2> QED BY <2>1, <2>2
  <1>10. e3 \in Spoken /\ e3.type = "stop" /\ e3.at = n BY <1>2, MarkIsSpoken
  <1>11. t = [s EXCEPT !.blocks = Append(s.blocks, "item"), !.queue = q2 \o <<e3>>]
    BY <1>6, <1>8 DEF Item, e1
  <1> HIDE DEF e2, e3
  <1>12. Fits(e3, y1, s.api)
    <2>1. n < n + 1 /\ n \notin 0..(n - 1) BY <1>2
    <2> QED BY <1>5, <1>10, <2>1 DEF Fits
  <1>13. PICK x : x = After(y1, e3) OBVIOUS
  <1>14. /\ x.begun /\ ~ x.ended /\ x.starts = n + 1 /\ x.stops = n + 1 /\ x.shut = 0..n
    <2>1. 0..(n - 1) \cup {n} = 0..n BY <1>2
    <2> QED BY <1>5, <1>10, <1>13, <2>1 DEF After
  <1>15. x \in View /\ q2 \o <<e3>> \in Seq(Spoken) /\ Leads(z, q2 \o <<e3>>, x, s.api)
    BY <1>1, <1>7, <1>9, <1>10, <1>12, <1>13, OneMore
  <1>16. Append(s.blocks, "item") \in Seq(Kinds) /\ Len(Append(s.blocks, "item")) = n + 1
    <2>1. "item" \in Kinds BY DEF Kinds
    <2> QED BY <1>2, <2>1
  <1>17. /\ t \in Generator /\ Same(s, t) /\ t.queue = q2 \o <<e3>>
         /\ t.kind = s.kind /\ Len(t.blocks) = n + 1
    BY <1>1, <1>11, <1>15, <1>16 DEF Generator, Same
  <1> HIDE DEF t, n
  <1>18. t.api = s.api BY <1>17 DEF Same
  <1>19. Emits(z, t, x) BY <1>1, <1>15, <1>17, <1>18 DEF Emits
  <1>20. Shut(t, x)
    <2>1. (n + 1) - 1 = n BY <1>2
    <2> QED BY <1>3, <1>14, <1>17, <1>18, <2>1 DEF Shut
  <1> QED BY <1>15, <1>17, <1>19, <1>20 DEF t

\* Thirds of numbers.
LEMMA Thirds ==
  ASSUME NEW n \in Nat \ {0}
  PROVE  \E k \in Nat :
           \/ /\ n = 3 * k + 1 /\ n % 3 = 1 /\ (n - 1) \div 3 = k /\ (n + 1) \div 3 = k
              /\ (n + 2) \div 3 = k + 1 /\ n \div 3 = k
           \/ /\ n = 3 * k + 2 /\ n % 3 = 2 /\ (n - 1) \div 3 = k /\ (n + 1) \div 3 = k + 1
              /\ (n + 2) \div 3 = k + 1 /\ n \div 3 = k
           \/ /\ n = 3 * k + 3 /\ n % 3 = 0 /\ (n - 1) \div 3 = k /\ (n + 1) \div 3 = k + 1
              /\ (n + 2) \div 3 = k + 1 /\ n \div 3 = k + 1
  <1> DEFINE k == (n - 1) \div 3
  <1>1. k \in Nat /\ (n = 3 * k + 1 \/ n = 3 * k + 2 \/ n = 3 * k + 3) OBVIOUS
  <1> QED BY <1>1

\* The view of a reply of which a blocks were started, and the first b shut.
Blocks(a, b) == [begun |-> TRUE, ended |-> FALSE, starts |-> a, stops |-> b, shut |-> 0..(b - 1)]

LEMMA BlocksAre ==
  ASSUME NEW a \in Nat, NEW b \in Nat
  PROVE  /\ Blocks(a, b) \in View
         /\ Blocks(a, b).begun /\ ~ Blocks(a, b).ended
         /\ Blocks(a, b).starts = a /\ Blocks(a, b).stops = b
         /\ Blocks(a, b).shut = 0..(b - 1)
  <1>1. 0..(b - 1) \in SUBSET Nat OBVIOUS
  <1> QED BY <1>1 DEF Blocks, View

LEMMA BlocksStart ==
  ASSUME NEW i \in Nat, NEW e, NEW form, e = Event("start", i, <<>>)
  PROVE  e \in Spoken /\ Fits(e, Blocks(i, i), form) /\ After(Blocks(i, i), e) = Blocks(i + 1, i)
  <1>1. e \in Spoken /\ e.type = "start" /\ e.at = i BY MarkIsSpoken
  <1>2. Fits(e, Blocks(i, i), form) BY <1>1, BlocksAre DEF Fits
  <1>3. After(Blocks(i, i), e) = Blocks(i + 1, i) BY <1>1 DEF After, Blocks
  <1> QED BY <1>1, <1>2, <1>3

LEMMA BlocksDelta ==
  ASSUME NEW i \in Nat, NEW bit \in Bits, NEW e, NEW form, e = Event("delta", i, <<bit>>)
  PROVE  /\ e \in Spoken /\ Fits(e, Blocks(i + 1, i), form)
         /\ After(Blocks(i + 1, i), e) = Blocks(i + 1, i)
  <1>1. PICK y : y = Blocks(i + 1, i) OBVIOUS
  <1>2. y \in View /\ y.begun /\ ~ y.ended /\ y.starts = i + 1 /\ y.shut = 0..(i - 1)
    BY <1>1, BlocksAre
  <1>3. <<bit>> \in Seq(Bits) /\ i < i + 1 /\ i \notin 0..(i - 1) OBVIOUS
  <1>4. e \in Spoken /\ Fits(e, y, form) /\ After(y, e) = y BY <1>2, <1>3, DeltaFits
  <1> QED BY <1>1, <1>4

LEMMA BlocksStop ==
  ASSUME NEW i \in Nat, NEW e, NEW form, e = Event("stop", i, <<>>)
  PROVE  /\ e \in Spoken /\ Fits(e, Blocks(i + 1, i), form)
         /\ After(Blocks(i + 1, i), e) = Blocks(i + 1, i + 1)
  <1>1. e \in Spoken /\ e.type = "stop" /\ e.at = i BY MarkIsSpoken
  <1>2. i < i + 1 /\ i \notin 0..(i - 1) /\ 0..(i - 1) \cup {i} = 0..((i + 1) - 1) OBVIOUS
  <1>3. /\ Blocks(i + 1, i).begun /\ ~ Blocks(i + 1, i).ended
        /\ Blocks(i + 1, i).starts = i + 1 /\ Blocks(i + 1, i).shut = 0..(i - 1)
    BY BlocksAre
  <1>4. Fits(e, Blocks(i + 1, i), form) BY <1>1, <1>2, <1>3 DEF Fits
  <1>5. After(Blocks(i + 1, i), e) = Blocks(i + 1, i + 1) BY <1>1, <1>2 DEF After, Blocks
  <1> QED BY <1>1, <1>4, <1>5

LEMMA ItemsFits ==
  ASSUME NEW z, NEW s, NEW y, Emits(z, s, y), Shut(s, y), NEW calls \in Seq(Bits)
  PROVE  \E x \in View :
           Emits(z, Items(s, calls), x) /\ Same(s, Items(s, calls)) /\ Shut(Items(s, calls), x)
  <1> DEFINE m == Len(s.blocks)
             c == Len(calls)
             Of(n) == (n - 1) \div 3 + 1
             At(n) == m + Of(n) - 1
             A(n) == (n + 2) \div 3
             B(n) == n \div 3
             q == [n \in 1..3 * c |->
                     CASE n % 3 = 1 -> Event("start", At(n), <<>>)
                       [] n % 3 = 2 -> Event("delta", At(n), <<calls[Of(n)]>>)
                       [] OTHER     -> Event("stop", At(n), <<>>)]
             f == [n \in 0..3 * c |-> Blocks(m + A(n), m + B(n))]
             b == [i \in DOMAIN calls |-> "item"]
             t == Items(s, calls)
  <1>1. s \in Generator /\ y \in View /\ z \in View /\ Leads(z, s.queue, y, s.api) BY DEF Emits
  <1>2. m \in Nat /\ s.queue \in Seq(Spoken) /\ s.blocks \in Seq(Kinds) BY <1>1, GeneratorFields
  <1>3. /\ y.begun /\ ~ y.ended /\ y.starts = m /\ y.stops = m /\ y.shut = 0..(m - 1)
        /\ s.api # "chat" /\ s.kind = None
    BY DEF Shut
  <1>4. c \in Nat /\ DOMAIN calls = 1..c /\ \A i \in 1..c : calls[i] \in Bits OBVIOUS
  <1>5. t = [s EXCEPT !.blocks = s.blocks \o b, !.queue = s.queue \o q] BY DEF Items
  <1>6. q = [n \in 1..3 * c |-> q[n]] OBVIOUS
  <1>7. \A n \in 1..3 * c :
          /\ n % 3 = 1 => q[n] = Event("start", At(n), <<>>)
          /\ n % 3 = 2 => q[n] = Event("delta", At(n), <<calls[Of(n)]>>)
          /\ n % 3 = 0 => q[n] = Event("stop", At(n), <<>>)
    OBVIOUS
  <1>8. /\ f = [n \in 0..3 * c |-> f[n]]
        /\ \A n \in 0..3 * c : f[n] = Blocks(m + A(n), m + B(n))
    OBVIOUS
  <1>9. b \in Seq(Kinds) /\ Len(b) = c
    <2>1. b = [i \in 1..c |-> b[i]] /\ \A i \in 1..c : b[i] \in Kinds BY <1>4 DEF Kinds
    <2> QED BY <1>4, <2>1, ListOf
  <1>25. \A n \in Nat : A(n) \in Nat /\ B(n) \in Nat OBVIOUS
  <1> HIDE DEF q, f, b, m, c, A, B
  <1>10. 3 * c \in Nat BY <1>4
  <1>11. \A n \in 0..3 * c : f[n] \in View
    <2> TAKE n \in 0..3 * c
    <2>1. n \in Nat /\ A(n) \in Nat /\ B(n) \in Nat BY <1>10, <1>25
    <2>2. m + A(n) \in Nat /\ m + B(n) \in Nat BY <1>2, <2>1
    <2>3. f[n] = Blocks(m + A(n), m + B(n)) BY <1>8
    <2> QED BY <2>2, <2>3, BlocksAre
  <1>12. ASSUME NEW n \in 1..3 * c
         PROVE  q[n] \in Spoken /\ Fits(q[n], f[n - 1], s.api) /\ f[n] = After(f[n - 1], q[n])
    <2>1. n \in Nat \ {0} /\ n - 1 \in 0..3 * c /\ n \in 0..3 * c BY <1>10
    <2>2. PICK k \in Nat :
           \/ /\ n = 3 * k + 1 /\ n % 3 = 1 /\ (n - 1) \div 3 = k /\ (n + 1) \div 3 = k
              /\ (n + 2) \div 3 = k + 1 /\ n \div 3 = k
           \/ /\ n = 3 * k + 2 /\ n % 3 = 2 /\ (n - 1) \div 3 = k /\ (n + 1) \div 3 = k + 1
              /\ (n + 2) \div 3 = k + 1 /\ n \div 3 = k
           \/ /\ n = 3 * k + 3 /\ n % 3 = 0 /\ (n - 1) \div 3 = k /\ (n + 1) \div 3 = k + 1
              /\ (n + 2) \div 3 = k + 1 /\ n \div 3 = k + 1
      BY <2>1, Thirds
    <2>3. Of(n) = k + 1 /\ At(n) = m + k BY <1>2, <2>2
    <2>4. k + 1 \in 1..c BY <1>4, <1>10, <2>1, <2>2
    <2>5. /\ n % 3 = 1 => A(n - 1) = k /\ B(n - 1) = k /\ A(n) = k + 1 /\ B(n) = k
          /\ n % 3 = 2 => A(n - 1) = k + 1 /\ B(n - 1) = k /\ A(n) = k + 1 /\ B(n) = k
          /\ n % 3 = 0 => A(n - 1) = k + 1 /\ B(n - 1) = k /\ A(n) = k + 1 /\ B(n) = k + 1
      <3>1. (n - 1) + 2 = n + 1 BY <2>1
      <3> QED BY <2>2, <3>1 DEF A, B
    <2>6. f[n - 1] = Blocks(m + A(n - 1), m + B(n - 1)) /\ f[n] = Blocks(m + A(n), m + B(n))
      BY <1>8, <2>1
    <2> PICK i \in Nat : i = m + k BY <1>2
    <2>7. m + k = i /\ m + (k + 1) = i + 1 BY <1>2
    <2> HIDE DEF At, Of
    <2>9. CASE n % 3 = 1
      <3>1. m + A(n - 1) = i /\ m + B(n - 1) = i /\ m + A(n) = i + 1 /\ m + B(n) = i
        BY <2>5, <2>7, <2>9
      <3>2. f[n - 1] = Blocks(i, i) /\ f[n] = Blocks(i + 1, i) BY <2>6, <3>1
      <3>3. q[n] = Event("start", i, <<>>) BY <1>7, <2>3, <2>9
      <3> QED BY <3>2, <3>3, BlocksStart
    <2>10. CASE n % 3 = 2
      <3>1. m + A(n - 1) = i + 1 /\ m + B(n - 1) = i /\ m + A(n) = i + 1 /\ m + B(n) = i
        BY <2>5, <2>7, <2>10
      <3>2. f[n - 1] = Blocks(i + 1, i) /\ f[n] = Blocks(i + 1, i) BY <2>6, <3>1
      <3>3. q[n] = Event("delta", i, <<calls[k + 1]>>) BY <1>7, <2>3, <2>10
      <3>4. calls[k + 1] \in Bits BY <1>4, <2>4
      <3> QED BY <3>2, <3>3, <3>4, BlocksDelta
    <2>11. CASE n % 3 = 0
      <3>1. m + A(n - 1) = i + 1 /\ m + B(n - 1) = i /\ m + A(n) = i + 1 /\ m + B(n) = i + 1
        BY <2>5, <2>7, <2>11
      <3>2. f[n - 1] = Blocks(i + 1, i) /\ f[n] = Blocks(i + 1, i + 1) BY <2>6, <3>1
      <3>3. q[n] = Event("stop", i, <<>>) BY <1>7, <2>3, <2>11
      <3> QED BY <3>2, <3>3, BlocksStop
    <2> QED BY <2>2, <2>9, <2>10, <2>11
  <1>13. q \in Seq(Spoken) /\ Len(q) = 3 * c BY <1>6, <1>10, <1>12, ListOf
  <1>14. f \in [0..Len(q) -> View] BY <1>8, <1>11, <1>13
  <1>15. f[0] = y
    <2>1. 0 \in 0..3 * c /\ A(0) = 0 /\ B(0) = 0 /\ m + 0 = m BY <1>2, <1>10 DEF A, B
    <2>2. f[0] = Blocks(m, m) BY <1>8, <2>1
    <2>3. y = [begun |-> y.begun, ended |-> y.ended, starts |-> y.starts, stops |-> y.stops,
               shut |-> y.shut] /\ y.begun \in BOOLEAN /\ y.ended \in BOOLEAN BY <1>1 DEF View
    <2>4. y = [begun |-> TRUE, ended |-> FALSE, starts |-> m, stops |-> m, shut |-> 0..(m - 1)]
      BY <1>3, <2>3
    <2> QED BY <2>2, <2>4 DEF Blocks
  <1>16. PICK x \in View : x = f[3 * c] BY <1>10, <1>11
  <1> PICK j \in Nat : j = m + c BY <1>2, <1>4
  <1>17. /\ x.begun /\ ~ x.ended /\ x.starts = j /\ x.stops = j
         /\ x.shut = 0..(j - 1)
    <2>1. A(3 * c) = c /\ B(3 * c) = c /\ 3 * c \in 0..3 * c BY <1>4 DEF A, B
    <2>2. x = Blocks(j, j) BY <1>8, <1>16, <2>1
    <2> QED BY <2>2, BlocksAre
  <1>18. Leads(y, q, x, s.api)
    <2>1. Steps(f, q, s.api) BY <1>12, <1>13 DEF Steps
    <2> QED BY <1>13, <1>14, <1>15, <1>16, <2>1 DEF Leads
  <1>19. s.queue \o q \in Seq(Spoken) BY <1>2, <1>13
  <1>20. s.blocks \o b \in Seq(Kinds) /\ Len(s.blocks \o b) = j
    <2>1. PICK p \in Seq(Kinds) : p = s.blocks BY <1>2
    <2>2. PICK r \in Seq(Kinds) : r = b BY <1>9
    <2>3. p \o r \in Seq(Kinds) /\ Len(p \o r) = Len(p) + Len(r) OBVIOUS
    <2>4. Len(p) = m BY <2>1 DEF m
    <2> QED BY <1>9, <2>1, <2>2, <2>3, <2>4
  <1>21. /\ t \in Generator /\ Same(s, t) /\ t.queue = s.queue \o q
         /\ t.kind = s.kind /\ Len(t.blocks) = j
    BY <1>1, <1>5, <1>19, <1>20 DEF Generator, Same
  <1> HIDE DEF t
  <1>22. t.api = s.api BY <1>21 DEF Same
  <1>23. Emits(z, t, x) BY <1>13, <1>16, <1>18, <1>21, <1>22, Appends
  <1>24. Shut(t, x) BY <1>3, <1>17, <1>21, <1>22 DEF Shut
  <1> QED BY <1>16, <1>21, <1>23, <1>24 DEF t

\* The calls of a chat: deltas, which have no block.
LEMMA ChatCallsFit ==
  ASSUME NEW z, NEW s, NEW y, Emits(z, s, y), s.api = "chat", Even(y), NEW calls \in Seq(Bits)
  PROVE  LET t == [s EXCEPT !.queue = @ \o [i \in DOMAIN calls |-> Event("delta", 0, <<calls[i]>>)]]
         IN  Emits(z, t, y) /\ Same(s, t)
  <1> DEFINE c == Len(calls)
             q == [i \in DOMAIN calls |-> Event("delta", 0, <<calls[i]>>)]
             f == [i \in 0..c |-> y]
             t == [s EXCEPT !.queue = s.queue \o q]
  <1>1. s \in Generator /\ y \in View /\ z \in View /\ Leads(z, s.queue, y, s.api) BY DEF Emits
  <1>2. c \in Nat /\ DOMAIN calls = 1..c /\ \A i \in 1..c : calls[i] \in Bits OBVIOUS
  <1>3. q = [i \in 1..c |-> q[i]] /\ \A i \in 1..c : q[i] = Event("delta", 0, <<calls[i]>>)
    BY <1>2
  <1> HIDE DEF q, c
  <1>4. ASSUME NEW i \in 1..c
        PROVE  q[i] \in Spoken /\ Fits(q[i], y, s.api) /\ After(y, q[i]) = y
    <2>1. <<calls[i]>> \in Seq(Bits) BY <1>2
    <2>2. y.begun /\ ~ y.ended BY DEF Even
    <2>3. 0 \in Nat /\ y \in View /\ q[i] = Event("delta", 0, <<calls[i]>>) BY <1>1, <1>3
    <2>4. s.api # "chat" => 0 < y.starts /\ 0 \notin y.shut OBVIOUS
    <2> HIDE DEF t
    <2> QED BY <2>1, <2>2, <2>3, <2>4, DeltaFits
  <1>5. q \in Seq(Spoken) /\ Len(q) = c BY <1>2, <1>3, <1>4, ListOf
  <1>6. Leads(y, q, y, s.api)
    <2>1. f \in [0..c -> View] /\ \A i \in 0..c : f[i] = y BY <1>1
    <2>2. 0 \in 0..c /\ c \in 0..c /\ \A i \in 1..c : i \in 0..c /\ i - 1 \in 0..c BY <1>2
    <2> HIDE DEF f
    <2>3. Steps(f, q, s.api) BY <1>4, <1>5, <2>1, <2>2 DEF Steps
    <2> QED BY <1>5, <2>1, <2>2, <2>3 DEF Leads
  <1>7. s.queue \o q \in Seq(Spoken)
    <2>1. s.queue \in Seq(Spoken) BY <1>1, GeneratorFields
    <2> QED BY <1>5, <2>1
  <1>8. t \in Generator /\ Same(s, t) /\ t.queue = s.queue \o q
    BY <1>1, <1>7 DEF Generator, Same
  <1> HIDE DEF t
  <1>9. t.api = s.api BY <1>8 DEF Same
  <1>10. Emits(z, t, y) BY <1>1, <1>5, <1>6, <1>8, <1>9, Appends
  <1> QED BY <1>8, <1>10 DEF t, q

LEMMA SameIsSame ==
  ASSUME NEW s, NEW t, NEW u, Same(s, t), Same(t, u)
  PROVE  Same(s, u)
  BY DEF Same

\* A turn without blocks that are open.
LEMMA ClosesEven ==
  ASSUME NEW z, NEW s, NEW y, Emits(z, s, y), Apt(s, y)
  PROVE  \E x \in View :
           /\ Emits(z, Closes(s), x) /\ Same(s, Closes(s)) /\ Even(x)
           /\ s.api # "chat" => Shut(Closes(s), x)
  <1>1. PICK t : t = Closes(s) OBVIOUS
  <1>2. PICK x \in View :
          /\ Emits(z, t, x) /\ Same(s, t)
          /\ s.api # "chat" => Shut(t, x)
          /\ s.api # "responses" => Apt(t, x)
    BY <1>1, ClosesFits
  <1>3. Even(x)
    <2>1. CASE s.api # "chat" BY <1>2, <2>1 DEF Shut, Even
    <2>2. CASE s.api = "chat"
      <3>1. t.api = "chat" BY <1>2, <2>2 DEF Same
      <3>2. x.begun /\ ~ x.ended /\ x.starts = Len(t.blocks) /\ t.blocks = <<>> /\ x.stops = 0
        BY <1>2, <2>2, <3>1 DEF Apt
      <3> QED BY <3>2 DEF Even
    <2> QED BY <2>1, <2>2
  <1> QED BY <1>1, <1>2, <1>3

LEMMA ShutIsEven ==
  ASSUME NEW s, NEW y, Shut(s, y)
  PROVE  Even(y)
  BY DEF Shut, Even

LEMMA PlainFits ==
  ASSUME NEW z, NEW s, NEW y, Emits(z, s, y), Apt(s, y)
  PROVE  \E x \in View : Emits(z, Plain(s), x) /\ Same(s, Plain(s)) /\ Even(x)
  <1>1. s \in Generator /\ y \in View BY DEF Emits
  <1>2. s.raw \in Seq(Bits) /\ Cut(s.raw) \in Seq(Bits) BY <1>1, GeneratorFields, CutIsText
  <1>3. PICK text \in Seq(Bits) : text = (IF s.api = "responses" THEN s.raw ELSE Cut(s.raw))
    BY <1>2
  <1>4. "text" \in Kinds BY DEF Kinds
  <1>5. PICK t : t = (IF text # <<>> THEN Says(s, "text", text)
                      ELSE IF s.api = "chat" THEN s ELSE Opens(s, "text"))
    OBVIOUS
  <1>6. \E x \in View : Emits(z, t, x) /\ Same(s, t) /\ Apt(t, x)
    <2>1. CASE text # <<>>
      <3>1. t = Says(s, "text", text) BY <1>5, <2>1
      <3> QED BY <1>4, <3>1, SaysFits
    <2>2. CASE text = <<>> /\ s.api = "chat"
      <3>1. t = s /\ Same(s, s) BY <1>5, <2>2 DEF Same
      <3> QED BY <1>1, <3>1
    <2>3. CASE text = <<>> /\ s.api # "chat"
      <3>1. t = Opens(s, "text") BY <1>5, <2>3
      <3> QED BY <1>4, <3>1, OpensFits
    <2> QED BY <2>1, <2>2, <2>3
  <1>7. \E x \in View : Emits(z, Closes(t), x) /\ Same(t, Closes(t)) /\ Even(x)
    BY <1>6, ClosesEven
  <1>8. Plain(s) = Closes(t) BY <1>3, <1>5 DEF Plain
  <1> QED BY <1>6, <1>7, <1>8, SameIsSame

\* A chat emits no block: what may follow is even.
LEMMA ChatIsEven ==
  ASSUME NEW s, NEW y, s.api = "chat", Apt(s, y)
  PROVE  Even(y)
  <1>1. y.begun /\ ~ y.ended /\ y.starts = Len(s.blocks) /\ s.blocks = <<>> /\ y.stops = 0
    BY DEF Apt
  <1> QED BY <1>1 DEF Even

LEMMA ChatAnswerFits ==
  ASSUME NEW z, NEW s, NEW y, Emits(z, s, y), Apt(s, y), s.api = "chat"
  PROVE  \E x \in View : Emits(z, ChatAnswer(s), x) /\ Same(s, ChatAnswer(s)) /\ Even(x)
  <1>1. s \in Generator /\ y \in View BY DEF Emits
  <1>2. PICK c \in Seq(Bits), w \in Seq(Bits) : c = Calls(s) /\ w = Words(s) BY <1>1, PiecesOf
  <1>3. Cut(w) \in Seq(Bits) BY CutIsText
  <1>4. "text" \in Kinds BY DEF Kinds
  <1>5. CASE c = <<>>
    <2>1. ChatAnswer(s) = Says(s, "text", Cut(w)) BY <1>2, <1>5 DEF ChatAnswer
    <2>2. PICK t : t = Says(s, "text", Cut(w)) OBVIOUS
    <2>3. PICK x \in View : Emits(z, t, x) /\ Same(s, t) /\ Apt(t, x)
      BY <1>3, <1>4, <2>2, SaysFits
    <2>4. t.api = "chat" BY <2>3 DEF Same
    <2>5. Even(x) BY <2>3, <2>4, ChatIsEven
    <2> QED BY <2>1, <2>2, <2>3, <2>5
  <1>6. CASE c # <<>>
    <2>1. PICK t : t = IF w = <<>> THEN s ELSE Says(s, "text", w) OBVIOUS
    <2>2. PICK x \in View : Emits(z, t, x) /\ Same(s, t) /\ Apt(t, x)
      <3>1. CASE w = <<>>
        <4>1. t = s /\ Same(s, s) BY <2>1, <3>1 DEF Same
        <4> QED BY <1>1, <4>1
      <3>2. CASE w # <<>>
        <4>1. t = Says(s, "text", w) BY <2>1, <3>2
        <4> QED BY <1>4, <4>1, SaysFits
      <3> QED BY <3>1, <3>2
    <2>3. t.api = "chat" BY <2>2 DEF Same
    <2>4. Even(x) BY <2>2, <2>3, ChatIsEven
    <2>5. PICK u : u = [t EXCEPT !.queue = @ \o [i \in DOMAIN c |-> Event("delta", 0, <<c[i]>>)]]
      OBVIOUS
    <2>6. Emits(z, u, x) /\ Same(t, u) BY <2>2, <2>3, <2>4, <2>5, ChatCallsFit
    <2>7. ChatAnswer(s) = u BY <1>2, <1>6, <2>1, <2>5 DEF ChatAnswer
    <2> QED BY <2>2, <2>4, <2>6, <2>7, SameIsSame
  <1> QED BY <1>5, <1>6

LEMMA AnthropicAnswerFits ==
  ASSUME NEW z, NEW s, NEW y, Emits(z, s, y), Apt(s, y), s.api = "messages"
  PROVE  \E x \in View :
           Emits(z, AnthropicAnswer(s), x) /\ Same(s, AnthropicAnswer(s)) /\ Even(x)
  <1>1. s \in Generator /\ y \in View BY DEF Emits
  <1>2. PICK c \in Seq(Bits), w \in Seq(Bits) : c = Calls(s) /\ w = Words(s) BY <1>1, PiecesOf
  <1>3. PICK text \in Seq(Bits) : text = Cut(w) BY CutIsText
  <1>4. "text" \in Kinds BY DEF Kinds
  <1>5. PICK t : t = IF text = <<>> THEN Opens(s, "text") ELSE Says(s, "text", text) OBVIOUS
  <1>6. PICK y1 \in View : Emits(z, t, y1) /\ Same(s, t) /\ Apt(t, y1)
    <2>1. CASE text # <<>>
      <3>1. t = Says(s, "text", text) BY <1>5, <2>1
      <3> QED BY <1>4, <3>1, SaysFits
    <2>2. CASE text = <<>>
      <3>1. t = Opens(s, "text") BY <1>5, <2>2
      <3> QED BY <1>4, <3>1, OpensFits
    <2> QED BY <2>1, <2>2
  <1>7. PICK u : u = Closes(t) OBVIOUS
  <1>8. t.api = "messages" BY <1>6 DEF Same
  <1>9. PICK y2 \in View : Emits(z, u, y2) /\ Same(t, u) /\ Shut(u, y2)
    BY <1>6, <1>7, <1>8, ClosesEven
  <1>10. PICK x \in View : Emits(z, Items(u, c), x) /\ Same(u, Items(u, c)) /\ Shut(Items(u, c), x)
    BY <1>9, ItemsFits
  <1>11. AnthropicAnswer(s) = Items(u, c) BY <1>2, <1>3, <1>5, <1>7 DEF AnthropicAnswer
  <1>12. Even(x) BY <1>10, ShutIsEven
  <1>13. Same(s, Items(u, c)) BY <1>6, <1>9, <1>10, SameIsSame
  <1> QED BY <1>10, <1>11, <1>12, <1>13

LEMMA ResponsesAnswerFits ==
  ASSUME NEW z, NEW s, NEW y, Emits(z, s, y), Apt(s, y), s.api = "responses"
  PROVE  \E x \in View :
           Emits(z, ResponsesAnswer(s), x) /\ Same(s, ResponsesAnswer(s)) /\ Even(x)
  <1>1. s \in Generator /\ y \in View BY DEF Emits
  <1>2. PICK c \in Seq(Bits), w \in Seq(Bits) : c = Calls(s) /\ w = Words(s) BY <1>1, PiecesOf
  <1>3. PICK t : t = Closes(s) OBVIOUS
  <1>4. PICK y1 \in View : Emits(z, t, y1) /\ Same(s, t) /\ Shut(t, y1)
    BY <1>3, ClosesEven
  <1>5. PICK u : u = IF w # <<>> \/ c = <<>> THEN Item(t, w) ELSE t OBVIOUS
  <1>6. PICK y2 \in View : Emits(z, u, y2) /\ Same(t, u) /\ Shut(u, y2)
    <2>1. CASE w # <<>> \/ c = <<>>
      <3>1. u = Item(t, w) BY <1>5, <2>1
      <3> QED BY <1>4, <3>1, ItemFits
    <2>2. CASE ~ (w # <<>> \/ c = <<>>)
      <3>1. u = t /\ Same(t, t) BY <1>5, <2>2 DEF Same
      <3> QED BY <1>4, <3>1
    <2> QED BY <2>1, <2>2
  <1>10. PICK x \in View : Emits(z, Items(u, c), x) /\ Same(u, Items(u, c)) /\ Shut(Items(u, c), x)
    BY <1>6, ItemsFits
  <1>11. ResponsesAnswer(s) = Items(u, c) BY <1>2, <1>3, <1>5 DEF ResponsesAnswer
  <1>12. Even(x) BY <1>10, ShutIsEven
  <1>13. Same(s, Items(u, c)) BY <1>4, <1>6, <1>10, SameIsSame
  <1> QED BY <1>10, <1>11, <1>12, <1>13

\* The last event.
LEMMA FinishFits ==
  ASSUME NEW z, NEW s, NEW y, Emits(z, s, y), y.begun, ~ y.ended
  PROVE  \E x \in View :
           /\ Emits(z, Finishes(s), x) /\ Same(s, Finishes(s))
           /\ x.begun /\ x.ended /\ x.starts = y.starts /\ x.stops = y.stops
  <1> DEFINE e == Event("finish", 0, <<>>)
             t == Finishes(s)
  <1>1. s \in Generator /\ y \in View /\ z \in View /\ Leads(z, s.queue, y, s.api) BY DEF Emits
  <1>2. s.queue \in Seq(Spoken) BY <1>1, GeneratorFields
  <1>3. e \in Spoken /\ e.type = "finish" BY MarkIsSpoken
  <1>4. t = [s EXCEPT !.queue = Append(s.queue, e)] BY DEF Finishes
  <1> HIDE DEF e
  <1>5. Fits(e, y, s.api) BY <1>3 DEF Fits
  <1>6. PICK x : x = After(y, e) OBVIOUS
  <1>7. x \in View /\ Append(s.queue, e) \in Seq(Spoken) /\ Leads(z, Append(s.queue, e), x, s.api)
    BY <1>1, <1>2, <1>3, <1>5, <1>6, OneMore
  <1>8. x.begun /\ x.ended /\ x.starts = y.starts /\ x.stops = y.stops
    BY <1>3, <1>6 DEF After
  <1>9. t \in Generator /\ Same(s, t) /\ t.queue = Append(s.queue, e)
    BY <1>1, <1>4, <1>7 DEF Generator, Same
  <1> HIDE DEF t
  <1>10. t.api = s.api BY <1>9 DEF Same
  <1>11. Emits(z, t, x) BY <1>1, <1>7, <1>9, <1>10 DEF Emits
  <1> QED BY <1>7, <1>8, <1>9, <1>11 DEF t

\* What upstream's end leaves: a reply that ends, all blocks of which are shut
\* if the turn succeeded.
Ending(z, s, t) ==
  /\ t.open = FALSE /\ t.api = s.api /\ t.seq = s.seq
  /\ \E x \in View : Emits(z, t, x) /\ x.begun /\ x.ended /\ (t.ok => x.starts = x.stops)

LEMMA CompletedEnds ==
  ASSUME NEW z, NEW s, NEW y, Emits(z, s, y), Apt(s, y)
  PROVE  Ending(z, s, [Completed(s) EXCEPT !.open = FALSE])
  <1>1. s.api \in {"chat", "messages", "responses"} BY GeneratorFields DEF Emits
  <1>2. PICK t : t = (IF ~ s.tools THEN Plain(s)
                      ELSE CASE s.api = "chat" -> ChatAnswer(s)
                             [] s.api = "messages" -> AnthropicAnswer(s)
                             [] s.api = "responses" -> ResponsesAnswer(s))
    OBVIOUS
  <1>3. PICK y1 \in View : Emits(z, t, y1) /\ Same(s, t) /\ Even(y1)
    <2>1. CASE ~ s.tools
      <3>1. t = Plain(s) BY <1>2, <2>1
      <3> QED BY <3>1, PlainFits
    <2>2. CASE s.tools /\ s.api = "chat"
      <3>1. t = ChatAnswer(s) BY <1>2, <2>2
      <3> QED BY <2>2, <3>1, ChatAnswerFits
    <2>3. CASE s.tools /\ s.api = "messages"
      <3>1. t = AnthropicAnswer(s) BY <1>2, <2>3
      <3> QED BY <2>3, <3>1, AnthropicAnswerFits
    <2>4. CASE s.tools /\ s.api = "responses"
      <3>1. t = ResponsesAnswer(s) BY <1>2, <2>4
      <3> QED BY <2>4, <3>1, ResponsesAnswerFits
    <2> QED BY <1>1, <2>1, <2>2, <2>3, <2>4
  <1>4. PICK u : u = Finishes(t) OBVIOUS
  <1>5. y1.begun /\ ~ y1.ended /\ y1.stops = y1.starts BY <1>3 DEF Even
  <1>6. PICK x \in View :
          Emits(z, u, x) /\ Same(t, u) /\ x.begun /\ x.ended /\ x.starts = x.stops
    BY <1>3, <1>4, <1>5, FinishFits
  <1>7. PICK v : v = [[u EXCEPT !.ok = TRUE] EXCEPT !.open = FALSE] OBVIOUS
  <1>8. [Completed(s) EXCEPT !.open = FALSE] = v BY <1>2, <1>4, <1>7 DEF Completed
  <1>9. /\ v \in Generator /\ v.queue = u.queue /\ v.api = u.api /\ v.open = FALSE
        /\ v.seq = u.seq
    BY <1>6, <1>7 DEF Emits, Generator
  <1>10. Emits(z, v, x) BY <1>6, <1>9 DEF Emits
  <1>11. v.api = s.api /\ v.seq = s.seq BY <1>3, <1>6, <1>9 DEF Same
  <1> QED BY <1>6, <1>8, <1>9, <1>10, <1>11 DEF Ending

LEMMA FailedEnds ==
  ASSUME NEW z, NEW s, NEW y, Emits(z, s, y), Apt(s, y), s.ok = FALSE, NEW cause
  PROVE  Ending(z, s, [Failed(s, cause) EXCEPT !.open = FALSE])
  <1>1. s \in Generator /\ y \in View BY DEF Emits
  <1>2. s.api \in {"chat", "messages", "responses"} /\ s.raw \in Seq(Bits)
    BY <1>1, GeneratorFields
  <1>3. "text" \in Kinds /\ <<"error">> \in Seq(Bits) /\ Append(s.raw, "error") \in Seq(Bits)
    BY <1>2 DEF Kinds, Bits
  <1>4. Same(s, s) BY DEF Same
  <1>5. \E t : /\ Failed(s, cause) = Finishes(t)
                /\ \E y1 \in View : Emits(z, t, y1) /\ Same(s, t) /\ y1.begun /\ ~ y1.ended
    <2>1. CASE s.api = "chat"
      <3>1. PICK text \in Seq(Bits) :
              text = IF s.tools THEN Append(s.raw, "error") ELSE <<"error">>
        BY <1>3
      <3>2. PICK t : t = Says(s, "text", text) OBVIOUS
      <3>3. \E y1 \in View : Emits(z, t, y1) /\ Same(s, t) /\ Apt(t, y1)
        BY <1>3, <3>2, SaysFits
      <3>4. Failed(s, cause) = Finishes(t) BY <2>1, <3>1, <3>2 DEF Failed, ChatFails
      <3> QED BY <3>3, <3>4 DEF Apt
    <2>2. CASE s.api = "messages"
      <3>1. PICK t : t = IF s.raw # <<>> /\ ~ s.tools THEN Says(s, "text", s.raw) ELSE s
        OBVIOUS
      <3>2. PICK y1 \in View : Emits(z, t, y1) /\ Same(s, t) /\ Apt(t, y1)
        <4>1. CASE s.raw # <<>> /\ ~ s.tools
          <5>1. t = Says(s, "text", s.raw) BY <3>1, <4>1
          <5> QED BY <1>2, <1>3, <5>1, SaysFits
        <4>2. CASE ~ (s.raw # <<>> /\ ~ s.tools)
          <5>1. t = s BY <3>1, <4>2
          <5> QED BY <1>1, <1>4, <5>1
        <4> QED BY <4>1, <4>2
      <3>3. PICK u : u = IF cause = "other" THEN Says(t, "text", <<"error">>) ELSE t OBVIOUS
      <3>4. PICK y2 \in View : Emits(z, u, y2) /\ Same(s, u) /\ Apt(u, y2)
        <4>1. CASE cause = "other"
          <5>1. u = Says(t, "text", <<"error">>) BY <3>3, <4>1
          <5>2. \E x \in View : Emits(z, u, x) /\ Same(t, u) /\ Apt(u, x)
            BY <1>3, <3>2, <5>1, SaysFits
          <5> QED BY <3>2, <5>2, SameIsSame
        <4>2. CASE cause # "other"
          <5>1. u = t BY <3>3, <4>2
          <5> QED BY <3>2, <5>1
        <4> QED BY <4>1, <4>2
      <3>5. PICK v : v = Closes(u) OBVIOUS
      <3>6. \E x \in View : Emits(z, v, x) /\ Same(u, v) /\ Even(x)
        BY <3>4, <3>5, ClosesEven
      <3>7. Failed(s, cause) = Finishes(v)
        BY <2>2, <3>1, <3>3, <3>5 DEF Failed, AnthropicFails
      <3> QED BY <3>4, <3>6, <3>7, SameIsSame DEF Even
    <2>3. CASE s.api = "responses"
      <3>1. Failed(s, cause) = Finishes(s) BY <2>3 DEF Failed
      <3>2. y.begun /\ ~ y.ended BY DEF Apt
      <3> QED BY <1>1, <1>4, <3>1, <3>2
    <2> QED BY <1>2, <2>1, <2>2, <2>3
  <1>6. PICK t : /\ Failed(s, cause) = Finishes(t)
                 /\ \E y1 \in View : Emits(z, t, y1) /\ Same(s, t) /\ y1.begun /\ ~ y1.ended
    BY <1>5
  <1>7. PICK u : u = Finishes(t) OBVIOUS
  <1>8. PICK x \in View : Emits(z, u, x) /\ Same(t, u) /\ x.begun /\ x.ended
    BY <1>6, <1>7, FinishFits
  <1>9. PICK v : v = [u EXCEPT !.open = FALSE] OBVIOUS
  <1>10. /\ v \in Generator /\ v.queue = u.queue /\ v.api = u.api /\ v.open = FALSE
         /\ v.seq = u.seq /\ v.ok = u.ok
    BY <1>8, <1>9 DEF Emits, Generator
  <1>11. Emits(z, v, x) BY <1>8, <1>10 DEF Emits
  <1>12. v.api = s.api /\ v.seq = s.seq /\ v.ok = FALSE BY <1>6, <1>8, <1>10 DEF Same
  <1> QED BY <1>6, <1>7, <1>8, <1>9, <1>10, <1>11, <1>12 DEF Ending
-----------------------------------------------------------------------------
(* What the client has: its events, the view they give, and their order.   *)

Wired == [type : {"begin", "start", "delta", "stop", "finish", "keepalive", "comment", "body"},
          at : Nat, text : Seq(Bits), n : Int]

Places(w, type) == {i \in DOMAIN w : w[i].type = type}

Counted(w) == DOMAIN w \ Places(w, "comment")

Tally(w) ==
  [begun |-> Places(w, "begin") # {}, ended |-> Places(w, "finish") # {},
   starts |-> Cardinality(Places(w, "start")), stops |-> Cardinality(Places(w, "stop")),
   shut |-> {w[i].at : i \in Places(w, "stop")}]

Before(w, type, i) == {j \in Places(w, type) : j < i}

NumbersOrdered(w) == \A i \in Counted(w) : w[i].n = Cardinality({j \in Counted(w) : j < i})

ExtendsOnlyBegun(w) == \A i \in Places(w, "keepalive") : \E b \in Places(w, "begin") : b < i

NothingAfterEnd(w) ==
  \A f \in Places(w, "finish"), i \in DOMAIN w : i > f => w[i].type = "comment"

StartsOrdered(w, form) ==
  \A i \in Places(w, "start") :
    /\ w[i].at = Cardinality(Before(w, "start", i))
    /\ form = "messages" => Cardinality(Before(w, "start", i)) = Cardinality(Before(w, "stop", i))

StartsFound(w) ==
  \A a \in 0..(Cardinality(Places(w, "start")) - 1) : \E j \in Places(w, "start") : w[j].at = a

WrittenWhileOpen(w, form) ==
  form # "chat" =>
    \A i \in Places(w, "delta") \cup Places(w, "stop") :
      /\ \E j \in Places(w, "start") : j < i /\ w[j].at = w[i].at
      /\ \A j \in Places(w, "stop") : w[j].at = w[i].at => j >= i

Orderly(w, form) ==
  /\ NumbersOrdered(w) /\ ExtendsOnlyBegun(w) /\ NothingAfterEnd(w)
  /\ StartsOrdered(w, form) /\ StartsFound(w) /\ WrittenWhileOpen(w, form)

LEMMA PlacesFinite ==
  ASSUME NEW w \in Seq(Wired), NEW type
  PROVE  /\ Places(w, type) \in SUBSET (1..Len(w))
         /\ IsFiniteSet(Places(w, type)) /\ Cardinality(Places(w, type)) \in Nat
         /\ Counted(w) \in SUBSET (1..Len(w))
         /\ IsFiniteSet(Counted(w)) /\ Cardinality(Counted(w)) \in Nat
  <1>1. Len(w) \in Nat /\ DOMAIN w = 1..Len(w) OBVIOUS
  <1>2. Places(w, type) \in SUBSET (1..Len(w)) /\ Counted(w) \in SUBSET (1..Len(w))
    BY <1>1 DEF Places, Counted
  <1> QED BY <1>1, <1>2, PositionsFinite

Longer(w, e, v) == w \in Seq(Wired) /\ e \in Wired /\ v = Append(w, e)

LEMMA WireAppend ==
  ASSUME NEW w, NEW e, NEW v, Longer(w, e, v)
  PROVE  /\ w \in Seq(Wired) /\ e \in Wired /\ v \in Seq(Wired)
         /\ Len(w) \in Nat /\ Len(v) = Len(w) + 1
         /\ DOMAIN w = 1..Len(w) /\ DOMAIN v = 1..(Len(w) + 1)
         /\ v[Len(w) + 1] = e /\ \A i \in 1..Len(w) : v[i] = w[i]
  BY DEF Longer

LEMMA PlacesGrow ==
  ASSUME NEW w, NEW e, NEW v, Longer(w, e, v)
  PROVE  \A type :
         /\ Places(v, type) = IF e.type = type THEN Places(w, type) \cup {Len(w) + 1}
                              ELSE Places(w, type)
         /\ Cardinality(Places(v, type)) =
              Cardinality(Places(w, type)) + (IF e.type = type THEN 1 ELSE 0)
         /\ Before(v, type, Len(w) + 1) = Places(w, type)
         /\ \A i \in 1..Len(w) : Before(v, type, i) = Before(w, type, i)
  <1> TAKE type
  <1>1. w \in Seq(Wired) /\ Len(w) \in Nat /\ DOMAIN w = 1..Len(w) /\ DOMAIN v = 1..(Len(w) + 1)
        /\ v[Len(w) + 1] = e /\ \A i \in 1..Len(w) : v[i] = w[i]
    BY WireAppend
  <1>2. /\ Places(w, type) \in SUBSET (1..Len(w)) /\ IsFiniteSet(Places(w, type))
        /\ Cardinality(Places(w, type)) \in Nat
    BY <1>1, PlacesFinite
  <1>3. Places(v, type) = IF e.type = type THEN Places(w, type) \cup {Len(w) + 1}
                          ELSE Places(w, type)
    <2>1. \A i : i \in 1..(Len(w) + 1) <=> i \in 1..Len(w) \/ i = Len(w) + 1 BY <1>1
    <2>2. Len(w) + 1 \notin 1..Len(w) BY <1>1
    <2> QED BY <1>1, <2>1, <2>2 DEF Places
  <1>4. Len(w) + 1 \notin Places(w, type) BY <1>1, <1>2
  <1>5. Cardinality(Places(w, type) \cup {Len(w) + 1}) = Cardinality(Places(w, type)) + 1
    BY <1>2, <1>4, FS_AddElement
  <1>6. \A j \in 1..Len(w) : j < Len(w) + 1 BY <1>1
  <1>7. \A i \in 1..Len(w) : ~ (Len(w) + 1 < i) BY <1>1
  <1>8. ~ (Len(w) + 1 < Len(w) + 1) BY <1>1
  <1>9. Before(v, type, Len(w) + 1) = Places(w, type) BY <1>2, <1>3, <1>6, <1>8 DEF Before
  <1>10. \A i \in 1..Len(w) : Before(v, type, i) = Before(w, type, i)
    BY <1>3, <1>7 DEF Before
  <1> QED BY <1>2, <1>3, <1>5, <1>9, <1>10

LEMMA CountedGrows ==
  ASSUME NEW w, NEW e, NEW v, Longer(w, e, v)
  PROVE  /\ Counted(v) = IF e.type = "comment" THEN Counted(w)
                         ELSE Counted(w) \cup {Len(w) + 1}
         /\ Cardinality(Counted(v)) =
              Cardinality(Counted(w)) + (IF e.type = "comment" THEN 0 ELSE 1)
         /\ {j \in Counted(v) : j < Len(w) + 1} = Counted(w)
         /\ \A i \in 1..Len(w) : {j \in Counted(v) : j < i} = {j \in Counted(w) : j < i}
  <1>1. w \in Seq(Wired) /\ Len(w) \in Nat /\ DOMAIN w = 1..Len(w) /\ DOMAIN v = 1..(Len(w) + 1)
        /\ v[Len(w) + 1] = e /\ \A i \in 1..Len(w) : v[i] = w[i]
    BY WireAppend
  <1>2. /\ Counted(w) \in SUBSET (1..Len(w)) /\ IsFiniteSet(Counted(w))
        /\ Cardinality(Counted(w)) \in Nat
    BY <1>1, PlacesFinite
  <1>3. Counted(v) = IF e.type = "comment" THEN Counted(w) ELSE Counted(w) \cup {Len(w) + 1}
    <2>1. \A i : i \in 1..(Len(w) + 1) <=> i \in 1..Len(w) \/ i = Len(w) + 1 BY <1>1
    <2>2. Len(w) + 1 \notin 1..Len(w) BY <1>1
    <2> QED BY <1>1, <2>1, <2>2 DEF Places, Counted
  <1>4. Len(w) + 1 \notin Counted(w) BY <1>1, <1>2
  <1>5. Cardinality(Counted(w) \cup {Len(w) + 1}) = Cardinality(Counted(w)) + 1
    BY <1>2, <1>4, FS_AddElement
  <1>6. \A j \in 1..Len(w) : j < Len(w) + 1 BY <1>1
  <1>7. \A i \in 1..Len(w) : ~ (Len(w) + 1 < i) BY <1>1
  <1>8. ~ (Len(w) + 1 < Len(w) + 1) BY <1>1
  <1>9. {j \in Counted(v) : j < Len(w) + 1} = Counted(w) BY <1>2, <1>3, <1>6, <1>8
  <1>10. \A i \in 1..Len(w) : {j \in Counted(v) : j < i} = {j \in Counted(w) : j < i}
    BY <1>3, <1>7
  <1> QED BY <1>2, <1>3, <1>5, <1>9, <1>10

\* An event more, which fits what was before it.
LEMMA TallyGrows ==
  ASSUME NEW w, NEW e, NEW v, Longer(w, e, v)
  PROVE  Tally(v) = After(Tally(w), e)
  <1>1. w \in Seq(Wired) /\ Len(w) \in Nat /\ DOMAIN w = 1..Len(w) /\ v[Len(w) + 1] = e
        /\ \A i \in 1..Len(w) : v[i] = w[i]
    BY WireAppend
  <1>2. \A type : Places(v, type) = IF e.type = type THEN Places(w, type) \cup {Len(w) + 1}
                                    ELSE Places(w, type)
    BY PlacesGrow
  <1>3. \A type : Cardinality(Places(v, type)) =
                    Cardinality(Places(w, type)) + (IF e.type = type THEN 1 ELSE 0)
    BY PlacesGrow
  <1>4. \A type : Places(w, type) \in SUBSET (1..Len(w)) /\ Cardinality(Places(w, type)) \in Nat
    BY <1>1, PlacesFinite
  <1>5. (Places(v, "begin") # {}) = (Tally(w).begun \/ e.type = "begin")
    <2>1. Tally(w).begun = (Places(w, "begin") # {}) BY DEF Tally
    <2> QED BY <1>2, <2>1
  <1>6. (Places(v, "finish") # {}) = (Tally(w).ended \/ e.type = "finish")
    <2>1. Tally(w).ended = (Places(w, "finish") # {}) BY DEF Tally
    <2> QED BY <1>2, <2>1
  <1>7. Cardinality(Places(v, "start")) =
          IF e.type = "start" THEN Tally(w).starts + 1 ELSE Tally(w).starts
    BY <1>3, <1>4 DEF Tally
  <1>8. Cardinality(Places(v, "stop")) =
          IF e.type = "stop" THEN Tally(w).stops + 1 ELSE Tally(w).stops
    BY <1>3, <1>4 DEF Tally
  <1>9. {v[i].at : i \in Places(v, "stop")} =
          IF e.type = "stop" THEN Tally(w).shut \cup {e.at} ELSE Tally(w).shut
    <2>1. Tally(w).shut = {w[i].at : i \in Places(w, "stop")} BY DEF Tally
    <2>2. {v[i].at : i \in Places(w, "stop")} = {w[i].at : i \in Places(w, "stop")} BY <1>1, <1>4
    <2>3. CASE e.type = "stop"
      <3>1. Places(v, "stop") = Places(w, "stop") \cup {Len(w) + 1} BY <1>2, <2>3
      <3>2. {v[i].at : i \in Places(v, "stop")} =
              {v[i].at : i \in Places(w, "stop")} \cup {v[Len(w) + 1].at}
        BY <3>1
      <3> QED BY <1>1, <2>1, <2>2, <2>3, <3>2
    <2>4. CASE e.type # "stop"
      <3>1. Places(v, "stop") = Places(w, "stop") BY <1>2, <2>4
      <3> QED BY <2>1, <2>2, <2>4, <3>1
    <2> QED BY <2>3, <2>4
  <1> QED BY <1>5, <1>6, <1>7, <1>8, <1>9 DEF Tally, After

LEMMA TallyIsView ==
  ASSUME NEW w \in Seq(Wired)
  PROVE  Tally(w) \in View
  <1>1. \A type : Places(w, type) \in SUBSET (1..Len(w)) /\ Cardinality(Places(w, type)) \in Nat
    BY PlacesFinite
  <1>2. \A i \in 1..Len(w) : w[i].at \in Nat
    <2> TAKE i \in 1..Len(w)
    <2>1. w[i] \in Wired OBVIOUS
    <2> QED BY <2>1 DEF Wired
  <1>3. {w[i].at : i \in Places(w, "stop")} \in SUBSET Nat BY <1>1, <1>2
  <1> QED BY <1>1, <1>3 DEF Tally, View

LEMMA OrderlyGrows ==
  ASSUME NEW w, NEW e, NEW v, Longer(w, e, v), NEW form,
         Orderly(w, form), Fits(e, Tally(w), form),
         e.type # "comment" => e.n = Cardinality(Counted(w))
  PROVE  Orderly(v, form)
  <1> PICK l : l = Len(w) + 1 OBVIOUS
  <1>1. w \in Seq(Wired) /\ e \in Wired /\ Len(w) \in Nat /\ l \in Nat
        /\ DOMAIN w = 1..Len(w) /\ DOMAIN v = 1..l
        /\ v[l] = e /\ (\A i \in 1..Len(w) : v[i] = w[i])
        /\ (\A i \in 1..Len(w) : i < l /\ ~ (l < i) /\ i # l) /\ l >= l
        /\ \A i \in 1..l : i \in 1..Len(w) \/ i = l
    BY WireAppend
  <1>2. \A type :
          /\ Places(v, type) = IF e.type = type THEN Places(w, type) \cup {l} ELSE Places(w, type)
          /\ Before(v, type, l) = Places(w, type)
          /\ \A i \in 1..Len(w) : Before(v, type, i) = Before(w, type, i)
    BY PlacesGrow
  <1>3. \A type : Cardinality(Places(v, type)) =
                    Cardinality(Places(w, type)) + (IF e.type = type THEN 1 ELSE 0)
    BY PlacesGrow
  <1>4. \A type : Places(w, type) \in SUBSET (1..Len(w)) /\ Cardinality(Places(w, type)) \in Nat
    BY <1>1, PlacesFinite
  <1>5. /\ Tally(w).begun = (Places(w, "begin") # {})
        /\ Tally(w).ended = (Places(w, "finish") # {})
        /\ Tally(w).starts = Cardinality(Places(w, "start"))
        /\ Tally(w).stops = Cardinality(Places(w, "stop"))
        /\ Tally(w).shut = {w[i].at : i \in Places(w, "stop")}
    BY DEF Tally
  <1>6. NumbersOrdered(v)
    <2>1. /\ Counted(v) = IF e.type = "comment" THEN Counted(w) ELSE Counted(w) \cup {l}
          /\ {j \in Counted(v) : j < l} = Counted(w)
          /\ \A i \in 1..Len(w) : {j \in Counted(v) : j < i} = {j \in Counted(w) : j < i}
      BY CountedGrows
    <2>2. Counted(w) \in SUBSET (1..Len(w)) BY <1>1, PlacesFinite
    <2>3. ASSUME NEW i \in Counted(v)
          PROVE  v[i].n = Cardinality({j \in Counted(v) : j < i})
      <3>1. CASE i \in Counted(w)
        <4>1. v[i] = w[i] /\ {j \in Counted(v) : j < i} = {j \in Counted(w) : j < i}
          BY <1>1, <2>1, <2>2, <3>1
        <4>2. w[i].n = Cardinality({j \in Counted(w) : j < i})
          BY <3>1 DEF Orderly, NumbersOrdered
        <4> QED BY <4>1, <4>2
      <3>2. CASE i \notin Counted(w)
        <4>1. i = l /\ e.type # "comment" BY <2>1, <2>3, <3>2
        <4> QED BY <1>1, <2>1, <4>1
      <3> QED BY <3>1, <3>2
    <2> QED BY <2>3 DEF NumbersOrdered
  <1>7. ExtendsOnlyBegun(v)
    <2>1. ASSUME NEW i \in Places(v, "keepalive")
          PROVE  \E b \in Places(v, "begin") : b < i
      <3>1. CASE i \in Places(w, "keepalive")
        BY <1>2, <3>1 DEF Orderly, ExtendsOnlyBegun
      <3>2. CASE i \notin Places(w, "keepalive")
        <4>1. i = l /\ e.type = "keepalive" BY <1>2, <2>1, <3>2
        <4>2. Places(w, "begin") # {} BY <1>5, <4>1 DEF Fits
        <4>3. PICK b \in Places(w, "begin") : TRUE BY <4>2
        <4>4. b \in Places(v, "begin") /\ b < l BY <1>1, <1>2, <1>4, <4>3
        <4> QED BY <4>1, <4>4
      <3> QED BY <3>1, <3>2
    <2> QED BY <2>1 DEF ExtendsOnlyBegun
  <1>8. NothingAfterEnd(v)
    <2>1. ASSUME NEW f \in Places(v, "finish"), NEW i \in DOMAIN v, i > f
          PROVE  v[i].type = "comment"
      <3>1. f \in 1..l /\ i \in 1..l BY <1>1, <2>1 DEF Places
      <3>2. f # l /\ f \in Places(w, "finish") BY <1>1, <1>2, <2>1, <3>1
      <3>3. CASE i = l BY <1>1, <1>5, <3>2, <3>3 DEF Fits
      <3>4. CASE i # l
        <4>1. i \in DOMAIN w /\ v[i] = w[i] BY <1>1, <3>1, <3>4
        <4> QED BY <2>1, <3>2, <4>1 DEF Orderly, NothingAfterEnd
      <3> QED BY <3>3, <3>4
    <2> QED BY <2>1 DEF NothingAfterEnd
  <1>9. StartsOrdered(v, form)
    <2>1. ASSUME NEW i \in Places(v, "start")
          PROVE  /\ v[i].at = Cardinality(Before(v, "start", i))
                 /\ form = "messages" =>
                      Cardinality(Before(v, "start", i)) = Cardinality(Before(v, "stop", i))
      <3>1. CASE i \in Places(w, "start")
        <4>1. i \in 1..Len(w) BY <1>4, <3>1
        <4>2. v[i] = w[i] /\ Before(v, "start", i) = Before(w, "start", i)
              /\ Before(v, "stop", i) = Before(w, "stop", i)
          BY <1>1, <1>2, <4>1
        <4>3. /\ w[i].at = Cardinality(Before(w, "start", i))
              /\ form = "messages" =>
                   Cardinality(Before(w, "start", i)) = Cardinality(Before(w, "stop", i))
          BY <3>1 DEF Orderly, StartsOrdered
        <4> QED BY <4>2, <4>3
      <3>2. CASE i \notin Places(w, "start")
        <4>1. i = l /\ e.type = "start" BY <1>2, <2>1, <3>2
        <4>2. e.at = Tally(w).starts /\ (form = "messages" => Tally(w).starts = Tally(w).stops)
          BY <4>1 DEF Fits
        <4> QED BY <1>1, <1>2, <1>5, <4>1, <4>2
      <3> QED BY <3>1, <3>2
    <2> QED BY <2>1 DEF StartsOrdered
  <1>10. StartsFound(v)
    <2>1. ASSUME NEW a \in 0..(Cardinality(Places(v, "start")) - 1)
          PROVE  \E j \in Places(v, "start") : v[j].at = a
      <3>1. CASE a < Cardinality(Places(w, "start"))
        <4>1. a \in 0..(Cardinality(Places(w, "start")) - 1) BY <1>4, <3>1
        <4>2. PICK j \in Places(w, "start") : w[j].at = a
          BY <4>1 DEF Orderly, StartsFound
        <4>3. j \in Places(v, "start") /\ v[j] = w[j] BY <1>1, <1>2, <1>4, <4>2
        <4> QED BY <4>2, <4>3
      <3>2. CASE ~ (a < Cardinality(Places(w, "start")))
        <4>1. e.type = "start" /\ a = Cardinality(Places(w, "start")) BY <1>3, <1>4, <3>2
        <4>2. l \in Places(v, "start") /\ v[l].at = a BY <1>1, <1>2, <1>5, <4>1 DEF Fits
        <4> QED BY <4>2
      <3> QED BY <3>1, <3>2
    <2> QED BY <2>1 DEF StartsFound
  <1>11. WrittenWhileOpen(v, form)
    <2>1. ASSUME form # "chat", NEW i \in Places(v, "delta") \cup Places(v, "stop")
          PROVE  /\ \E j \in Places(v, "start") : j < i /\ v[j].at = v[i].at
                 /\ \A j \in Places(v, "stop") : v[j].at = v[i].at => j >= i
      <3>1. CASE i \in Places(w, "delta") \cup Places(w, "stop")
        <4>1. i \in 1..Len(w) /\ v[i] = w[i] BY <1>1, <1>4, <3>1
        <4>2. PICK j \in Places(w, "start") : j < i /\ w[j].at = w[i].at
          BY <2>1, <3>1 DEF Orderly, WrittenWhileOpen
        <4>3. j \in Places(v, "start") /\ v[j] = w[j] BY <1>1, <1>2, <1>4, <4>2
        <4>4. \A k \in Places(w, "stop") : w[k].at = w[i].at => k >= i
          BY <2>1, <3>1 DEF Orderly, WrittenWhileOpen
        <4>5. ASSUME NEW k \in Places(v, "stop"), v[k].at = v[i].at PROVE k >= i
          <5>1. CASE k \in Places(w, "stop")
            <6>1. v[k] = w[k] BY <1>1, <1>4, <5>1
            <6> QED BY <4>1, <4>4, <4>5, <5>1, <6>1
          <5>2. CASE k \notin Places(w, "stop")
            <6>1. k = l BY <1>2, <4>5, <5>2
            <6>2. l >= i BY <1>1, <4>1
            <6> QED BY <6>1, <6>2
          <5> QED BY <5>1, <5>2
        <4> QED BY <4>1, <4>2, <4>3, <4>5
      <3>2. CASE i \notin Places(w, "delta") \cup Places(w, "stop")
        <4>1. i = l /\ e.type \in {"delta", "stop"} BY <1>2, <2>1, <3>2
        <4>2. e.at < Tally(w).starts /\ e.at \notin Tally(w).shut BY <2>1, <4>1 DEF Fits
        <4>3. e.at \in 0..(Cardinality(Places(w, "start")) - 1)
          <5>1. e.at \in Nat BY <1>1 DEF Wired
          <5> QED BY <1>4, <1>5, <4>2, <5>1
        <4>4. PICK j \in Places(w, "start") : w[j].at = e.at
          BY <4>3 DEF Orderly, StartsFound
        <4>5. j \in Places(v, "start") /\ v[j] = w[j] /\ j < l BY <1>1, <1>2, <1>4, <4>4
        <4>6. ASSUME NEW k \in Places(v, "stop"), v[k].at = e.at PROVE k >= l
          <5>1. CASE k \in Places(w, "stop")
            <6>1. v[k] = w[k] BY <1>1, <1>4, <5>1
            <6>2. w[k].at \in Tally(w).shut BY <1>5, <5>1
            <6> QED BY <4>2, <4>6, <6>1, <6>2
          <5>2. CASE k \notin Places(w, "stop")
            <6>1. k = l BY <1>2, <4>6, <5>2
            <6> QED BY <1>1, <6>1
          <5> QED BY <5>1, <5>2
        <4> QED BY <1>1, <4>1, <4>4, <4>5, <4>6
      <3> QED BY <3>1, <3>2
    <2> QED BY <2>1 DEF WrittenWhileOpen
  <1> QED BY <1>6, <1>7, <1>8, <1>9, <1>10, <1>11 DEF Orderly
-----------------------------------------------------------------------------
(* The reply as a whole.                                                   *)

\* The view of what was written, the event that is being written included.
SeenOf(w, e) == IF e = None THEN Tally(w) ELSE After(Tally(w), e)

\* How many of these events are numbered.
NumberOf(w, e) ==
  Cardinality(Counted(w))
    + (IF e = None THEN 0 ELSE IF e.type \in {"comment", "body"} THEN 0 ELSE 1)

\* What the generator s emits fits what was seen, and ends the reply unless
\* upstream is open.
Ahead(z, s) ==
  \E y \in View :
    /\ Emits(z, s, y)
    /\ s.open => Apt(s, y) /\ ~ s.ok
    /\ ~ s.open => y.ended /\ (s.ok => y.starts = y.stops)

LEMMA AheadEmpty ==
  ASSUME NEW z, NEW s, Ahead(z, s), s.queue = <<>>
  PROVE  /\ Emits(z, s, z) /\ (s.open => Apt(s, z) /\ ~ s.ok)
         /\ ~ s.open => z.ended /\ (s.ok => z.starts = z.stops)
  <1>1. PICK y \in View :
          /\ Emits(z, s, y)
          /\ s.open => Apt(s, y) /\ ~ s.ok
          /\ ~ s.open => y.ended /\ (s.ok => y.starts = y.stops)
    BY DEF Ahead
  <1>2. Leads(z, <<>>, y, s.api) BY <1>1 DEF Emits
  <1>3. y = z BY <1>2, NothingLeads
  <1> QED BY <1>1, <1>3

\* The generator after its next event was taken, and after an item of upstream.
Taken(s) == [s EXCEPT !.queue = Tail(@), !.seq = @ + 1]

Received(s, item) ==
  [IF item \in Thoughts
   THEN Says(s, IF s.api = "messages" THEN "thinking" ELSE item, <<>>)
   ELSE [s EXCEPT !.raw = Append(@, item)]
   EXCEPT !.items = @ + 1]

LEMMA AheadTakes ==
  ASSUME NEW z, NEW s, Ahead(z, s), s.queue # <<>>, NEW t, t = Taken(s)
  PROVE  /\ s \in Generator /\ t \in Generator /\ Head(s.queue) \in Spoken /\ z \in View
         /\ Fits(Head(s.queue), z, s.api) /\ Ahead(After(z, Head(s.queue)), t)
         /\ t.api = s.api /\ t.ok = s.ok /\ t.open = s.open /\ t.seq = s.seq + 1
         /\ s.seq \in Int
  <1>1. PICK y \in View :
          /\ Emits(z, s, y)
          /\ s.open => Apt(s, y) /\ ~ s.ok
          /\ ~ s.open => y.ended /\ (s.ok => y.starts = y.stops)
    BY DEF Ahead
  <1>2. s \in Generator /\ z \in View /\ Leads(z, s.queue, y, s.api) BY <1>1 DEF Emits
  <1>3. s.queue \in Seq(Spoken) /\ s.seq \in Int BY <1>2, GeneratorFields
  <1>4. /\ Fits(Head(s.queue), z, s.api) /\ After(z, Head(s.queue)) \in View
        /\ Leads(After(z, Head(s.queue)), Tail(s.queue), y, s.api)
    BY <1>2, <1>3, Taking
  <1>5. Head(s.queue) \in Spoken /\ Tail(s.queue) \in Seq(Spoken) BY <1>3
  <1>6. PICK r : r = [s EXCEPT !.queue = Tail(s.queue)] OBVIOUS
  <1>12. PICK k \in Int : k = s.seq + 1 BY <1>3
  <1>7. r \in Generator /\ t = [r EXCEPT !.seq = k] /\ r.queue = Tail(s.queue)
        /\ r.api = s.api /\ r.ok = s.ok /\ r.open = s.open
        /\ r.kind = s.kind /\ r.blocks = s.blocks
    BY <1>2, <1>5, <1>6, <1>12 DEF Generator, Taken
  <1>8. t \in Generator /\ t.queue = Tail(s.queue)
        /\ t.api = s.api /\ t.ok = s.ok /\ t.open = s.open
        /\ t.kind = s.kind /\ t.blocks = s.blocks /\ t.seq = k
    BY <1>7 DEF Generator
  <1>9. Emits(After(z, Head(s.queue)), t, y) BY <1>4, <1>8 DEF Emits
  <1>10. s.open => Apt(t, y) BY <1>1, <1>8 DEF Apt
  <1>11. Ahead(After(z, Head(s.queue)), t) BY <1>1, <1>8, <1>9, <1>10 DEF Ahead
  <1> QED BY <1>2, <1>3, <1>4, <1>5, <1>8, <1>11, <1>12

LEMMA AheadEnded ==
  ASSUME NEW z, NEW s, Ahead(z, s), z.ended
  PROVE  ~ s.open /\ (s.ok => z.starts = z.stops)
  <1>1. s.queue = <<>>
    <2>1. SUFFICES ASSUME s.queue # <<>> PROVE FALSE OBVIOUS
    <2>2. PICK t : t = Taken(s) OBVIOUS
    <2>3. Head(s.queue) \in Spoken /\ Fits(Head(s.queue), z, s.api) BY <2>1, <2>2, AheadTakes
    <2>4. Head(s.queue).type = "comment" BY <2>3 DEF Fits
    <2> QED BY <2>3, <2>4 DEF Spoken
  <1>2. /\ s.open => Apt(s, z)
        /\ ~ s.open => (s.ok => z.starts = z.stops)
    BY <1>1, AheadEmpty
  <1>3. ~ s.open BY <1>2 DEF Apt
  <1> QED BY <1>2, <1>3

LEMMA AfterMark ==
  ASSUME NEW z \in View, NEW e, e.type \in {"comment", "keepalive", "body"}
  PROVE  After(z, e) = z
  <1>1. z = [begun |-> z.begun, ended |-> z.ended, starts |-> z.starts, stops |-> z.stops,
             shut |-> z.shut] /\ z.begun \in BOOLEAN /\ z.ended \in BOOLEAN BY DEF View
  <1>2. After(z, e) = [begun |-> z.begun, ended |-> z.ended, starts |-> z.starts,
                      stops |-> z.stops, shut |-> z.shut] BY <1>1 DEF After
  <1> QED BY <1>1, <1>2

LEMMA NumberedFits ==
  ASSUME NEW z, NEW e, NEW d, NEW form, d.type = e.type, d.at = e.at, Fits(e, z, form)
  PROVE  Fits(d, z, form) /\ After(z, d) = After(z, e)
  <1>1. Fits(d, z, form) BY DEF Fits
  <1>2. After(z, d) = After(z, e) BY DEF After
  <1> QED BY <1>1, <1>2

Arrives(z, s, item) ==
  Ahead(z, s) /\ s.queue = <<>> /\ s.open /\ item \in Thoughts \cup {"a", "stop", "call"}

LEMMA AheadReceives ==
  ASSUME NEW z, NEW s, NEW item, Arrives(z, s, item), NEW t, t = Received(s, item)
  PROVE  /\ Ahead(z, t) /\ t \in Generator /\ t.api = s.api /\ t.ok = s.ok /\ t.seq = s.seq
         /\ t.open = s.open
  <1>14. s.open /\ item \in Thoughts \cup {"a", "stop", "call"} BY DEF Arrives
  <1>1. Emits(z, s, z) /\ Apt(s, z) /\ ~ s.ok BY AheadEmpty DEF Arrives
  <1>2. s \in Generator /\ z \in View /\ Leads(z, s.queue, z, s.api) BY <1>1 DEF Emits
  <1>3. PICK u : u = IF item \in Thoughts
                     THEN Says(s, IF s.api = "messages" THEN "thinking" ELSE item, <<>>)
                     ELSE [s EXCEPT !.raw = Append(@, item)]
    OBVIOUS
  <1>4. \E x \in View : /\ Emits(z, u, x) /\ Apt(u, x)
                        /\ u.api = s.api /\ u.ok = s.ok /\ u.seq = s.seq /\ u.open = s.open
    <2>1. CASE item \in Thoughts
      <3>1. PICK kind \in Kinds : kind = IF s.api = "messages" THEN "thinking" ELSE item
        BY <2>1 DEF Thoughts, Kinds
      <3>2. u = Says(s, kind, <<>>) BY <1>3, <2>1, <3>1
      <3>3. <<>> \in Seq(Bits) OBVIOUS
      <3>4. \E x \in View : Emits(z, u, x) /\ Same(s, u) /\ Apt(u, x)
        BY <1>1, <3>2, <3>3, SaysFits
      <3> QED BY <3>4 DEF Same
    <2>2. CASE item \notin Thoughts
      <3>1. item \in Bits BY <1>14, <2>2 DEF Bits
      <3>2. s.raw \in Seq(Bits) BY <1>2, GeneratorFields
      <3>3. Append(s.raw, item) \in Seq(Bits) BY <3>1, <3>2
      <3>4. u = [s EXCEPT !.raw = Append(s.raw, item)] BY <1>3, <2>2
      <3>5. /\ u \in Generator /\ u.queue = s.queue /\ u.api = s.api /\ u.ok = s.ok
            /\ u.seq = s.seq /\ u.open = s.open /\ u.kind = s.kind /\ u.blocks = s.blocks
        BY <1>2, <3>3, <3>4 DEF Generator
      <3>6. Emits(z, u, z) BY <1>2, <3>5 DEF Emits
      <3>7. Apt(u, z) BY <1>1, <3>5 DEF Apt
      <3> QED BY <1>2, <3>5, <3>6, <3>7
    <2> QED BY <2>1, <2>2
  <1>5. PICK x \in View : /\ Emits(z, u, x) /\ Apt(u, x)
                          /\ u.api = s.api /\ u.ok = s.ok /\ u.seq = s.seq /\ u.open = s.open
    BY <1>4
  <1>6. u \in Generator /\ Leads(z, u.queue, x, u.api) BY <1>5 DEF Emits
  <1>8. u.items \in Int BY <1>6, GeneratorFields
  <1>13. PICK k \in Int : k = u.items + 1 BY <1>8
  <1>7. t = [u EXCEPT !.items = k] BY <1>3, <1>13 DEF Received
  <1>9. /\ t \in Generator /\ t.queue = u.queue /\ t.api = u.api /\ t.ok = u.ok
        /\ t.seq = u.seq /\ t.open = u.open /\ t.kind = u.kind /\ t.blocks = u.blocks
    BY <1>6, <1>7 DEF Generator
  <1>10. Emits(z, t, x) BY <1>2, <1>6, <1>9 DEF Emits
  <1>11. Apt(t, x) BY <1>5, <1>9 DEF Apt
  <1>12. Ahead(z, t) BY <1>1, <1>5, <1>9, <1>10, <1>11, <1>14 DEF Ahead
  <1> QED BY <1>5, <1>9, <1>12

LEMMA AheadEnds ==
  ASSUME NEW z, NEW s, Ahead(z, s), s.queue = <<>>, s.open, NEW t,
         t \in {[Completed(s) EXCEPT !.open = FALSE]} \cup
               {[Failed(s, cause) EXCEPT !.open = FALSE] : cause \in {"throttled", "other"}}
  PROVE  /\ Ahead(z, t) /\ t \in Generator /\ t.api = s.api /\ t.seq = s.seq /\ ~ t.open
         /\ ~ z.ended /\ ~ s.ok
  <1>1. Emits(z, s, z) /\ Apt(s, z) /\ ~ s.ok BY AheadEmpty
  <1>2. ~ z.ended BY <1>1 DEF Apt
  <1>3. s.ok = FALSE
    <2>1. s.ok \in BOOLEAN BY <1>1, GeneratorFields DEF Emits
    <2> QED BY <1>1, <2>1
  <1>4. Ending(z, s, t)
    <2>1. CASE t = [Completed(s) EXCEPT !.open = FALSE] BY <1>1, <2>1, CompletedEnds
    <2>2. ASSUME NEW cause \in {"throttled", "other"}, t = [Failed(s, cause) EXCEPT !.open = FALSE]
          PROVE  Ending(z, s, t)
      BY <1>1, <1>3, <2>2, FailedEnds
    <2> QED BY <2>1, <2>2
  <1>5. PICK x \in View : Emits(z, t, x) /\ x.begun /\ x.ended /\ (t.ok => x.starts = x.stops)
    BY <1>4 DEF Ending
  <1>6. t.open = FALSE /\ t.api = s.api /\ t.seq = s.seq BY <1>4 DEF Ending
  <1>7. Ahead(z, t) BY <1>5, <1>6 DEF Ahead
  <1>8. t \in Generator BY <1>5 DEF Emits
  <1> QED BY <1>1, <1>2, <1>6, <1>7, <1>8
-----------------------------------------------------------------------------

StreamTypes ==
  /\ stream \in Generator
  /\ pending \in {"running", "ready", "stopped"}
  /\ beat \in [next : Int, shift : Int, begun : BOOLEAN, done : BOOLEAN, count : Int]
  /\ writing \in Wired \cup {None}
  /\ wire \in Seq(Wired)
  /\ phase \in [at : {"serving", "closing", "closed", "settled", "over"},
                sent : BOOLEAN, succeeded : BOOLEAN, committed : BOOLEAN, locked : BOOLEAN]

Seen == SeenOf(wire, writing)
Number == NumberOf(wire, writing)

\* The events that a client has are in order, and the reply that ended well
\* has all its blocks shut.
WireSo ==
  /\ Orderly(wire, stream.api)
  /\ Tally(wire).ended /\ stream.ok => Tally(wire).starts = Tally(wire).stops

\* What a reply that was sent, and each of the finally clauses, leaves.
PhaseSo ==
  /\ phase.sent => phase.at # "serving" /\ Tally(wire).ended /\ (stream.ok => phase.succeeded)
  /\ phase.succeeded => stream.ok
  /\ phase.committed => phase.sent /\ phase.succeeded
  /\ phase.at \in {"closed", "settled", "over"} => ~ stream.open
  /\ phase.at \in {"settled", "over"} => (phase.committed <=> phase.sent /\ phase.succeeded)
  /\ ~ phase.locked => phase.at = "over"

\* What is written next fits what the client has.
WritingSo ==
  writing # None =>
    \/ writing.type = "body" /\ pending = "stopped"
    \/ /\ writing.type # "body" /\ Fits(writing, Tally(wire), stream.api)
       /\ writing.type # "comment" => writing.n = Cardinality(Counted(wire))

\* The heartbeat knows how far the reply is.
BeatSo ==
  /\ beat.next = Number /\ stream.seq + beat.shift = Number
  /\ beat.begun => Seen.begun
  /\ Seen.ended => beat.done

PendingSo ==
  /\ pending = "ready" => /\ stream.queue # <<>>
                          /\ Head(stream.queue).type = "finish" /\ stream.ok => phase.succeeded
  /\ pending = "stopped" => stream.queue = <<>> /\ ~ stream.open
  /\ Seen.ended /\ stream.ok => phase.succeeded

ServingSo ==
  phase.at = "serving" => Ahead(Seen, stream) /\ WritingSo /\ BeatSo /\ PendingSo

StreamInv == StreamTypes /\ WireSo /\ PhaseSo /\ ServingSo

LEMMA NoneIsNotWired == None \notin Wired
  BY StreamsAssumption DEF Wired, Bits

LEMMA StreamInitially == StreamInit => StreamInv
  <1> SUFFICES ASSUME StreamInit PROVE StreamInv OBVIOUS
  <1> DEFINE e == Event("begin", 0, <<>>)
  <1>1. PICK form \in Streams, tools \in BOOLEAN :
          stream = [api |-> form, tools |-> tools, open |-> TRUE, items |-> 0, raw |-> <<>>,
                    ok |-> FALSE, queue |-> <<e>>, kind |-> None, blocks |-> <<>>, seq |-> 0]
    BY DEF StreamInit
  <1>2. /\ pending = "running" /\ writing = None /\ wire = <<>>
        /\ beat = [next |-> 0, shift |-> 0, begun |-> FALSE, done |-> FALSE, count |-> 0]
        /\ phase = [at |-> "serving", sent |-> FALSE, succeeded |-> FALSE,
                    committed |-> FALSE, locked |-> TRUE]
    BY DEF StreamInit
  <1>3. e \in Spoken /\ e.type = "begin" BY MarkIsSpoken
  <1> HIDE DEF e
  <1>4. <<e>> \in Seq(Spoken) /\ <<>> \in Seq(Bits) /\ <<>> \in Seq(Kinds) BY <1>3
  <1>5. stream \in Generator BY <1>1, <1>4 DEF Generator
  <1>6. /\ stream.api = form /\ stream.open /\ ~ stream.ok /\ stream.queue = <<e>>
        /\ stream.kind = None /\ stream.blocks = <<>> /\ stream.seq = 0
    BY <1>1
  <1>7. wire \in Seq(Wired) BY <1>2
  <1>8. StreamTypes BY <1>2, <1>5, <1>7 DEF StreamTypes
  <1>9. \A type : Places(wire, type) = {} BY <1>2 DEF Places
  <1>10. Counted(wire) = {} BY <1>2 DEF Counted
  <1>11. Cardinality({}) = 0 BY FS_EmptySet
  <1>12. /\ Tally(wire).begun = FALSE /\ Tally(wire).ended = FALSE /\ Tally(wire).starts = 0
         /\ Tally(wire).stops = 0 /\ Tally(wire).shut = {}
    BY <1>9, <1>11 DEF Tally
  <1>13. Orderly(wire, stream.api)
    BY <1>9, <1>10, <1>11 DEF Orderly, NumbersOrdered, ExtendsOnlyBegun, NothingAfterEnd,
       StartsOrdered, StartsFound, WrittenWhileOpen
  <1>14. WireSo BY <1>12, <1>13 DEF WireSo
  <1>15. PhaseSo BY <1>2 DEF PhaseSo
  <1>16. Tally(wire) \in View /\ Seen = Tally(wire) BY <1>2, <1>7, TallyIsView DEF Seen, SeenOf
  <1>17. Fits(e, Tally(wire), form) BY <1>3, <1>12 DEF Fits
  <1>18. PICK y : y = After(Tally(wire), e) OBVIOUS
  <1>19. y \in View /\ Leads(Tally(wire), <<e>>, y, form)
    <2>1. e.at \in Nat BY <1>3 DEF Spoken
    <2> QED BY <1>3, <1>16, <1>17, <1>18, <2>1, OneStep, AfterIsView
  <1>20. y.begun /\ ~ y.ended /\ y.starts = 0 /\ y.stops = 0 /\ y.shut = {}
    BY <1>3, <1>12, <1>18 DEF After
  <1>21. Apt(stream, y)
    <2>1. Len(stream.blocks) = 0 /\ 0..(0 - 1) = {} BY <1>6
    <2> QED BY <1>6, <1>20, <2>1 DEF Apt
  <1>22. Emits(Tally(wire), stream, y) BY <1>5, <1>6, <1>16, <1>19 DEF Emits
  <1>23. Ahead(Seen, stream) BY <1>6, <1>16, <1>19, <1>21, <1>22 DEF Ahead
  <1>24. Number = 0
    <2>1. Number = Cardinality(Counted(wire)) + 0 BY <1>2 DEF Number, NumberOf
    <2>2. Cardinality(Counted(wire)) = 0 BY <1>10, <1>11
    <2> QED BY <2>1, <2>2
  <1>25. WritingSo /\ BeatSo /\ PendingSo
    BY <1>2, <1>6, <1>12, <1>16, <1>24 DEF WritingSo, BeatSo, PendingSo
  <1> QED BY <1>8, <1>14, <1>15, <1>23, <1>25 DEF StreamInv, ServingSo

LEMMA PendingRuns ==
  ASSUME StreamInv, Computes
  PROVE  /\ phase.at = "serving" /\ pending = "running"
         /\ Ahead(Seen, stream) /\ WritingSo /\ BeatSo /\ PendingSo
  BY DEF StreamInv, ServingSo, Computes

LEMMA ReceivesKeeps ==
  ASSUME StreamInv, NEW item \in Thoughts \cup {"a", "stop", "call"}, Receive(item)
  PROVE  StreamInv'
  <1>1. Computes /\ stream.queue = <<>> /\ stream.open BY DEF Receive, Waits
  <1>2. /\ phase.at = "serving" /\ pending = "running"
        /\ Ahead(Seen, stream) /\ WritingSo /\ BeatSo /\ PendingSo
    BY <1>1, PendingRuns
  <1>3. UNCHANGED <<pending, beat, writing, wire, phase>> BY DEF Receive
  <1>4. /\ Ahead(Seen, stream') /\ stream' \in Generator /\ stream'.api = stream.api
        /\ stream'.ok = stream.ok /\ stream'.seq = stream.seq /\ stream'.open = stream.open
    <2>1. stream' = Received(stream, item) BY DEF Receive, Received
    <2>2. Arrives(Seen, stream, item) BY <1>1, <1>2 DEF Arrives
    <2> QED BY <2>1, <2>2, AheadReceives
  <1>5. Seen' = Seen /\ Number' = Number BY <1>3 DEF Seen, Number
  <1>6. StreamTypes' BY <1>3, <1>4 DEF StreamInv, StreamTypes
  <1>7. WireSo' BY <1>3, <1>4 DEF StreamInv, WireSo
  <1>8. PhaseSo' BY <1>3, <1>4 DEF StreamInv, PhaseSo
  <1>9. WritingSo' BY <1>2, <1>3, <1>4 DEF WritingSo
  <1>10. BeatSo' BY <1>2, <1>3, <1>4, <1>5 DEF BeatSo
  <1>11. PendingSo' BY <1>2, <1>3, <1>4, <1>5 DEF PendingSo
  <1> QED BY <1>4, <1>5, <1>6, <1>7, <1>8, <1>9, <1>10, <1>11 DEF StreamInv, ServingSo

\* What was seen is at least what the client has.
LEMMA SeenMore ==
  ASSUME StreamTypes
  PROVE  (Tally(wire).ended => Seen.ended)
  BY DEF Seen, SeenOf, After

LEMMA UpstreamEndsKeeps ==
  ASSUME StreamInv, UpstreamEnds
  PROVE  StreamInv'
  <1>1. Computes /\ stream.queue = <<>> /\ stream.open BY DEF UpstreamEnds, Waits
  <1>2. /\ phase.at = "serving" /\ pending = "running"
        /\ Ahead(Seen, stream) /\ WritingSo /\ BeatSo /\ PendingSo
    BY <1>1, PendingRuns
  <1>3. UNCHANGED <<pending, beat, writing, wire, phase>> BY DEF UpstreamEnds
  <1>4. /\ Ahead(Seen, stream') /\ stream' \in Generator /\ stream'.api = stream.api
        /\ stream'.seq = stream.seq /\ ~ stream'.open /\ ~ Seen.ended /\ ~ stream.ok
    BY <1>1, <1>2, AheadEnds DEF UpstreamEnds
  <1>5. Seen' = Seen /\ Number' = Number BY <1>3 DEF Seen, Number
  <1>6. StreamTypes' BY <1>3, <1>4 DEF StreamInv, StreamTypes
  <1>7. ~ Tally(wire).ended BY <1>4, SeenMore DEF StreamInv
  <1>8. WireSo' BY <1>3, <1>4, <1>7 DEF StreamInv, WireSo
  <1>9. PhaseSo' BY <1>2, <1>3, <1>4 DEF StreamInv, PhaseSo
  <1>10. WritingSo' BY <1>2, <1>3, <1>4 DEF WritingSo
  <1>11. BeatSo' BY <1>2, <1>3, <1>4, <1>5 DEF BeatSo
  <1>12. PendingSo' BY <1>2, <1>3, <1>4, <1>5 DEF PendingSo
  <1> QED BY <1>4, <1>5, <1>6, <1>8, <1>9, <1>10, <1>11, <1>12 DEF StreamInv, ServingSo

LEMMA YieldsKeeps ==
  ASSUME StreamInv, Yields
  PROVE  StreamInv'
  <1>1. Computes /\ stream.queue # <<>> BY DEF Yields
  <1>2. /\ phase.at = "serving" /\ pending = "running"
        /\ Ahead(Seen, stream) /\ WritingSo /\ BeatSo /\ PendingSo
    BY <1>1, PendingRuns
  <1>3. UNCHANGED <<stream, beat, writing, wire>> /\ pending' = "ready" BY DEF Yields
  <1>4. PICK b \in BOOLEAN :
          b = (phase.succeeded \/ (Head(stream.queue).type = "finish" /\ stream.ok))
    OBVIOUS
  <1>5. phase' = [phase EXCEPT !.succeeded = b] BY <1>4 DEF Yields
  <1>6. /\ phase'.at = phase.at /\ phase'.sent = phase.sent /\ phase'.committed = phase.committed
        /\ phase'.locked = phase.locked /\ phase'.succeeded = b
    BY <1>5 DEF StreamInv, StreamTypes
  <1>7. Seen' = Seen /\ Number' = Number BY <1>3 DEF Seen, Number
  <1>8. StreamTypes' BY <1>3, <1>5 DEF StreamInv, StreamTypes
  <1>9. WireSo' BY <1>3 DEF StreamInv, WireSo
  <1>10. PhaseSo' BY <1>2, <1>3, <1>4, <1>6 DEF StreamInv, PhaseSo
  <1>11. WritingSo'
    <2>1. ~ (writing # None /\ writing.type = "body" /\ pending = "stopped") BY <1>2
    <2> QED BY <1>2, <1>3, <2>1 DEF WritingSo
  <1>12. BeatSo' BY <1>2, <1>3, <1>7 DEF BeatSo
  <1>13. PendingSo' BY <1>1, <1>2, <1>3, <1>4, <1>6, <1>7 DEF PendingSo
  <1> QED BY <1>2, <1>3, <1>7, <1>8, <1>9, <1>10, <1>11, <1>12, <1>13 DEF StreamInv, ServingSo

LEMMA StoppedKeeps ==
  ASSUME StreamInv, Stopped
  PROVE  StreamInv'
  <1>1. Computes /\ stream.queue = <<>> /\ ~ stream.open BY DEF Stopped
  <1>2. /\ phase.at = "serving" /\ pending = "running"
        /\ Ahead(Seen, stream) /\ WritingSo /\ BeatSo /\ PendingSo
    BY <1>1, PendingRuns
  <1>3. UNCHANGED <<stream, beat, writing, wire, phase>> /\ pending' = "stopped" BY DEF Stopped
  <1>7. Seen' = Seen /\ Number' = Number BY <1>3 DEF Seen, Number
  <1>8. StreamTypes' BY <1>3 DEF StreamInv, StreamTypes
  <1>9. WireSo' BY <1>3 DEF StreamInv, WireSo
  <1>10. PhaseSo' BY <1>3 DEF StreamInv, PhaseSo
  <1>11. WritingSo' BY <1>2, <1>3 DEF WritingSo
  <1>12. BeatSo' BY <1>2, <1>3, <1>7 DEF BeatSo
  <1>13. PendingSo' BY <1>1, <1>2, <1>3, <1>7 DEF PendingSo
  <1> QED BY <1>2, <1>3, <1>7, <1>8, <1>9, <1>10, <1>11, <1>12, <1>13 DEF StreamInv, ServingSo

LEMMA WritesKeeps ==
  ASSUME StreamInv, Writes
  PROVE  StreamInv'
  <1>1. phase.at = "serving" /\ pending = "ready" /\ writing = None BY DEF Writes
  <1>2. Ahead(Seen, stream) /\ WritingSo /\ BeatSo /\ PendingSo
    BY <1>1 DEF StreamInv, ServingSo
  <1>3. /\ stream.queue # <<>>
        /\ Head(stream.queue).type = "finish" /\ stream.ok => phase.succeeded
    BY <1>1, <1>2 DEF PendingSo
  <1>4. stream' = Taken(stream) /\ UNCHANGED <<wire, phase>> /\ pending' = "running"
    BY DEF Writes, Taken
  <1>5. PICK e : e = Head(stream.queue) OBVIOUS
  <1>6. /\ e \in Spoken /\ Fits(e, Seen, stream.api) /\ Ahead(After(Seen, e), stream')
        /\ stream' \in Generator /\ stream'.api = stream.api /\ stream'.ok = stream.ok
        /\ stream'.open = stream.open /\ stream'.seq = stream.seq + 1 /\ stream.seq \in Int
    BY <1>2, <1>3, <1>4, <1>5, AheadTakes
  <1>7. beat \in [next : Int, shift : Int, begun : BOOLEAN, done : BOOLEAN, count : Int]
    BY DEF StreamInv, StreamTypes
  <1>8. PICK n \in Int : n = stream.seq + beat.shift BY <1>6, <1>7
  <1>9. writing' = [e EXCEPT !.n = n] BY <1>5, <1>8 DEF Writes, Numbered
  <1>10. /\ writing' \in Wired /\ writing'.type = e.type /\ writing'.at = e.at
         /\ writing'.n = n /\ e.type \in {"begin", "start", "delta", "stop", "finish"}
    BY <1>6, <1>9 DEF Spoken, Wired
  <1>11. writing' # None BY <1>10, NoneIsNotWired
  <1>12. Seen = Tally(wire) /\ Number = Cardinality(Counted(wire)) + 0
    BY <1>1 DEF Seen, SeenOf, Number, NumberOf
  <1>13. Cardinality(Counted(wire)) \in Nat BY PlacesFinite DEF StreamInv, StreamTypes
  <1>14. n = Cardinality(Counted(wire)) BY <1>2, <1>8, <1>12, <1>13 DEF BeatSo
  <1>15. Fits(writing', Tally(wire), stream.api) /\ After(Tally(wire), writing') = After(Seen, e)
    BY <1>6, <1>10, <1>12, NumberedFits
  <1>16. Seen' = After(Seen, e) BY <1>4, <1>11, <1>15 DEF Seen, SeenOf
  <1>17. Number' = n + 1 BY <1>4, <1>10, <1>11, <1>14 DEF Number, NumberOf
  <1>18. PICK m \in Int : m = n + 1 BY <1>8
  <1>19. PICK d \in BOOLEAN : d = (beat.done \/ e.type = "finish") OBVIOUS
  <1>20. beat' = [beat EXCEPT !.next = m, !.begun = TRUE, !.done = d]
    <2>1. beat' = [beat EXCEPT !.next = [e EXCEPT !.n = n].n + 1, !.begun = TRUE,
                              !.done = @ \/ [e EXCEPT !.n = n].type = "finish"]
      BY <1>5, <1>8 DEF Writes, Numbered
    <2>2. [e EXCEPT !.n = n].n = n /\ [e EXCEPT !.n = n].type = e.type BY <1>9, <1>10
    <2> QED BY <1>18, <1>19, <2>1, <2>2
  <1>21. /\ beat' \in [next : Int, shift : Int, begun : BOOLEAN, done : BOOLEAN, count : Int]
         /\ beat'.next = m /\ beat'.begun = TRUE /\ beat'.done = d /\ beat'.shift = beat.shift
    BY <1>7, <1>20
  <1>22. StreamTypes' BY <1>4, <1>6, <1>10, <1>21 DEF StreamInv, StreamTypes
  <1>23. WireSo' BY <1>4, <1>6 DEF StreamInv, WireSo
  <1>24. PhaseSo' BY <1>4, <1>6 DEF StreamInv, PhaseSo
  <1>25. WritingSo' BY <1>4, <1>6, <1>10, <1>14, <1>15 DEF WritingSo
  <1>26. Seen'.begun
    BY <1>6, <1>10, <1>16 DEF After, Fits
  <1>27. Seen'.ended => d /\ (stream.ok => phase.succeeded)
    <2>1. Seen'.ended => Seen.ended \/ e.type = "finish" BY <1>16 DEF After
    <2> QED BY <1>2, <1>3, <1>5, <1>19, <2>1 DEF BeatSo, PendingSo
  <1>28. BeatSo'
    <2>1. stream'.seq + beat'.shift = m
      <3>1. beat.shift \in Int BY <1>7
      <3> QED BY <1>6, <1>8, <1>18, <1>21, <3>1
    <2> QED BY <1>17, <1>18, <1>21, <1>26, <1>27, <2>1 DEF BeatSo
  <1>29. PendingSo' BY <1>4, <1>6, <1>27 DEF PendingSo
  <1> QED BY <1>6, <1>16, <1>22, <1>23, <1>24, <1>25, <1>28, <1>29 DEF StreamInv, ServingSo

LEMMA SeenIsView ==
  ASSUME StreamTypes, writing = None
  PROVE  Seen = Tally(wire) /\ Seen \in View /\ Number = Cardinality(Counted(wire))
         /\ Cardinality(Counted(wire)) \in Nat
  <1>1. wire \in Seq(Wired) BY DEF StreamTypes
  <1>2. Tally(wire) \in View /\ Cardinality(Counted(wire)) \in Nat
    BY <1>1, TallyIsView, PlacesFinite
  <1>3. Seen = Tally(wire) /\ Number = Cardinality(Counted(wire)) + 0
    BY DEF Seen, SeenOf, Number, NumberOf
  <1> QED BY <1>2, <1>3

LEMMA EventIsWired ==
  \A type \in {"begin", "start", "delta", "stop", "finish", "keepalive", "comment", "body"} :
    \A at \in Nat : \A text \in Seq(Bits) : \A n \in Int :
      [type |-> type, at |-> at, text |-> text, n |-> n] \in Wired
  BY DEF Wired

LEMMA MarkIsWired ==
  \A type \in {"keepalive", "comment", "body"} :
    /\ Event(type, 0, <<>>) \in Wired /\ Event(type, 0, <<>>).type = type
    /\ \A n \in Int : /\ [Event(type, 0, <<>>) EXCEPT !.n = n] \in Wired
                      /\ [Event(type, 0, <<>>) EXCEPT !.n = n].type = type
                      /\ [Event(type, 0, <<>>) EXCEPT !.n = n].n = n
  <1> TAKE type \in {"keepalive", "comment", "body"}
  <1> PICK e : e = Event(type, 0, <<>>) OBVIOUS
  <1>1. <<>> \in Seq(Bits) /\ -1 \in Int OBVIOUS
  <1>2. e = [type |-> type, at |-> 0, text |-> <<>>, n |-> -1] BY DEF Event
  <1>5. type \in {"begin", "start", "delta", "stop", "finish", "keepalive", "comment", "body"}
        /\ 0 \in Nat
    OBVIOUS
  <1>6. e \in Wired BY <1>1, <1>2, <1>5, EventIsWired
  <1>3. e \in Wired /\ e.type = type BY <1>2, <1>6
  <1>4. ASSUME NEW n \in Int
        PROVE  /\ [e EXCEPT !.n = n] \in Wired /\ [e EXCEPT !.n = n].type = type
               /\ [e EXCEPT !.n = n].n = n
    BY <1>3 DEF Wired
  <1> QED BY <1>3, <1>4

LEMMA HeartbeatKeeps ==
  ASSUME StreamInv, Heartbeat
  PROVE  StreamInv'
  <1>1. phase.at = "serving" /\ pending = "running" /\ writing = None BY DEF Heartbeat
  <1>2. Ahead(Seen, stream) /\ WritingSo /\ BeatSo /\ PendingSo
    BY <1>1 DEF StreamInv, ServingSo
  <1>3. UNCHANGED <<stream, pending, wire, phase>> BY DEF Heartbeat
  <1>4. beat \in [next : Int, shift : Int, begun : BOOLEAN, done : BOOLEAN, count : Int]
    BY DEF StreamInv, StreamTypes
  <1>5. Seen = Tally(wire) /\ Seen \in View /\ Number = Cardinality(Counted(wire))
        /\ Cardinality(Counted(wire)) \in Nat
    BY <1>1, SeenIsView DEF StreamInv
  <1>6. beat.next = Cardinality(Counted(wire)) BY <1>2, <1>5 DEF BeatSo
  <1>7. PICK real \in BOOLEAN : real = (Extends /\ stream.api # "messages") OBVIOUS
  <1>8. PICK type \in {"keepalive", "comment"} : type = IF real THEN "keepalive" ELSE "comment"
    OBVIOUS
  <1>9. PICK n \in Int : n = IF real THEN beat.next ELSE -1 BY <1>4
  <1>10. writing' = [Event(type, 0, <<>>) EXCEPT !.n = n] BY <1>7, <1>8, <1>9 DEF Heartbeat
  <1>11. writing' \in Wired /\ writing'.type = type /\ writing'.n = n BY <1>10, MarkIsWired
  <1>12. writing' # None BY <1>11, NoneIsNotWired
  <1>13. Fits(writing', Tally(wire), stream.api)
    <2>1. CASE real
      <3>1. type = "keepalive" /\ Seen.begun /\ ~ Seen.ended
        BY <1>2, <1>7, <1>8, <2>1 DEF Extends, BeatSo
      <3> QED BY <1>5, <1>11, <3>1 DEF Fits
    <2>2. CASE ~ real
      <3>1. type = "comment" BY <1>8, <2>2
      <3> QED BY <1>11, <3>1 DEF Fits
    <2> QED BY <2>1, <2>2
  <1>14. Seen' = Seen
    <2>1. After(Tally(wire), writing') = Tally(wire) BY <1>5, <1>11, AfterMark
    <2> QED BY <1>3, <1>5, <1>12, <2>1 DEF Seen, SeenOf
  <1>15. PICK c, k, f :
           /\ c = beat.count + 1
           /\ k = (IF real THEN beat.next + 1 ELSE beat.next)
           /\ f = (IF real THEN beat.shift + 1 ELSE beat.shift)
    OBVIOUS
  <1>16. c \in Int /\ k \in Int /\ f \in Int BY <1>4, <1>15
  <1>17. beat' = [beat EXCEPT !.count = c, !.next = k, !.shift = f]
    BY <1>7, <1>15 DEF Heartbeat
  <1>18. /\ beat' \in [next : Int, shift : Int, begun : BOOLEAN, done : BOOLEAN, count : Int]
         /\ beat'.next = k /\ beat'.begun = beat.begun /\ beat'.done = beat.done
         /\ beat'.shift = f
    BY <1>4, <1>16, <1>17
  <1>19. Number' = k /\ stream.seq + f = k
    <2>1. stream.seq \in Int /\ beat.shift \in Int /\ stream.seq + beat.shift = beat.next
          /\ beat.next \in Int
      BY <1>2, <1>4, <1>5, <1>6, GeneratorFields DEF StreamInv, StreamTypes, BeatSo
    <2>2. CASE real
      <3>1. type = "keepalive" BY <1>8, <2>2
      <3>2. Number' = Cardinality(Counted(wire)) + 1
        BY <1>3, <1>11, <1>12, <3>1 DEF Number, NumberOf
      <3>3. k = beat.next + 1 /\ f = beat.shift + 1 BY <1>15, <2>2
      <3>4. Number' = k BY <1>6, <3>2, <3>3
      <3> QED BY <2>1, <3>3, <3>4
    <2>3. CASE ~ real
      <3>1. type = "comment" BY <1>8, <2>3
      <3>2. Number' = Cardinality(Counted(wire)) + 0
        BY <1>3, <1>11, <1>12, <3>1 DEF Number, NumberOf
      <3> QED BY <1>5, <1>6, <1>15, <2>1, <2>3, <3>2
    <2> QED BY <2>2, <2>3
  <1>20. StreamTypes' BY <1>3, <1>11, <1>18 DEF StreamInv, StreamTypes
  <1>21. WireSo' BY <1>3 DEF StreamInv, WireSo
  <1>22. PhaseSo' BY <1>3 DEF StreamInv, PhaseSo
  <1>23. WritingSo'
    <2>1. type # "comment" => n = Cardinality(Counted(wire)) BY <1>6, <1>8, <1>9
    <2>2. type # "body" BY <1>8
    <2> QED BY <1>3, <1>11, <1>13, <2>1, <2>2 DEF WritingSo
  <1>24. BeatSo' BY <1>2, <1>3, <1>14, <1>18, <1>19 DEF BeatSo
  <1>25. PendingSo' BY <1>2, <1>3, <1>14 DEF PendingSo
  <1> QED BY <1>2, <1>3, <1>14, <1>20, <1>21, <1>22, <1>23, <1>24, <1>25
      DEF StreamInv, ServingSo

LEMMA WritesBodyKeeps ==
  ASSUME StreamInv, WritesBody
  PROVE  StreamInv'
  <1>1. phase.at = "serving" /\ pending = "stopped" /\ writing = None BY DEF WritesBody
  <1>2. Ahead(Seen, stream) /\ WritingSo /\ BeatSo /\ PendingSo
    BY <1>1 DEF StreamInv, ServingSo
  <1>3. UNCHANGED <<stream, pending, beat, wire, phase>> BY DEF WritesBody
  <1>4. Seen = Tally(wire) /\ Seen \in View /\ Number = Cardinality(Counted(wire))
        /\ Cardinality(Counted(wire)) \in Nat
    BY <1>1, SeenIsView DEF StreamInv
  <1>5. writing' \in Wired /\ writing'.type = "body" BY MarkIsWired DEF WritesBody
  <1>6. writing' # None BY <1>5, NoneIsNotWired
  <1>7. Seen' = Seen
    <2>1. After(Tally(wire), writing') = Tally(wire) BY <1>4, <1>5, AfterMark
    <2> QED BY <1>3, <1>4, <1>6, <2>1 DEF Seen, SeenOf
  <1>8. Number' = Number
    <2>1. Number' = Cardinality(Counted(wire)) + 0 BY <1>3, <1>5, <1>6 DEF Number, NumberOf
    <2> QED BY <1>4, <2>1
  <1>9. StreamTypes' BY <1>3, <1>5 DEF StreamInv, StreamTypes
  <1>10. WireSo' BY <1>3 DEF StreamInv, WireSo
  <1>11. PhaseSo' BY <1>3 DEF StreamInv, PhaseSo
  <1>12. WritingSo' BY <1>1, <1>3, <1>5 DEF WritingSo
  <1>13. BeatSo' BY <1>2, <1>3, <1>7, <1>8 DEF BeatSo
  <1>14. PendingSo' BY <1>2, <1>3, <1>7 DEF PendingSo
  <1> QED BY <1>2, <1>3, <1>7, <1>9, <1>10, <1>11, <1>12, <1>13, <1>14 DEF StreamInv, ServingSo

LEMMA IsAcceptedKeeps ==
  ASSUME StreamInv, IsAccepted
  PROVE  StreamInv'
  <1>1. phase.at = "serving" /\ writing # None /\ writing' = None BY DEF IsAccepted
  <1>2. Ahead(Seen, stream) /\ WritingSo /\ BeatSo /\ PendingSo
    BY <1>1 DEF StreamInv, ServingSo
  <1>3. UNCHANGED <<stream, pending, beat>> BY DEF IsAccepted
  <1>4. writing \in Wired /\ wire \in Seq(Wired) BY <1>1 DEF StreamInv, StreamTypes
  <1>5. Tally(wire) \in View BY <1>4, TallyIsView
  <1>6. CASE writing.type = "body"
    <2>1. phase' = [phase EXCEPT !.sent = TRUE, !.at = "closing"] /\ wire' = wire
      BY <1>6 DEF IsAccepted
    <2>2. phase \in [at : {"serving", "closing", "closed", "settled", "over"},
                    sent : BOOLEAN, succeeded : BOOLEAN, committed : BOOLEAN, locked : BOOLEAN]
      BY DEF StreamInv, StreamTypes
    <2>3. /\ phase' \in [at : {"serving", "closing", "closed", "settled", "over"},
                         sent : BOOLEAN, succeeded : BOOLEAN, committed : BOOLEAN, locked : BOOLEAN]
          /\ phase'.at = "closing" /\ phase'.sent = TRUE /\ phase'.succeeded = phase.succeeded
          /\ phase'.committed = phase.committed /\ phase'.locked = phase.locked
      BY <2>1, <2>2
    <2>4. pending = "stopped" BY <1>1, <1>2, <1>6 DEF WritingSo
    <2>5. stream.queue = <<>> /\ ~ stream.open BY <1>2, <2>4 DEF PendingSo
    <2>6. Seen.ended BY <1>2, <2>5, AheadEmpty
    <2>7. Seen = Tally(wire)
      <3>1. After(Tally(wire), writing) = Tally(wire) BY <1>5, <1>6, AfterMark
      <3> QED BY <1>1, <3>1 DEF Seen, SeenOf
    <2>8. StreamTypes' BY <1>1, <1>3, <2>1, <2>3 DEF StreamInv, StreamTypes
    <2>9. WireSo' BY <1>3, <2>1 DEF StreamInv, WireSo
    <2>10. PhaseSo' BY <1>1, <1>2, <1>3, <2>1, <2>3, <2>6, <2>7 DEF StreamInv, PhaseSo, PendingSo
    <2> QED BY <2>3, <2>8, <2>9, <2>10 DEF StreamInv, ServingSo
  <1>7. CASE writing.type # "body"
    <2>1. wire' = Append(wire, writing) /\ UNCHANGED phase BY <1>7 DEF IsAccepted
    <2>2. /\ Fits(writing, Tally(wire), stream.api)
          /\ writing.type # "comment" => writing.n = Cardinality(Counted(wire))
      BY <1>1, <1>2, <1>7 DEF WritingSo
    <2>3. Longer(wire, writing, wire') BY <1>4, <2>1 DEF Longer
    <2>4. wire' \in Seq(Wired) BY <2>3, WireAppend
    <2>5. Orderly(wire', stream.api) BY <2>2, <2>3, OrderlyGrows DEF StreamInv, WireSo
    <2>6. Tally(wire') = After(Tally(wire), writing) BY <2>3, TallyGrows
    <2>7. Seen' = Tally(wire') /\ Seen' = Seen BY <1>1, <2>6 DEF Seen, SeenOf
    <2>8. Number' = Number
      <3>1. /\ Cardinality(Counted(wire')) =
                 Cardinality(Counted(wire)) + (IF writing.type = "comment" THEN 0 ELSE 1)
        BY <2>3, CountedGrows
      <3>2. Cardinality(Counted(wire)) \in Nat BY <1>4, PlacesFinite
      <3>3. Number' = Cardinality(Counted(wire')) + 0 BY <1>1 DEF Number, NumberOf
      <3>4. Number = Cardinality(Counted(wire)) + (IF writing.type = "comment" THEN 0 ELSE 1)
        BY <1>1, <1>7 DEF Number, NumberOf
      <3> QED BY <3>1, <3>2, <3>3, <3>4
    <2>9. StreamTypes' BY <1>1, <1>3, <2>1, <2>4 DEF StreamInv, StreamTypes
    <2>10. WireSo'
      <3>1. Seen.ended /\ stream.ok => Seen.starts = Seen.stops BY <1>2, AheadEnded
      <3> QED BY <1>3, <2>5, <2>7, <3>1 DEF WireSo
    <2>11. PhaseSo' BY <1>1, <1>3, <2>1 DEF StreamInv, PhaseSo
    <2>12. WritingSo' BY <1>1 DEF WritingSo
    <2>13. BeatSo' BY <1>2, <1>3, <2>7, <2>8 DEF BeatSo
    <2>14. PendingSo' BY <1>2, <1>3, <2>1, <2>7 DEF PendingSo
    <2> QED BY <1>2, <1>3, <2>7, <2>9, <2>10, <2>11, <2>12, <2>13, <2>14 DEF StreamInv, ServingSo
  <1> QED BY <1>6, <1>7

LEMMA FinallyKeeps ==
  ASSUME StreamInv, Abandoned \/ ClosesUpstream \/ Settles \/ Unlocks
  PROVE  StreamInv'
  <1>1. phase \in [at : {"serving", "closing", "closed", "settled", "over"},
                  sent : BOOLEAN, succeeded : BOOLEAN, committed : BOOLEAN, locked : BOOLEAN]
    BY DEF StreamInv, StreamTypes
  <1>2. stream \in Generator BY DEF StreamInv, StreamTypes
  <1>3. CASE Abandoned
    <2>1. /\ phase' = [phase EXCEPT !.at = "closing"] /\ writing' = None
          /\ UNCHANGED <<stream, pending, beat, wire>> /\ phase.at = "serving"
      BY <1>3 DEF Abandoned
    <2>2. /\ phase'.at = "closing" /\ phase'.sent = phase.sent
          /\ phase'.succeeded = phase.succeeded /\ phase'.committed = phase.committed
          /\ phase'.locked = phase.locked
      BY <1>1, <2>1
    <2>3. StreamTypes' BY <1>1, <2>1 DEF StreamInv, StreamTypes
    <2>4. WireSo' BY <2>1 DEF StreamInv, WireSo
    <2>5. PhaseSo' BY <2>1, <2>2 DEF StreamInv, PhaseSo
    <2> QED BY <2>2, <2>3, <2>4, <2>5 DEF StreamInv, ServingSo
  <1>4. CASE ClosesUpstream
    <2>1. /\ phase' = [phase EXCEPT !.at = "closed"]
          /\ stream' = [stream EXCEPT !.open = FALSE, !.queue = <<>>]
          /\ UNCHANGED <<pending, beat, writing, wire>> /\ phase.at = "closing"
      BY <1>4 DEF ClosesUpstream
    <2>2. /\ phase'.at = "closed" /\ phase'.sent = phase.sent
          /\ phase'.succeeded = phase.succeeded /\ phase'.committed = phase.committed
          /\ phase'.locked = phase.locked
      BY <1>1, <2>1
    <2>3. /\ stream' \in Generator /\ stream'.open = FALSE /\ stream'.ok = stream.ok
          /\ stream'.api = stream.api
      <3>1. <<>> \in Seq(Spoken) OBVIOUS
      <3> QED BY <1>2, <2>1, <3>1 DEF Generator
    <2>4. StreamTypes' BY <1>1, <2>1, <2>3 DEF StreamInv, StreamTypes
    <2>5. WireSo' BY <2>1, <2>3 DEF StreamInv, WireSo
    <2>6. PhaseSo' BY <2>1, <2>2, <2>3 DEF StreamInv, PhaseSo
    <2> QED BY <2>2, <2>4, <2>5, <2>6 DEF StreamInv, ServingSo
  <1>5. CASE Settles
    <2>1. PICK b \in BOOLEAN : b = (phase.sent /\ phase.succeeded) OBVIOUS
    <2>2. /\ phase' = [phase EXCEPT !.at = "settled", !.committed = b]
          /\ UNCHANGED <<stream, pending, beat, writing, wire>> /\ phase.at = "closed"
      BY <1>5, <2>1 DEF Settles, Delivered
    <2>3. /\ phase'.at = "settled" /\ phase'.sent = phase.sent
          /\ phase'.succeeded = phase.succeeded /\ phase'.committed = b
          /\ phase'.locked = phase.locked
      BY <1>1, <2>2
    <2>4. StreamTypes' BY <1>1, <2>2 DEF StreamInv, StreamTypes
    <2>5. WireSo' BY <2>2 DEF StreamInv, WireSo
    <2>6. PhaseSo' BY <2>1, <2>2, <2>3 DEF StreamInv, PhaseSo
    <2> QED BY <2>3, <2>4, <2>5, <2>6 DEF StreamInv, ServingSo
  <1>6. CASE Unlocks
    <2>1. /\ phase' = [phase EXCEPT !.at = "over", !.locked = FALSE]
          /\ UNCHANGED <<stream, pending, beat, writing, wire>> /\ phase.at = "settled"
      BY <1>6 DEF Unlocks
    <2>2. /\ phase'.at = "over" /\ phase'.sent = phase.sent
          /\ phase'.succeeded = phase.succeeded /\ phase'.committed = phase.committed
          /\ phase'.locked = FALSE
      BY <1>1, <2>1
    <2>3. StreamTypes' BY <1>1, <2>1 DEF StreamInv, StreamTypes
    <2>4. WireSo' BY <2>1 DEF StreamInv, WireSo
    <2>5. PhaseSo' BY <2>1, <2>2 DEF StreamInv, PhaseSo
    <2> QED BY <2>2, <2>3, <2>4, <2>5 DEF StreamInv, ServingSo
  <1> QED BY <1>3, <1>4, <1>5, <1>6

LEMMA StreamStays ==
  ASSUME StreamInv, UNCHANGED streamVars
  PROVE  StreamInv'
  <1>1. /\ stream' = stream /\ pending' = pending /\ beat' = beat /\ writing' = writing
        /\ wire' = wire /\ phase' = phase
    BY DEF streamVars
  <1>2. Seen' = Seen /\ Number' = Number BY <1>1 DEF Seen, Number
  <1>3. StreamTypes' BY <1>1 DEF StreamInv, StreamTypes
  <1>4. WireSo' BY <1>1 DEF StreamInv, WireSo
  <1>5. PhaseSo' BY <1>1 DEF StreamInv, PhaseSo
  <1>6. phase.at = "serving" => WritingSo' BY <1>1 DEF StreamInv, ServingSo, WritingSo
  <1>7. phase.at = "serving" => BeatSo' BY <1>1, <1>2 DEF StreamInv, ServingSo, BeatSo
  <1>8. phase.at = "serving" => PendingSo' BY <1>1, <1>2 DEF StreamInv, ServingSo, PendingSo
  <1> QED BY <1>1, <1>2, <1>3, <1>4, <1>5, <1>6, <1>7, <1>8 DEF StreamInv, ServingSo

(* What was received, what is emitted and what remains to be settled agree *)
(* at every step of a reply.                                               *)
THEOREM RepliesAgree == StreamSpec => []StreamInv
  <1>1. StreamInit => StreamInv BY StreamInitially
  <1>2. StreamInv /\ [StreamNext]_streamVars => StreamInv'
    <2>1. SUFFICES ASSUME StreamInv, [StreamNext]_streamVars PROVE StreamInv' OBVIOUS
    <2>2. CASE UNCHANGED streamVars BY <2>1, <2>2, StreamStays
    <2>3. ASSUME NEW item \in Thoughts \cup {"a", "stop", "call"}, Receive(item)
          PROVE  StreamInv'
      BY <2>1, <2>3, ReceivesKeeps
    <2>4. CASE UpstreamEnds BY <2>1, <2>4, UpstreamEndsKeeps
    <2>5. CASE Yields BY <2>1, <2>5, YieldsKeeps
    <2>6. CASE Stopped BY <2>1, <2>6, StoppedKeeps
    <2>7. CASE Writes BY <2>1, <2>7, WritesKeeps
    <2>8. CASE Heartbeat BY <2>1, <2>8, HeartbeatKeeps
    <2>9. CASE WritesBody BY <2>1, <2>9, WritesBodyKeeps
    <2>10. CASE IsAccepted BY <2>1, <2>10, IsAcceptedKeeps
    <2>11. CASE Abandoned \/ ClosesUpstream \/ Settles \/ Unlocks BY <2>1, <2>11, FinallyKeeps
    <2> QED BY <2>1, <2>2, <2>3, <2>4, <2>5, <2>6, <2>7, <2>8, <2>9, <2>10, <2>11 DEF StreamNext
  <1> QED BY <1>1, <1>2, PTL DEF StreamSpec

LEMMA EndedIsTold ==
  Ended <=> Tally(wire).ended
  BY DEF Ended, Tally, Places

(* What a client received is a prefix of a well-formed stream, wherever    *)
(* keepalives fell and whatever upstream interleaved (WellFormed).         *)
THEOREM StreamsWellFormed == StreamSpec => []WellFormed
  <1>1. StreamInv => WellFormed
    <2> SUFFICES ASSUME StreamInv PROVE WellFormed OBVIOUS
    <2>1. Orderly(wire, stream.api) /\
          (Tally(wire).ended /\ stream.ok => Tally(wire).starts = Tally(wire).stops)
      BY DEF StreamInv, WireSo
    <2>2. /\ \A i \in Counted(wire) : wire[i].n = Cardinality({j \in Counted(wire) : j < i})
          /\ \A i \in Places(wire, "keepalive") : \E b \in Places(wire, "begin") : b < i
          /\ \A f \in Places(wire, "finish"), i \in DOMAIN wire :
               i > f => wire[i].type = "comment"
      BY <2>1 DEF Orderly, NumbersOrdered, ExtendsOnlyBegun, NothingAfterEnd
    <2>3. \A i \in Places(wire, "start") :
            /\ wire[i].at = Cardinality({j \in Places(wire, "start") : j < i})
            /\ stream.api = "messages" =>
                 Cardinality({j \in Places(wire, "start") : j < i}) =
                   Cardinality({j \in Places(wire, "stop") : j < i})
      BY <2>1 DEF Orderly, StartsOrdered, Before
    <2>4. stream.api # "chat" =>
            \A i \in Places(wire, "delta") \cup Places(wire, "stop") :
              /\ \E j \in Places(wire, "start") : j < i /\ wire[j].at = wire[i].at
              /\ \A j \in Places(wire, "stop") : wire[j].at = wire[i].at => j >= i
      BY <2>1 DEF Orderly, WrittenWhileOpen
    <2>5. Ended /\ stream.ok =>
            Cardinality(Places(wire, "start")) = Cardinality(Places(wire, "stop"))
      BY <2>1, EndedIsTold DEF Tally
    <2> QED BY <2>2, <2>3, <2>4, <2>5 DEF WellFormed, Places, Counted
  <1> QED BY <1>1, RepliesAgree, PTL

(* A continuation is consumed only by a reply the client has to its end,   *)
(* and the request lock is passed on after upstream was let go and the     *)
(* continuation is settled (SettledAfterDelivery).                         *)
THEOREM SettledLast == StreamSpec => []SettledAfterDelivery
  <1>1. StreamInv => SettledAfterDelivery
    BY EndedIsTold DEF StreamInv, StreamTypes, PhaseSo, SettledAfterDelivery
  <1> QED BY <1>1, RepliesAgree, PTL

-----------------------------------------------------------------------------
(***************************************************************************)
(* The merge of an answer.  ReadOnce and WholeAnswer say what was shown;   *)
(* MergeInv says how far each source has come.  While no image is among    *)
(* its pieces, what was shown ascends; the deltas have passed the pieces   *)
(* up to Through, what was shown reaches as far or, by a snapshot, further *)
(* and the lead is what lies between, which the deltas still repeat; the   *)
(* fallback restates the answer from its first piece.                      *)
(***************************************************************************)

Ascending(text) == \A i, j \in DOMAIN text : i < j => text[i] < text[j]

Reached(text) == IF text = <<>> THEN 0 ELSE Last(text)

\* The last piece of the deltas that is not held back.
Through(a) == IF a.held = <<>> THEN a.cursor ELSE a.cursor - 1

Texts == Seq(0..Pieces)

Attempts ==
  [n : Nat, start : BOOLEAN, healed : BOOLEAN, spare : BOOLEAN, fate : Fates,
   cursor : 0..Pieces, covered : 0..Pieces, completed : BOOLEAN, failed : BOOLEAN,
   image : BOOLEAN, streamed : Texts, fallback : Texts \cup {<<Refusal>>}, lead : Texts,
   held : Texts, any : BOOLEAN]

Tagged(n, text) == [i \in DOMAIN text |-> <<n, text[i]>>]

\* What holds of every attempt.
Silent(a) ==
  /\ a.any <=> a.streamed # <<>>
  /\ a.fate = "answer" => a.fallback \in Texts
  /\ a.fate # "answer" =>
       /\ ~ a.image
       /\ a.streamed = <<>> /\ a.lead = <<>> /\ a.held = <<>>
       /\ a.fallback \in {<<>>, <<Refusal>>}

Holds(a) == a.held = <<>> \/ (a.cursor > 0 /\ a.held = <<a.cursor>>)

\* streamed and lead fit the deltas up to through and the snapshots up to covered.
Aligned(streamed, lead, through, covered) ==
  /\ streamed \in Seq(1..Pieces) /\ Ascending(streamed)
  /\ through <= Reached(streamed)
  /\ Reached(streamed) = through \/ Reached(streamed) <= covered
  /\ lead = Text(through + 1, Reached(streamed))

Restates(a) ==
  \E k \in 0..Pieces :
    /\ a.fallback = Text(1, k)
    /\ IF a.completed THEN k = Pieces ELSE k <= a.covered

InOrder(a) ==
  a.fate = "answer" /\ ~ a.image =>
    Holds(a) /\ Aligned(a.streamed, a.lead, Through(a), a.covered) /\ Restates(a)

AttemptInv == attempt \in Attempts /\ Silent(attempt) /\ InOrder(attempt)

MergeInv ==
  /\ AttemptInv
  /\ verdict \in {None, "ended", "closed", "error"}
  /\ verdict = None => delivered = Tagged(attempt.n, attempt.streamed)
  /\ ReadOnce /\ WholeAnswer

-----------------------------------------------------------------------------
LEMMA RestIs ==
  ASSUME NEW X, NEW s \in Seq(X), NEW n \in 0..Len(s)
  PROVE  /\ Rest(s, n) \in Seq(X)
         /\ Len(Rest(s, n)) = Len(s) - n
         /\ DOMAIN Rest(s, n) = 1..(Len(s) - n)
         /\ \A i \in 1..(Len(s) - n) : Rest(s, n)[i] = s[n + i]
  <1>1. Len(s) \in Nat /\ n \in Nat /\ n <= Len(s) OBVIOUS
  <1>2. \A i \in (n + 1)..Len(s) : s[i] \in X BY <1>1
  <1>3. /\ SubSeq(s, n + 1, Len(s)) \in Seq(X)
        /\ Len(SubSeq(s, n + 1, Len(s))) = Len(s) - n
        /\ \A i \in 1..(Len(s) - n) : SubSeq(s, n + 1, Len(s))[i] = s[n + i]
    BY <1>1, <1>2, SubSeqProperties
  <1> QED BY <1>1, <1>3 DEF Rest

LEMMA PrefixIs ==
  ASSUME NEW X, NEW s \in Seq(X), NEW t \in Seq(X)
  PROVE  IsPrefix(s, t) <=> /\ Len(s) <= Len(t)
                            /\ \A i \in 1..Len(s) : s[i] = t[i]
  <1>1. SubSeq(s, 1, Len(s)) = s BY SubSeqFull
  <1>2. ASSUME Len(s) <= Len(t)
        PROVE  SubSeq(t, 1, Len(s)) = s <=> \A i \in 1..Len(s) : s[i] = t[i]
    <2>1. Len(s) \in Nat /\ Len(t) \in Nat OBVIOUS
    <2>2. \A i \in 1..Len(s) : t[i] \in X BY <1>2, <2>1
    <2>3. /\ SubSeq(t, 1, Len(s)) \in Seq(X)
          /\ Len(SubSeq(t, 1, Len(s))) = Len(s)
          /\ \A i \in 1..Len(s) : SubSeq(t, 1, Len(s))[i] = t[i]
      BY <1>2, <2>1, <2>2, SubSeqProperties
    <2> PICK u : u = SubSeq(t, 1, Len(s)) OBVIOUS
    <2>4. u \in Seq(X) /\ Len(u) = Len(s) /\ \A i \in 1..Len(s) : u[i] = t[i] BY <2>3
    <2>5. u = s <=> \A i \in 1..Len(s) : s[i] = t[i]
      BY <2>1, <2>4, SeqEqual
    <2> QED BY <2>5
  <1> QED BY <1>1, <1>2 DEF IsPrefix

\* The n pieces from a on.
Run(t, a, n) == t \in Seq(Int) /\ Len(t) = n /\ \A i \in 1..n : t[i] = a + i - 1

LEMMA RunConcat ==
  ASSUME NEW a \in Int, NEW n \in Nat, NEW m \in Nat, NEW s, NEW t, Run(s, a, n), Run(t, a + n, m)
  PROVE  Run(s \o t, a, n + m)
  <1>1. /\ s \in Seq(Int) /\ Len(s) = n /\ \A i \in 1..n : s[i] = a + i - 1
        /\ t \in Seq(Int) /\ Len(t) = m /\ \A i \in 1..m : t[i] = a + n + i - 1
    BY DEF Run
  <1>2. /\ s \o t \in Seq(Int) /\ Len(s \o t) = n + m
        /\ \A i \in 1..(n + m) : (s \o t)[i] = IF i <= n THEN s[i] ELSE t[i - n]
    BY <1>1, ConcatProperties
  <1> PICK u : u = s \o t OBVIOUS
  <1>3. \A i \in 1..(n + m) : u[i] = a + i - 1
    <2> SUFFICES ASSUME NEW i \in 1..(n + m) PROVE u[i] = a + i - 1 OBVIOUS
    <2>1. CASE i <= n BY <1>1, <1>2, <2>1
    <2>2. CASE ~ (i <= n)
      <3>1. i - n \in 1..m BY <2>2
      <3>2. t[i - n] = a + n + (i - n) - 1 BY <1>1, <3>1
      <3> QED BY <1>2, <2>2, <3>2
    <2> QED BY <2>1, <2>2
  <1> QED BY <1>2, <1>3 DEF Run

LEMMA RunRest ==
  ASSUME NEW a \in Int, NEW n \in Nat, NEW k \in 0..n, NEW s, Run(s, a, n)
  PROVE  Run(Rest(s, k), a + k, n - k)
  <1>1. s \in Seq(Int) /\ Len(s) = n /\ \A i \in 1..n : s[i] = a + i - 1
    BY DEF Run
  <1>2. k \in 0..Len(s) BY <1>1
  <1>3. /\ Rest(s, k) \in Seq(Int) /\ Len(Rest(s, k)) = Len(s) - k
        /\ \A i \in 1..(Len(s) - k) : Rest(s, k)[i] = s[k + i]
    <2>1. s \in Seq(Int) BY <1>1
    <2> QED BY <1>2, <2>1, RestIs, Zenon
  <1>4. \A i \in 1..(n - k) : Rest(s, k)[i] = a + k + i - 1
    <2> SUFFICES ASSUME NEW i \in 1..(n - k) PROVE Rest(s, k)[i] = a + k + i - 1 OBVIOUS
    <2>1. k + i \in 1..n /\ i \in 1..(Len(s) - k) BY <1>1
    <2>2. Rest(s, k)[i] = s[k + i] BY <1>3, <2>1
    <2>3. s[k + i] = a + (k + i) - 1 BY <1>1, <2>1
    <2> QED BY <2>2, <2>3
  <1> QED BY <1>1, <1>3, <1>4 DEF Run

LEMMA RunEmpty ==
  ASSUME NEW a \in Int, NEW t
  PROVE  Run(t, a, 0) <=> t = <<>>
  <1>1. ASSUME t \in Seq(Int), Len(t) = 0 PROVE t = <<>> BY <1>1, EmptySeq
  <1>2. Run(<<>>, a, 0) BY EmptySeq DEF Run
  <1> QED BY <1>1, <1>2 DEF Run

LEMMA RunPrefix ==
  ASSUME NEW a \in Int, NEW n \in Nat, NEW m \in Nat, NEW s, NEW t, Run(s, a, n), Run(t, a, m)
  PROVE  IsPrefix(s, t) <=> n <= m
  <1>1. /\ s \in Seq(Int) /\ Len(s) = n /\ \A i \in 1..n : s[i] = a + i - 1
        /\ t \in Seq(Int) /\ Len(t) = m /\ \A i \in 1..m : t[i] = a + i - 1
    BY DEF Run
  <1>2. IsPrefix(s, t) <=> n <= m /\ \A i \in 1..n : s[i] = t[i]
    BY <1>1, PrefixIs
  <1>3. n <= m => \A i \in 1..n : s[i] = t[i] BY <1>1
  <1> QED BY <1>2, <1>3

\* Lists that differ in the first piece.
LEMMA ApartPrefix ==
  ASSUME NEW s \in Seq(Int), NEW t \in Seq(Int), s # <<>>, t # <<>>, s[1] # t[1]
  PROVE  ~ IsPrefix(s, t)
  <1>1. 1 \in 1..Len(s) BY EmptySeq
  <1> QED BY <1>1, PrefixIs

LEMMA EmptyPrefix ==
  ASSUME NEW X, NEW s \in Seq(X)
  PROVE  /\ IsPrefix(<<>>, s)
         /\ IsPrefix(s, <<>>) <=> s = <<>>
         /\ Rest(s, 0) = s
  <1>1. <<>> \in Seq(X) /\ Len(<<>>) = 0 /\ Len(s) \in Nat BY EmptySeq
  <1> PICK e : e = <<>> OBVIOUS
  <1>2. e \in Seq(X) /\ Len(e) = 0 BY <1>1
  <1>3. IsPrefix(e, s)
    <2>1. Len(e) <= Len(s) /\ \A i \in 1..Len(e) : e[i] = s[i] BY <1>1, <1>2
    <2> QED BY <1>2, <2>1, PrefixIs
  <1>4. s = e <=> Len(s) <= 0 BY <1>1, <1>2, EmptySeq
  <1>5. IsPrefix(s, e) <=> s = e
    <2>1. ASSUME NEW t \in Seq(X), Len(t) = 0 PROVE IsPrefix(s, t) <=> Len(s) <= 0
      <3>1. IsPrefix(s, t) <=> Len(s) <= Len(t) /\ \A i \in 1..Len(s) : s[i] = t[i]
        BY PrefixIs
      <3>2. Len(s) <= 0 => \A i \in 1..Len(s) : s[i] = t[i] BY <1>1
      <3> QED BY <2>1, <3>1, <3>2
    <2> QED BY <1>2, <1>4, <2>1
  <1>6. Rest(s, 0) = s
    <2>1. 0 + 1 = 1 OBVIOUS
    <2> QED BY <2>1, SubSeqFull DEF Rest
  <1> QED BY <1>3, <1>5, <1>6

LEMMA TextRun ==
  ASSUME NEW a \in Int, NEW b \in Int, a <= b + 1
  PROVE  b - a + 1 \in Nat /\ Run(Text(a, b), a, b - a + 1)
  <1>1. b - a + 1 \in Nat OBVIOUS
  <1>2. \A i \in 1..(b - a + 1) : a + i - 1 \in Int OBVIOUS
  <1>3. Text(a, b) \in [1..(b - a + 1) -> Int] BY <1>2 DEF Text
  <1>4. Text(a, b) \in Seq(Int) BY <1>1, <1>3
  <1>5. Len(Text(a, b)) = b - a + 1 /\ \A i \in 1..(b - a + 1) : Text(a, b)[i] = a + i - 1
    BY <1>1, <1>3, <1>4 DEF Text
  <1> QED BY <1>1, <1>4, <1>5 DEF Run

LEMMA RunText ==
  ASSUME NEW a \in Int, NEW b \in Int, a <= b + 1, NEW t, Run(t, a, b - a + 1)
  PROVE  t = Text(a, b)
  <1> PICK u, n : u = Text(a, b) /\ n = b - a + 1 OBVIOUS
  <1>1. n \in Nat /\ Run(u, a, n) /\ Run(t, a, n) BY TextRun
  <1>2. t = u BY <1>1, SeqEqual DEF Run
  <1> QED BY <1>2

LEMMA TextIn ==
  ASSUME NEW a \in Int, NEW b \in Int, a <= b + 1, NEW X, a..b \subseteq X
  PROVE  Text(a, b) \in Seq(X)
  <1>1. b - a + 1 \in Nat OBVIOUS
  <1>2. \A i \in 1..(b - a + 1) : a + i - 1 \in X OBVIOUS
  <1>3. Text(a, b) \in [1..(b - a + 1) -> X] BY <1>2 DEF Text
  <1> QED BY <1>1, <1>3

LEMMA TextConcat ==
  ASSUME NEW a \in Int, NEW b \in Int, NEW c \in Int, a <= b + 1, b <= c
  PROVE  Text(a, b) \o Text(b + 1, c) = Text(a, c)
  <1> PICK n, m : n = b - a + 1 /\ m = c - b OBVIOUS
  <1>1. n \in Nat /\ m \in Nat /\ a + n = b + 1 /\ n + m = c - a + 1 /\ m = c - (b + 1) + 1
        /\ a <= c + 1
    OBVIOUS
  <1>2. Run(Text(a, b), a, n) BY TextRun
  <1>3. Run(Text(b + 1, c), b + 1, c - (b + 1) + 1)
    <2>1. b + 1 \in Int /\ b + 1 <= c + 1 OBVIOUS
    <2> QED BY <2>1, TextRun
  <1>4. Run(Text(a, b) \o Text(b + 1, c), a, n + m) BY <1>1, <1>2, <1>3, RunConcat
  <1> QED BY <1>1, <1>4, RunText

LEMMA TextRest ==
  ASSUME NEW a \in Int, NEW c \in Int, NEW n \in Nat, NEW b \in Int, b = a + n, b <= c + 1
  PROVE  Rest(Text(a, c), n) = Text(b, c)
  <1> PICK m : m = c - a + 1 OBVIOUS
  <1>1. m \in Nat /\ n \in 0..m /\ a <= c + 1 /\ m - n = c - b + 1 OBVIOUS
  <1>2. Run(Text(a, c), a, m) BY <1>1, TextRun
  <1>3. Run(Rest(Text(a, c), n), b, m - n) BY <1>1, <1>2, RunRest
  <1> QED BY <1>1, <1>3, RunText

LEMMA TextPrefix ==
  ASSUME NEW a \in Int, NEW b \in Int, NEW c \in Int, a <= b + 1, a <= c + 1
  PROVE  IsPrefix(Text(a, b), Text(a, c)) <=> b <= c
  <1> PICK n, m : n = b - a + 1 /\ m = c - a + 1 OBVIOUS
  <1>1. n \in Nat /\ m \in Nat /\ (n <= m <=> b <= c) OBVIOUS
  <1>2. Run(Text(a, b), a, n) /\ Run(Text(a, c), a, m) BY TextRun
  <1> QED BY <1>1, <1>2, RunPrefix

\* No pieces, or one by itself.
LEMMA TextShort ==
  ASSUME NEW a \in Int
  PROVE  Text(a + 1, a) = <<>> /\ Text(a, a) = <<a>>
  <1>1. Run(Text(a + 1, a), a + 1, 0)
    <2>1. a - (a + 1) + 1 = 0 /\ a + 1 \in Int /\ a + 1 <= a + 1 OBVIOUS
    <2> QED BY <2>1, TextRun
  <1>2. Text(a + 1, a) = <<>>
    <2>1. a + 1 \in Int OBVIOUS
    <2> QED BY <1>1, <2>1, RunEmpty
  <1>3. Run(<<a>>, a, 1) BY DEF Run
  <1>4. Text(a, a) = <<a>>
    <2>1. a - a + 1 = 1 /\ a <= a + 1 OBVIOUS
    <2> QED BY <1>3, <2>1, RunText
  <1> QED BY <1>2, <1>4

LEMMA TextLen ==
  ASSUME NEW a \in Int, NEW b \in Int, a <= b + 1
  PROVE  /\ Text(a, b) \in Seq(Int) /\ Len(Text(a, b)) = b - a + 1
         /\ Text(a, b) = <<>> <=> b < a
         /\ a <= b => Text(a, b)[1] = a /\ Last(Text(a, b)) = b
  <1> PICK t, n : t = Text(a, b) /\ n = b - a + 1 OBVIOUS
  <1>1. n \in Nat /\ Run(t, a, n) BY TextRun
  <1>2. t \in Seq(Int) /\ Len(t) = n /\ \A i \in 1..n : t[i] = a + i - 1 BY <1>1 DEF Run
  <1>3. t = <<>> <=> b < a BY <1>2, EmptySeq
  <1>4. a <= b => t[1] = a /\ t[Len(t)] = b BY <1>2
  <1> QED BY <1>2, <1>3, <1>4 DEF Last

Split(lead, text) == [lead |-> lead, text |-> text]

\* Of two texts that begin alike, the shorter goes.
SplitsOnce(a, y, l) ==
  /\ l <= y => SplitLead(Text(a, y), Text(a, l)) = Split(Text(l + 1, y), <<>>)
  /\ ~ (l <= y) => SplitLead(Text(a, y), Text(a, l)) = Split(<<>>, Text(y + 1, l))

LEMMA SplitNext ==
  ASSUME NEW a \in Int, NEW y \in Int, NEW l \in Int, a <= y + 1, a <= l + 1
  PROVE  SplitsOnce(a, y, l)
  <1>1. IsPrefix(Text(a, l), Text(a, y)) <=> l <= y BY TextPrefix
  <1>2. IsPrefix(Text(a, y), Text(a, l)) <=> y <= l BY TextPrefix
  <1>3. Len(Text(a, l)) = l - a + 1 /\ Len(Text(a, y)) = y - a + 1 BY TextLen
  <1>4. CASE l <= y
    <2>1. l - a + 1 \in Nat /\ l + 1 \in Int /\ l + 1 = a + (l - a + 1) /\ l + 1 <= y + 1
      BY <1>4
    <2>2. Rest(Text(a, y), l - a + 1) = Text(l + 1, y) BY <2>1, TextRest
    <2> QED BY <1>1, <1>3, <1>4, <2>2 DEF SplitLead, Split, SplitsOnce
  <1>5. CASE ~ (l <= y)
    <2>1. y - a + 1 \in Nat /\ y + 1 \in Int /\ y + 1 = a + (y - a + 1) /\ y + 1 <= l + 1 /\ y <= l
      BY <1>5
    <2>2. Rest(Text(a, l), y - a + 1) = Text(y + 1, l) BY <2>1, TextRest
    <2> QED BY <1>1, <1>2, <1>3, <1>5, <2>1, <2>2 DEF SplitLead, Split, SplitsOnce
  <1> QED BY <1>4, <1>5

LEMMA SplitBeyond ==
  ASSUME NEW a \in Int, NEW y \in Int, NEW f \in Int, NEW l \in Int,
         a <= y + 1, y < f, a <= f, f <= l
  PROVE  SplitLead(Text(a, y), Text(f, l)) = Split(<<>>, Text(f, l))
  <1>1. f <= l + 1 OBVIOUS
  <1>2. /\ Text(f, l) \in Seq(Int) /\ Text(f, l) # <<>> /\ Text(f, l)[1] = f
        /\ Text(a, y) \in Seq(Int) /\ (a <= y => Text(a, y) # <<>> /\ Text(a, y)[1] = a)
        /\ ~ (a <= y) => Text(a, y) = <<>>
    <2>1. ~ (l < f) /\ (a <= y => ~ (y < a)) /\ (~ (a <= y) => y < a) OBVIOUS
    <2> QED BY <1>1, <2>1, TextLen
  <1>3. CASE a <= y
    <2>1. a # f BY <1>3
    <2>2. ~ IsPrefix(Text(f, l), Text(a, y)) /\ ~ IsPrefix(Text(a, y), Text(f, l))
      BY <1>2, <1>3, <2>1, ApartPrefix
    <2> QED BY <2>2 DEF SplitLead, Split
  <1>4. CASE ~ (a <= y)
    <2>1. Text(a, y) = <<>> /\ Len(<<>>) = 0 BY <1>2, <1>4
    <2>2. /\ ~ IsPrefix(Text(f, l), <<>>) /\ IsPrefix(<<>>, Text(f, l))
          /\ Rest(Text(f, l), 0) = Text(f, l)
      BY <1>2, EmptyPrefix
    <2> QED BY <2>1, <2>2 DEF SplitLead, Split
  <1> QED BY <1>3, <1>4

-----------------------------------------------------------------------------
LEMMA ConcatParts ==
  ASSUME NEW X, NEW s \in Seq(X), NEW t \in Seq(X)
  PROVE  /\ s \o t \in Seq(X) /\ Len(s \o t) = Len(s) + Len(t)
         /\ \A i \in 1..Len(s) : (s \o t)[i] = s[i]
         /\ \A i \in 1..Len(t) : (s \o t)[Len(s) + i] = t[i]
         /\ \A i \in DOMAIN (s \o t) : i \in 1..Len(s) \/ \E j \in 1..Len(t) : i = Len(s) + j
         /\ s \o t = <<>> <=> s = <<>> /\ t = <<>>
  <1>1. /\ s \o t \in Seq(X) /\ Len(s \o t) = Len(s) + Len(t)
        /\ \A i \in 1 .. Len(s) + Len(t) :
             (s \o t)[i] = IF i <= Len(s) THEN s[i] ELSE t[i - Len(s)]
    BY ConcatProperties
  <1>2. Len(s) \in Nat /\ Len(t) \in Nat OBVIOUS
  <1>3. \A i \in 1..Len(s) : (s \o t)[i] = s[i] BY <1>1, <1>2
  <1>4. ASSUME NEW i \in 1..Len(t) PROVE (s \o t)[Len(s) + i] = t[i]
    <2>1. Len(s) + i \in 1..(Len(s) + Len(t)) /\ ~ (Len(s) + i <= Len(s)) /\ Len(s) + i - Len(s) = i
      BY <1>2
    <2> QED BY <1>1, <2>1
  <1>5. ASSUME NEW i \in DOMAIN (s \o t)
        PROVE  i \in 1..Len(s) \/ \E j \in 1..Len(t) : i = Len(s) + j
    <2>1. i \in 1..(Len(s) + Len(t)) BY <1>1
    <2>2. i \in 1..Len(s) \/ i - Len(s) \in 1..Len(t) BY <1>2, <2>1
    <2>3. i = Len(s) + (i - Len(s)) BY <1>2, <2>1
    <2> QED BY <2>2, <2>3
  <1>6. s \o t = <<>> <=> s = <<>> /\ t = <<>> BY ConcatEqualIffEmpty
  <1> QED BY <1>1, <1>3, <1>4, <1>5, <1>6

LEMMA LastOf ==
  ASSUME NEW X, NEW s \in Seq(X), NEW t \in Seq(X)
  PROVE  /\ s # <<>> => Last(s) \in X /\ Len(s) \in 1..Len(s) /\ 1 \in 1..Len(s)
         /\ t # <<>> => Last(s \o t) = Last(t)
         /\ t = <<>> => s \o t = s
         /\ s = <<>> => s \o t = t
  <1>1. Len(s) \in Nat /\ Len(t) \in Nat OBVIOUS
  <1>2. s # <<>> => Len(s) # 0 BY EmptySeq
  <1>3. t # <<>> => Len(t) # 0 BY EmptySeq
  <1>4. s # <<>> => Len(s) \in 1..Len(s) /\ 1 \in 1..Len(s) BY <1>1, <1>2
  <1>5. ASSUME t # <<>> PROVE (s \o t)[Len(s \o t)] = t[Len(t)]
    <2>1. Len(t) \in 1..Len(t) BY <1>1, <1>3, <1>5
    <2> QED BY <2>1, ConcatParts
  <1>6. (t = <<>> => s \o t = s) /\ (s = <<>> => s \o t = t) BY ConcatEmptySeq
  <1>7. s # <<>> => s[Len(s)] \in X BY <1>4, ElementOfSeq
  <1> QED BY <1>4, <1>5, <1>6, <1>7 DEF Last

LEMMA AscendingConcat ==
  ASSUME NEW s \in Seq(Int), NEW t \in Seq(Int), Ascending(s), Ascending(t),
         s # <<>> /\ t # <<>> => Last(s) < t[1]
  PROVE  Ascending(s \o t)
  <1> SUFFICES ASSUME NEW i \in DOMAIN (s \o t), NEW j \in DOMAIN (s \o t), i < j
               PROVE  (s \o t)[i] < (s \o t)[j]
    BY DEF Ascending
  <1>1. /\ Len(s) \in Nat /\ Len(t) \in Nat /\ DOMAIN s = 1..Len(s) /\ DOMAIN t = 1..Len(t)
        /\ \A n \in 1..Len(s) : s[n] \in Int
        /\ \A n \in 1..Len(t) : t[n] \in Int
    OBVIOUS
  <1>2. CASE i \in 1..Len(s) /\ j \in 1..Len(s)
    <2>1. (s \o t)[i] = s[i] /\ (s \o t)[j] = s[j] BY <1>2, ConcatParts
    <2> QED BY <1>1, <1>2, <2>1 DEF Ascending
  <1>3. ASSUME i \in 1..Len(s), NEW n \in 1..Len(t), j = Len(s) + n
        PROVE  (s \o t)[i] < (s \o t)[j]
    <2>1. (s \o t)[i] = s[i] /\ (s \o t)[j] = t[n] BY <1>3, ConcatParts
    <2>2. s # <<>> /\ t # <<>> /\ Len(s) \in 1..Len(s) /\ 1 \in 1..Len(t)
      BY <1>1, <1>3
    <2>3. s[Len(s)] < t[1] BY <2>2 DEF Last
    <2>4. s[i] <= s[Len(s)]
      <3>1. i = Len(s) \/ i < Len(s) BY <1>1, <1>3
      <3>2. i < Len(s) => s[i] < s[Len(s)] BY <1>1, <1>3, <2>2, Zenon DEF Ascending
      <3>3. s[i] \in Int /\ s[Len(s)] \in Int BY <1>1, <1>3, <2>2
      <3>4. s[i] < s[Len(s)] => s[i] <= s[Len(s)] BY <3>3
      <3>5. s[Len(s)] <= s[Len(s)] BY <3>3
      <3> QED BY <3>1, <3>2, <3>4, <3>5, Zenon
    <2>5. t[1] <= t[n]
      <3>1. n = 1 \/ 1 < n BY <1>1, <1>3
      <3>2. 1 < n => t[1] < t[n] BY <1>1, <1>3, <2>2, Zenon DEF Ascending
      <3>3. t[1] \in Int /\ t[n] \in Int BY <1>1, <1>3, <2>2
      <3>4. t[1] < t[n] => t[1] <= t[n] BY <3>3
      <3>5. t[1] <= t[1] BY <3>3
      <3> QED BY <3>1, <3>2, <3>4, <3>5, Zenon
    <2>6. s[i] \in Int /\ s[Len(s)] \in Int /\ t[1] \in Int /\ t[n] \in Int BY <1>1, <1>3, <2>2
    <2>7. ASSUME NEW p \in Int, NEW q \in Int, NEW v \in Int, NEW w \in Int, p <= q, q < v, v <= w
          PROVE  p < w
      BY <2>7
    <2>8. s[i] < t[n] BY <2>3, <2>4, <2>5, <2>6, <2>7
    <2> QED BY <2>1, <2>8
  <1>4. ASSUME NEW m \in 1..Len(t), i = Len(s) + m, NEW n \in 1..Len(t), j = Len(s) + n
        PROVE  (s \o t)[i] < (s \o t)[j]
    <2>1. (s \o t)[i] = t[m] /\ (s \o t)[j] = t[n] BY <1>4, ConcatParts
    <2>2. m < n BY <1>1, <1>4
    <2> QED BY <1>1, <2>1, <2>2 DEF Ascending
  <1>5. ASSUME NEW m \in 1..Len(t), i = Len(s) + m, j \in 1..Len(s) PROVE FALSE
    BY <1>1, <1>5
  <1>6. /\ i \in 1..Len(s) \/ \E m \in 1..Len(t) : i = Len(s) + m
        /\ j \in 1..Len(s) \/ \E m \in 1..Len(t) : j = Len(s) + m
    BY ConcatParts
  <1> QED BY <1>2, <1>3, <1>4, <1>5, <1>6

LEMMA AscendingText ==
  ASSUME NEW a \in Int, NEW b \in Int, a <= b + 1
  PROVE  Ascending(Text(a, b))
  <1> PICK t, n : t = Text(a, b) /\ n = b - a + 1 OBVIOUS
  <1>1. n \in Nat /\ Run(t, a, n) BY TextRun
  <1>2. DOMAIN t = 1..n /\ \A i \in 1..n : t[i] = a + i - 1 BY <1>1 DEF Run
  <1>3. Ascending(t) BY <1>1, <1>2 DEF Ascending
  <1> QED BY <1>3

LEMMA Widen ==
  ASSUME NEW s \in Seq(1..Pieces)
  PROVE  s \in Seq(Int) /\ s \in Texts
  <1>1. 1..Pieces \subseteq Int /\ 1..Pieces \subseteq 0..Pieces BY PiecesAssumption
  <1> QED BY <1>1, SeqMonotonic DEF Texts

LEMMA ReachedIn ==
  ASSUME NEW s \in Seq(1..Pieces)
  PROVE  /\ Reached(s) \in 0..Pieces
         /\ s # <<>> => Reached(s) = Last(s) /\ Reached(s) > 0
         /\ s = <<>> => Reached(s) = 0
  <1>1. s # <<>> => Last(s) \in 1..Pieces BY LastOf
  <1> QED BY <1>1, PiecesAssumption DEF Reached

\* What follows all that was shown goes behind it.
LEMMA Grows ==
  ASSUME NEW s \in Seq(1..Pieces), Ascending(s), NEW f \in Int, NEW l \in 0..Pieces,
         Reached(s) < f, f <= l + 1
  PROVE  /\ s \o Text(f, l) \in Seq(1..Pieces) /\ Ascending(s \o Text(f, l))
         /\ Reached(s \o Text(f, l)) = IF f <= l THEN l ELSE Reached(s)
         /\ ~ (f <= l) => s \o Text(f, l) = s
  <1>1. Reached(s) \in 0..Pieces /\ l \in Int /\ l <= Pieces /\ f > 0 BY ReachedIn, PiecesAssumption
  <1>2. f..l \subseteq 1..Pieces BY <1>1, PiecesAssumption
  <1> PICK t : t = Text(f, l) OBVIOUS
  <1>3. t \in Seq(1..Pieces) BY <1>1, <1>2, TextIn
  <1>4. Ascending(t) BY <1>1, AscendingText
  <1>5. (t = <<>> <=> l < f) /\ (f <= l => t[1] = f /\ Last(t) = l) BY <1>1, TextLen
  <1>6. s \in Seq(Int) /\ t \in Seq(Int) BY <1>3, Widen
  <1>7. s # <<>> /\ t # <<>> => Last(s) < t[1] BY <1>1, <1>5, ReachedIn
  <1>8. s \o t \in Seq(1..Pieces) BY <1>3, ConcatProperties
  <1>9. Ascending(s \o t) BY <1>4, <1>6, <1>7, AscendingConcat
  <1>10. CASE f <= l
    <2>1. t # <<>> /\ Last(t) = l BY <1>1, <1>5, <1>10
    <2>2. s \o t # <<>> /\ Last(s \o t) = l BY <1>3, <2>1, ConcatParts, LastOf
    <2> QED BY <1>8, <1>9, <1>10, <2>2 DEF Reached
  <1>11. CASE ~ (f <= l)
    <2>1. t = <<>> BY <1>1, <1>5, <1>11
    <2>2. s \o t = s BY <1>3, <2>1, LastOf
    <2> QED BY <1>8, <1>9, <1>11, <2>2
  <1> QED BY <1>10, <1>11

LEMMA CoveredGrows ==
  ASSUME NEW s, NEW lead, NEW through \in 0..Pieces, NEW c \in 0..Pieces, NEW d \in 0..Pieces,
         Aligned(s, lead, through, c), c <= d
  PROVE  Aligned(s, lead, through, d)
  <1>1. s \in Seq(1..Pieces) BY DEF Aligned
  <1>2. Reached(s) \in 0..Pieces BY <1>1, ReachedIn
  <1>3. Reached(s) <= c => Reached(s) <= d BY <1>2
  <1> QED BY <1>3 DEF Aligned

LEMMA SplitAligned ==
  ASSUME NEW s, NEW lead, NEW through \in 0..Pieces, NEW covered \in 0..Pieces,
         Aligned(s, lead, through, covered),
         NEW f \in Int, NEW l \in 0..Pieces, f <= l + 1,
         f = through + 1 \/ (through < f /\ covered < f /\ f <= l)
  PROVE  /\ Aligned(s \o SplitLead(lead, Text(f, l)).text, SplitLead(lead, Text(f, l)).lead, l, covered)
         /\ SplitLead(lead, Text(f, l)).text \in Seq(1..Pieces)
  <1> PICK y : y = Reached(s) OBVIOUS
  <1>1. /\ s \in Seq(1..Pieces) /\ Ascending(s) /\ through <= y /\ (y = through \/ y <= covered)
        /\ lead = Text(through + 1, y)
    BY DEF Aligned
  <1>2. y \in 0..Pieces BY <1>1, ReachedIn
  <1>3. /\ through \in Int /\ y \in Int /\ l \in Int /\ covered \in Int /\ through + 1 \in Int
        /\ through + 1 <= y + 1 /\ y < y + 1 /\ y + 1 \in Int /\ 0 <= y /\ 0 <= through
        /\ l <= Pieces /\ Pieces \in Int
    BY <1>1, <1>2, PiecesAssumption
  <1>4. CASE f = through + 1
    <2>1. /\ l <= y => SplitLead(lead, Text(f, l)) = Split(Text(l + 1, y), <<>>)
          /\ ~ (l <= y) => SplitLead(lead, Text(f, l)) = Split(<<>>, Text(y + 1, l))
      <3>1. f \in Int /\ f <= y + 1 /\ f <= l + 1 /\ lead = Text(f, y) BY <1>1, <1>3, <1>4
      <3>2. SplitsOnce(f, y, l) BY <1>3, <3>1, SplitNext
      <3> QED BY <3>1, <3>2 DEF SplitsOnce
    <2>2. CASE l <= y
      <3>1. s \o <<>> = s /\ <<>> \in Seq(1..Pieces) BY <1>1, ConcatEmptySeq, EmptySeq
      <3>2. y = l \/ y <= covered BY <1>1, <1>3, <1>4, <2>2
      <3>3. Aligned(s, Text(l + 1, y), l, covered) BY <1>1, <2>2, <3>2 DEF Aligned
      <3>4. SplitLead(lead, Text(f, l)).text = <<>> /\ SplitLead(lead, Text(f, l)).lead = Text(l + 1, y)
        BY <2>1, <2>2 DEF Split
      <3> QED BY <3>1, <3>3, <3>4
    <2>3. CASE ~ (l <= y)
      <3>1. y + 1 <= l /\ y + 1 <= l + 1 /\ (y + 1)..l \subseteq 1..Pieces BY <1>3, <2>3
      <3>2. /\ s \o Text(y + 1, l) \in Seq(1..Pieces) /\ Ascending(s \o Text(y + 1, l))
            /\ Reached(s \o Text(y + 1, l)) = l
        BY <1>1, <1>3, <3>1, Grows
      <3>3. <<>> = Text(l + 1, l) BY <1>3, TextShort
      <3>4. Text(y + 1, l) \in Seq(1..Pieces) BY <1>3, <3>1, TextIn
      <3>5. Aligned(s \o Text(y + 1, l), <<>>, l, covered) BY <1>3, <3>2, <3>3 DEF Aligned
      <3> QED BY <2>1, <2>3, <3>4, <3>5 DEF Split
    <2> QED BY <2>2, <2>3
  <1>5. CASE through < f /\ covered < f /\ f <= l
    <2>1. y < f /\ through + 1 <= f /\ f..l \subseteq 1..Pieces BY <1>1, <1>3, <1>5
    <2>2. SplitLead(lead, Text(f, l)) = Split(<<>>, Text(f, l))
      BY <1>1, <1>3, <1>5, <2>1, SplitBeyond
    <2>3. /\ s \o Text(f, l) \in Seq(1..Pieces) /\ Ascending(s \o Text(f, l))
          /\ Reached(s \o Text(f, l)) = l
      BY <1>1, <1>5, <2>1, Grows
    <2>4. <<>> = Text(l + 1, l) BY <1>3, TextShort
    <2>5. Text(f, l) \in Seq(1..Pieces) BY <1>3, <2>1, TextIn
    <2>6. Aligned(s \o Text(f, l), <<>>, l, covered) BY <1>3, <2>3, <2>4 DEF Aligned
    <2> QED BY <2>2, <2>5, <2>6 DEF Split
  <1> QED BY <1>4, <1>5

\* What is a prefix of the answer is its first pieces.
LEMMA PrefixOfAnswer ==
  ASSUME NEW s \in Seq(1..Pieces), NEW k \in 0..Pieces, IsPrefix(s, Text(1, k))
  PROVE  Len(s) \in 0..k /\ Reached(s) = Len(s) /\ s = Text(1, Len(s))
  <1>1. k \in Nat /\ k \in Int /\ 1 <= k + 1 /\ k - 1 + 1 = k BY PiecesAssumption
  <1> PICK t : t = Text(1, k) OBVIOUS
  <1>2. t \in Seq(Int) /\ Len(t) = k /\ \A i \in 1..k : t[i] = 1 + i - 1
    <2>1. Run(t, 1, k - 1 + 1) BY <1>1, TextRun
    <2>2. Run(t, 1, k) BY <1>1, <2>1
    <2> QED BY <2>2 DEF Run
  <1>3. s \in Seq(Int) BY Widen
  <1>4. Len(s) <= Len(t) /\ \A i \in 1..Len(s) : s[i] = t[i] BY <1>2, <1>3, PrefixIs
  <1>5. Len(s) \in Nat /\ Len(s) <= k BY <1>2, <1>4
  <1>6. \A i \in 1..Len(s) : s[i] = i BY <1>1, <1>2, <1>4, <1>5
  <1>7. s = Text(1, Len(s))
    <2>1. Run(s, 1, Len(s)) BY <1>3, <1>5, <1>6 DEF Run
    <2>2. Len(s) - 1 + 1 = Len(s) /\ 1 <= Len(s) + 1 /\ Len(s) \in Int BY <1>5
    <2> QED BY <2>1, <2>2, RunText
  <1>8. Reached(s) = Len(s)
    <2>1. s # <<>> => Len(s) \in 1..Len(s) BY LastOf
    <2>2. s = <<>> => Len(s) = 0 OBVIOUS
    <2> QED BY <1>6, <2>1, <2>2 DEF Reached, Last
  <1> QED BY <1>5, <1>7, <1>8

LEMMA CatchUpAligned ==
  ASSUME NEW s, NEW lead, NEW through \in 0..Pieces, NEW covered \in 0..Pieces,
         Aligned(s, lead, through, covered), NEW k \in 0..Pieces, k <= covered
  PROVE  /\ Aligned(s \o CatchUp(s, Text(1, k)), lead \o CatchUp(s, Text(1, k)), through, covered)
         /\ CatchUp(s, Text(1, k)) \in Seq(1..Pieces)
  <1>1. s \in Seq(1..Pieces) /\ Ascending(s) BY DEF Aligned
  <1>2. lead \in Seq(1..Pieces)
    <2>1. Reached(s) \in 0..Pieces BY <1>1, ReachedIn
    <2>2. /\ through + 1 \in Int /\ Reached(s) \in Int /\ through + 1 <= Reached(s) + 1
          /\ (through + 1)..Reached(s) \subseteq 1..Pieces /\ lead = Text(through + 1, Reached(s))
      BY <2>1, PiecesAssumption DEF Aligned
    <2> QED BY <2>2, TextIn
  <1>3. CASE s # <<>> /\ IsPrefix(s, Text(1, k))
    <2> PICK m : m = Len(s) OBVIOUS
    <2>1. m \in 0..k /\ Reached(s) = m /\ s = Text(1, m) BY <1>1, <1>3, PrefixOfAnswer
    <2>2. /\ m \in Nat /\ m \in Int /\ k \in Int /\ m + 1 \in Int /\ m + 1 = 1 + m /\ m + 1 <= k + 1
          /\ m < m + 1 /\ (m + 1)..k \subseteq 1..Pieces /\ k \in Nat
      BY <2>1, PiecesAssumption
    <2>3. CatchUp(s, Text(1, k)) = Text(m + 1, k)
      <3>1. Rest(Text(1, k), m) = Text(m + 1, k) BY <2>2, TextRest
      <3> QED BY <1>3, <3>1 DEF CatchUp
    <2>4. /\ s \o Text(m + 1, k) \in Seq(1..Pieces) /\ Ascending(s \o Text(m + 1, k))
          /\ Reached(s \o Text(m + 1, k)) = IF m + 1 <= k THEN k ELSE Reached(s)
      BY <1>1, <2>1, <2>2, Grows
    <2>5. Reached(s \o Text(m + 1, k)) = k BY <2>1, <2>2, <2>4
    <2>6. lead = Text(through + 1, m) /\ through <= m BY <2>1 DEF Aligned
    <2>7. lead \o Text(m + 1, k) = Text(through + 1, k)
      <3>1. through + 1 \in Int /\ through + 1 <= m + 1 /\ m <= k BY <2>1, <2>2, <2>6
      <3> QED BY <2>2, <2>6, <3>1, TextConcat
    <2>8. through <= k BY <2>1, <2>2, <2>6
    <2>9. Text(m + 1, k) \in Seq(1..Pieces) BY <2>2, TextIn
    <2>10. Aligned(s \o Text(m + 1, k), lead \o Text(m + 1, k), through, covered)
      BY <2>4, <2>5, <2>7, <2>8 DEF Aligned
    <2> QED BY <2>3, <2>9, <2>10
  <1>4. CASE ~ (s # <<>> /\ IsPrefix(s, Text(1, k)))
    <2>1. CatchUp(s, Text(1, k)) = <<>> BY <1>4 DEF CatchUp
    <2>2. s \o <<>> = s /\ lead \o <<>> = lead /\ <<>> \in Seq(1..Pieces)
      BY <1>1, <1>2, ConcatEmptySeq, EmptySeq
    <2> QED BY <2>1, <2>2
  <1> QED BY <1>3, <1>4

-----------------------------------------------------------------------------
LEMMA OfFields ==
  ASSUME NEW a \in Attempts
  PROVE  /\ a.n \in Nat /\ a.start \in BOOLEAN /\ a.healed \in BOOLEAN /\ a.spare \in BOOLEAN
         /\ a.fate \in Fates /\ a.cursor \in 0..Pieces /\ a.covered \in 0..Pieces
         /\ a.completed \in BOOLEAN /\ a.failed \in BOOLEAN /\ a.image \in BOOLEAN
         /\ a.streamed \in Texts /\ a.fallback \in Texts \cup {<<Refusal>>}
         /\ a.lead \in Texts /\ a.held \in Texts /\ a.any \in BOOLEAN
  BY DEF Attempts

LEMMA TextFront ==
  ASSUME NEW f \in Int, NEW l \in Int, f <= l
  PROVE  Front(Text(f, l)) = Text(f, l - 1)
  <1> PICK t, n : t = Text(f, l) /\ n = l - f + 1 OBVIOUS
  <1>1. n \in Nat /\ n - 1 \in Nat /\ f <= l + 1 /\ l - 1 \in Int /\ f <= (l - 1) + 1
        /\ n - 1 = (l - 1) - f + 1
    OBVIOUS
  <1>2. Run(t, f, n) BY <1>1, TextRun
  <1>3. t \in Seq(Int) /\ Len(t) = n /\ \A i \in 1..n : t[i] = f + i - 1 BY <1>2 DEF Run
  <1> PICK u : u = SubSeq(t, 1, Len(t) - 1) OBVIOUS
  <1>4. u \in Seq(Int) /\ Len(u) = n - 1 /\ \A i \in 1..(n - 1) : u[i] = t[i]
    BY <1>1, <1>3
  <1>5. \A i \in 1..(n - 1) : u[i] = f + i - 1 BY <1>1, <1>3, <1>4
  <1>6. Run(u, f, n - 1) BY <1>4, <1>5 DEF Run
  <1>7. u = Text(f, l - 1) BY <1>1, <1>6, RunText
  <1> QED BY <1>7 DEF Front

Joined(s, t) == s \o t

Continues(a, text, l) ==
  \E f \in Int :
    /\ text = Text(f, l)
    /\ f <= l + 1
    /\ f = Through(a) + 1 \/ (Through(a) < f /\ a.covered < f /\ f <= l)

\* The text of a delta continues at Through, or lies beyond what is covered.
LEMMA DeltaText ==
  ASSUME NEW a \in Attempts, Holds(a),
         NEW last \in 1..Pieces, NEW first \in (a.cursor + 1)..last, NEW holds \in BOOLEAN,
         \/ first = a.cursor + 1
         \/ first > a.covered /\ a.held = <<>> /\ (holds => first < last),
         NEW delta, delta = Joined(a.held, Text(first, last)),
         NEW l, l = IF holds THEN last - 1 ELSE last,
         NEW text, text = IF holds THEN Front(delta) ELSE delta
  PROVE  /\ Through(a) \in 0..Pieces /\ l \in 0..Pieces
         /\ Last(delta) = last
         /\ Continues(a, text, l)
  <1>1. /\ a.cursor \in 0..Pieces /\ a.covered \in 0..Pieces /\ Pieces \in Nat
    BY OfFields, PiecesAssumption
  <1>2. /\ last \in Int /\ first \in Int /\ first <= last /\ first >= a.cursor + 1 /\ a.cursor \in Int
        /\ l \in 0..Pieces /\ last \in Nat /\ l \in Int /\ a.covered \in Int /\ first <= last + 1
    BY <1>1
  <1>3. \E f \in Int : /\ delta = Text(f, last) /\ f <= last
                       /\ f = Through(a) + 1 \/ (Through(a) < f /\ a.covered < f /\ f <= l)
                       /\ Through(a) \in 0..Pieces
    <2>1. CASE a.held = <<>>
      <3>1. delta = Text(first, last)
        <4>1. Text(first, last) \in Seq(Int) BY <1>2, TextLen
        <4> QED BY <2>1, <4>1, ConcatEmptySeq DEF Joined
      <3>2. Through(a) = a.cursor BY <2>1 DEF Through
      <3>3. first = a.cursor + 1 \/ (a.cursor < first /\ a.covered < first /\ first <= l)
        BY <1>1, <1>2
      <3> QED BY <1>1, <1>2, <3>1, <3>2, <3>3
    <2>2. CASE a.held # <<>>
      <3>1. a.cursor > 0 /\ a.held = <<a.cursor>> /\ first = a.cursor + 1 BY <2>2 DEF Holds
      <3>2. a.held = Text(a.cursor, a.cursor) BY <1>2, <3>1, TextShort
      <3>3. delta = Text(a.cursor, last)
        <4>1. a.cursor <= a.cursor + 1 /\ a.cursor <= last BY <1>2
        <4>2. Text(a.cursor, a.cursor) \o Text(a.cursor + 1, last) = Text(a.cursor, last)
          BY <1>2, <4>1, TextConcat
        <4> QED BY <3>1, <3>2, <4>2 DEF Joined
      <3>4. Through(a) = a.cursor - 1 BY <2>2 DEF Through
      <3>5. a.cursor <= last /\ a.cursor = Through(a) + 1 /\ Through(a) \in 0..Pieces
        BY <1>1, <1>2, <3>1, <3>4
      <3> QED BY <1>2, <3>3, <3>5
    <2> QED BY <2>1, <2>2
  <1>4. PICK f \in Int : /\ delta = Text(f, last) /\ f <= last
                         /\ f = Through(a) + 1 \/ (Through(a) < f /\ a.covered < f /\ f <= l)
                         /\ Through(a) \in 0..Pieces
    BY <1>3
  <1>5. Last(delta) = last
    <2>1. f <= last + 1 BY <1>2, <1>4
    <2> QED BY <1>2, <1>4, <2>1, TextLen
  <1>6. CASE holds
    <2>1. Front(delta) = Text(f, last - 1) BY <1>2, <1>4, TextFront
    <2>2. l = last - 1 /\ f <= l + 1 BY <1>2, <1>4, <1>6
    <2> QED BY <1>2, <1>4, <1>5, <1>6, <2>1, <2>2 DEF Continues
  <1>7. CASE ~ holds
    <2>1. l = last /\ f <= l + 1 BY <1>2, <1>4, <1>7
    <2> QED BY <1>2, <1>4, <1>5, <1>7, <2>1 DEF Continues
  <1> QED BY <1>6, <1>7

LEMMA MaxOf ==
  ASSUME NEW S \in SUBSET Int, NEW m \in S, \A i \in S : i <= m
  PROVE  Max(S) = m
  <1>1. m \in S /\ \A y \in S : m >= y OBVIOUS
  <1>2. Max(S) \in S /\ \A y \in S : Max(S) >= y BY <1>1, Zenon DEF Max
  <1> PICK k : k = Max(S) OBVIOUS
  <1>3. k \in Int /\ m \in Int /\ k >= m /\ k <= m BY <1>2
  <1>4. k = m BY <1>3
  <1> QED BY <1>4

LEMMA AnswerOfEntries ==
  ASSUME NEW x, x # <<Narration>>, NEW b
  PROVE  /\ AnswerOf(<<>>, b) = b
         /\ AnswerOf(<< <<Narration>> >>, b) = b
         /\ AnswerOf(<<x>>, b) = x
         /\ AnswerOf(<<x, <<Narration>> >>, b) = x
  <1>1. AnswerOf(<<>>, b) = b BY DEF AnswerOf, IsAnswer
  <1>2. AnswerOf(<< <<Narration>> >>, b) = b
    <2> PICK e : e = << <<Narration>> >> OBVIOUS
    <2>1. DOMAIN e = {1} /\ e[1] = <<Narration>> OBVIOUS
    <2>2. {i \in DOMAIN e : IsAnswer(e[i])} = {} BY <2>1 DEF IsAnswer
    <2>3. AnswerOf(e, b) = b BY <2>2 DEF AnswerOf
    <2> QED BY <2>3
  <1>3. AnswerOf(<<x>>, b) = x
    <2> PICK e : e = <<x>> OBVIOUS
    <2>1. DOMAIN e = {1} /\ e[1] = x OBVIOUS
    <2>2. {i \in DOMAIN e : IsAnswer(e[i])} = {1} BY <2>1 DEF IsAnswer
    <2>3. Max({1}) = 1 BY MaxOf
    <2>4. AnswerOf(e, b) = x BY <2>1, <2>2, <2>3 DEF AnswerOf
    <2> QED BY <2>4
  <1>4. AnswerOf(<<x, <<Narration>> >>, b) = x
    <2> PICK e : e = <<x, <<Narration>> >> OBVIOUS
    <2>1. DOMAIN e = {1, 2} /\ e[1] = x /\ e[2] = <<Narration>> OBVIOUS
    <2>2. {i \in DOMAIN e : IsAnswer(e[i])} = {1} BY <2>1 DEF IsAnswer
    <2>3. Max({1}) = 1 BY MaxOf
    <2>4. AnswerOf(e, b) = x BY <2>1, <2>2, <2>3 DEF AnswerOf
    <2> QED BY <2>4
  <1> QED BY <1>1, <1>2, <1>3, <1>4

LEMMA PairConcat ==
  ASSUME NEW x, NEW y
  PROVE  << x >> \o << y >> = << x, y >>
  <1> PICK X : X = {x, y} OBVIOUS
  <1>1. << x >> \in Seq(X) /\ << y >> \in Seq(X) /\ << x, y >> \in Seq(X) OBVIOUS
  <1> PICK s, t, u : s = << x >> /\ t = << y >> /\ u = << x, y >> OBVIOUS
  <1>2. /\ Len(s) = 1 /\ Len(t) = 1 /\ Len(u) = 2
        /\ s[1] = x /\ t[1] = y /\ u[1] = x /\ u[2] = y
    OBVIOUS
  <1>3. s \in Seq(X) /\ t \in Seq(X) /\ u \in Seq(X) BY <1>1
  <1>4. /\ s \o t \in Seq(X) /\ Len(s \o t) = 2
        /\ (s \o t)[1] = x /\ (s \o t)[2] = y
    <2>1. 1 \in 1..Len(s) /\ 1 \in 1..Len(t) /\ Len(s) + 1 = 2 BY <1>2
    <2>2. /\ (s \o t)[1] = s[1] /\ (s \o t)[Len(s) + 1] = t[1]
          /\ s \o t \in Seq(X) /\ Len(s \o t) = Len(s) + Len(t)
      BY <1>3, <2>1, ConcatParts
    <2> QED BY <1>2, <2>1, <2>2
  <1>5. \A i \in 1..2 : (s \o t)[i] = u[i]
    <2>1. \A i \in 1..2 : i = 1 \/ i = 2 OBVIOUS
    <2> QED BY <1>2, <1>4, <2>1
  <1>6. s \o t = u
    <2> PICK v : v = s \o t OBVIOUS
    <2>1. v \in Seq(X) /\ Len(v) = Len(u) /\ \A i \in 1..Len(u) : v[i] = u[i] BY <1>2, <1>4, <1>5
    <2>2. v = u BY <1>3, <2>1, SeqEqual
    <2> QED BY <2>2
  <1> QED BY <1>6

\* The answer of a frame's messages up to piece k.
Snapshot(k) == IF attempt.image THEN Append(Text(1, k), Image) ELSE Text(1, k)

LEMMA FallbackIs ==
  ASSUME NEW k \in 0..Pieces, NEW narrates \in BOOLEAN, NEW b,
         attempt.fate \in Fates, k # 0 => attempt.fate = "answer"
  PROVE  AnswerOf(Entries(k, narrates), b)
           = IF attempt.fate = "refusal" THEN <<Refusal>> ELSE IF k = 0 THEN b ELSE Snapshot(k)
  <1>1. k \in Int /\ k >= 0 /\ 1 <= k + 1 BY PiecesAssumption
  <1>2. <<Refusal>> # <<Narration>>
    <2>1. <<Refusal>>[1] = -2 /\ <<Narration>>[1] = -1 BY DEF Refusal, Narration
    <2> QED BY <2>1
  <1>3. ASSUME k # 0 PROVE Snapshot(k) # <<Narration>>
    <2>1. Text(1, k) \in Seq(Int) /\ Text(1, k)[1] = 1 /\ Text(1, k) # <<>>
      <3>1. 1 <= k /\ ~ (k < 1) BY <1>1, <1>3
      <3> QED BY <1>1, <3>1, TextLen
    <2>2. Append(Text(1, k), Image)[1] = 1
      <3>1. Image \in Int /\ 1 \in 1..Len(Text(1, k)) BY <2>1, EmptySeq DEF Image
      <3> QED BY <2>1, <3>1, AppendProperties
    <2>3. <<Narration>>[1] = -1 BY DEF Narration
    <2> QED BY <2>1, <2>2, <2>3 DEF Snapshot
  <1>4. \A x, y : << x >> \o << y >> = << x, y >> BY PairConcat
  <1>5. \A x : <<>> \o << x >> = << x >> /\ << x >> \o <<>> = << x >> OBVIOUS
  <1>6. <<>> \o <<>> = <<>> OBVIOUS
  <1>7. CASE attempt.fate = "refusal"
    <2>1. Entries(k, narrates) = IF narrates THEN << <<Refusal>>, <<Narration>> >> ELSE << <<Refusal>> >>
      BY <1>4, <1>5, <1>7 DEF Entries
    <2> QED BY <1>2, <1>7, <2>1, AnswerOfEntries
  <1>8. CASE attempt.fate # "refusal" /\ k = 0
    <2>1. Entries(k, narrates) = IF narrates THEN << <<Narration>> >> ELSE <<>>
      BY <1>5, <1>6, <1>8 DEF Entries
    <2> QED BY <1>2, <1>8, <2>1, AnswerOfEntries
  <1>9. CASE attempt.fate # "refusal" /\ k # 0
    <2>1. Entries(k, narrates) = IF narrates THEN << Snapshot(k), <<Narration>> >> ELSE << Snapshot(k) >>
      BY <1>4, <1>5, <1>9 DEF Entries, Snapshot
    <2> QED BY <1>3, <1>9, <2>1, AnswerOfEntries
  <1> QED BY <1>7, <1>8, <1>9

-----------------------------------------------------------------------------
(* What an update frame does, its parts named.                             *)

Delta(first, last) == IF last = 0 THEN <<>> ELSE attempt.held \o Text(first, last)

Passed(first, last, holds) == IF holds THEN Front(Delta(first, last)) ELSE Delta(first, last)

Opening(text) == IF text # <<>> /\ ~ attempt.any THEN attempt.fallback ELSE <<>>

SplitOf(text) == SplitLead(IF Opening(text) # <<>> THEN Opening(text) ELSE attempt.lead, text)

FrameEntries(last, split, k, narrates) ==
  IF last # 0 /\ split.text = <<>> THEN <<>> ELSE Entries(k, narrates)

Caught(opening, split, entries) ==
  IF entries = <<>> THEN <<>>
  ELSE CatchUp(attempt.streamed \o opening \o split.text, AnswerOf(entries, attempt.fallback))

Shown(last, split, image) == IF image /\ ~ (last # 0 /\ split.text = <<>>) THEN <<Image>> ELSE <<>>

SaidText(opening, split, caught, shown) == opening \o split.text \o caught \o shown

\* The attempt after a frame, field by field.
Merged(first, last, holds, k, image, text, split, entries, caught, said) ==
  /\ verdict = None /\ verdict' = verdict /\ ~ attempt.completed
  /\ last # 0 => /\ attempt.fate = "answer"
                 /\ \/ first = attempt.cursor + 1
                    \/ first > attempt.covered /\ attempt.held = <<>> /\ (holds => first < last)
  /\ holds => last # 0
  /\ k # 0 => attempt.fate = "answer"
  /\ image => attempt.fate = "answer"
  /\ attempt'.n = attempt.n /\ attempt'.start = attempt.start
  /\ attempt'.healed = attempt.healed /\ attempt'.spare = attempt.spare
  /\ attempt'.fate = attempt.fate
  /\ attempt'.completed = attempt.completed /\ attempt'.failed = attempt.failed
  /\ attempt'.cursor = (IF last = 0 THEN attempt.cursor ELSE last)
  /\ attempt'.covered = (IF k > attempt.covered THEN k ELSE attempt.covered)
  /\ attempt'.image = (attempt.image \/ image)
  /\ attempt'.held = (IF last = 0 THEN attempt.held
                      ELSE IF holds THEN <<Last(Delta(first, last))>> ELSE <<>>)
  /\ attempt'.lead = (IF last = 0 \/ text = <<>> THEN attempt.lead ELSE split.lead) \o caught
  /\ attempt'.streamed = attempt.streamed \o said
  /\ attempt'.fallback = AnswerOf(entries, attempt.fallback)
  /\ attempt'.any = (attempt.any \/ said # <<>>)
  /\ delivered' = WithText(attempt, said)
  /\ (/\ attempt'.cursor \in 0..Pieces /\ attempt'.covered \in 0..Pieces
      /\ attempt'.image \in BOOLEAN /\ attempt'.any \in BOOLEAN
      /\ attempt'.streamed \in Texts /\ attempt'.lead \in Texts /\ attempt'.held \in Texts
      /\ attempt'.fallback \in Texts \cup {<<Refusal>>})
     => attempt' \in Attempts

LEMMA UpdateFields ==
  ASSUME NEW last, NEW first, NEW holds, NEW k, NEW narrates, NEW image,
         Update(first, last, holds, k, narrates, image), attempt \in Attempts
  PROVE  LET text == Passed(first, last, holds)
             opening == Opening(text)
             split == SplitOf(text)
             entries == FrameEntries(last, split, k, narrates)
             caught == Caught(opening, split, entries)
             shown == Shown(last, split, image)
             said == SaidText(opening, split, caught, shown) IN
         Merged(first, last, holds, k, image, text, split, entries, caught, said)
  <1> DEFINE text == Passed(first, last, holds)
             opening == Opening(text)
             split == SplitOf(text)
             entries == FrameEntries(last, split, k, narrates)
             caught == Caught(opening, split, entries)
             shown == Shown(last, split, image)
             said == SaidText(opening, split, caught, shown)
             A == /\ verdict = None /\ verdict' = verdict /\ ~ attempt.completed
                  /\ last # 0 => /\ attempt.fate = "answer"
                        /\ \/ first = attempt.cursor + 1
                           \/ first > attempt.covered /\ attempt.held = <<>> /\ (holds => first < last)
                  /\ holds => last # 0
                  /\ k # 0 => attempt.fate = "answer"
                  /\ image => attempt.fate = "answer"
             c == IF last = 0 THEN attempt.cursor ELSE last
             v == IF k > attempt.covered THEN k ELSE attempt.covered
             im == attempt.image \/ image
             h == IF last = 0 THEN attempt.held ELSE IF holds THEN <<Last(Delta(first, last))>> ELSE <<>>
             ld == (IF last = 0 \/ text = <<>> THEN attempt.lead ELSE split.lead) \o caught
             st == attempt.streamed \o said
             fb == AnswerOf(entries, attempt.fallback)
             an == attempt.any \/ said # <<>>
             new == [attempt EXCEPT !.cursor = c, !.covered = v, !.image = im, !.held = h,
                       !.lead = ld, !.streamed = st, !.fallback = fb, !.any = an]
  <1>1. A /\ attempt' = new /\ delivered' = WithText(attempt, said)
    BY Zenon DEF Update, Receives, Delta, Passed, Opening, SplitOf, FrameEntries, Caught, Shown, SaidText
  <1> HIDE DEF text, opening, split, entries, caught, shown, said, A, c, v, im, h, ld, st, fb, an
  <1>2. /\ new.n = attempt.n /\ new.start = attempt.start
        /\ new.healed = attempt.healed /\ new.spare = attempt.spare
        /\ new.fate = attempt.fate
        /\ new.completed = attempt.completed /\ new.failed = attempt.failed
        /\ new.cursor = c /\ new.covered = v /\ new.image = im /\ new.held = h /\ new.lead = ld
        /\ new.streamed = st /\ new.fallback = fb /\ new.any = an
    BY DEF Attempts
  <1>3. (/\ c \in 0..Pieces /\ v \in 0..Pieces /\ im \in BOOLEAN /\ an \in BOOLEAN
         /\ st \in Texts /\ ld \in Texts /\ h \in Texts /\ fb \in Texts \cup {<<Refusal>>})
        => new \in Attempts
    BY DEF Attempts
  <1> HIDE DEF new
  <1>4. A BY <1>1
  <1>5. Merged(first, last, holds, k, image, text, split, entries, caught, said)
    BY <1>1, <1>2, <1>3, <1>4, Zenon DEF Merged, A, c, v, im, h, ld, st, fb, an
  <1> QED BY <1>5, Zenon DEF text, opening, split, entries, caught, shown, said

LEMMA UpdateParts ==
  ASSUME NEW last, NEW first, NEW holds, NEW k, NEW narrates, NEW image,
         Update(first, last, holds, k, narrates, image), attempt \in Attempts,
         NEW text, text = Passed(first, last, holds),
         NEW opening, opening = Opening(text), NEW split, split = SplitOf(text),
         NEW entries, entries = FrameEntries(last, split, k, narrates),
         NEW caught, caught = Caught(opening, split, entries),
         NEW shown, shown = Shown(last, split, image),
         NEW said, said = SaidText(opening, split, caught, shown)
  PROVE  Merged(first, last, holds, k, image, text, split, entries, caught, said)
  BY UpdateFields

-----------------------------------------------------------------------------
LEMMA TextsClosed ==
  ASSUME NEW s \in Texts, NEW t \in Texts
  PROVE  /\ s \o t \in Texts
         /\ <<>> \in Texts
         /\ CatchUp(s, t) \in Texts
         /\ SplitLead(s, t).lead \in Texts /\ SplitLead(s, t).text \in Texts
         /\ s # <<>> => Front(s) \in Texts /\ <<Last(s)>> \in Texts
         /\ Append(s, Image) \in Texts /\ <<Image>> \in Texts
  <1>1. s \o t \in Texts /\ <<>> \in Texts BY ConcatProperties, EmptySeq DEF Texts
  <1>2. ASSUME NEW r \in Texts, NEW n \in 0..Len(r) PROVE Rest(r, n) \in Texts
    BY <1>2, RestIs DEF Texts
  <1>3. Len(s) \in Nat /\ Len(t) \in Nat /\ 0 \in 0..Pieces BY PiecesAssumption DEF Texts
  <1>4. ASSUME IsPrefix(s, t) PROVE Rest(t, Len(s)) \in Texts
    <2>1. Len(s) \in 0..Len(t) BY <1>3, <1>4 DEF IsPrefix
    <2> QED BY <1>2, <2>1
  <1>5. ASSUME IsPrefix(t, s) PROVE Rest(s, Len(t)) \in Texts
    <2>1. Len(t) \in 0..Len(s) BY <1>3, <1>5 DEF IsPrefix
    <2> QED BY <1>2, <2>1
  <1>6. CatchUp(s, t) \in Texts BY <1>1, <1>4 DEF CatchUp
  <1>7. SplitLead(s, t).lead \in Texts /\ SplitLead(s, t).text \in Texts
    <2>1. CASE IsPrefix(t, s)
      <3>1. SplitLead(s, t) = [lead |-> Rest(s, Len(t)), text |-> <<>>] BY <2>1 DEF SplitLead
      <3> QED BY <1>1, <1>5, <2>1, <3>1
    <2>2. CASE ~ IsPrefix(t, s) /\ IsPrefix(s, t)
      <3>1. SplitLead(s, t) = [lead |-> <<>>, text |-> Rest(t, Len(s))] BY <2>2 DEF SplitLead
      <3> QED BY <1>1, <1>4, <2>2, <3>1
    <2>3. CASE ~ IsPrefix(t, s) /\ ~ IsPrefix(s, t)
      <3>1. SplitLead(s, t) = [lead |-> <<>>, text |-> t] BY <2>3 DEF SplitLead
      <3> QED BY <1>1, <3>1
    <2> QED BY <2>1, <2>2, <2>3
  <1>8. ASSUME s # <<>> PROVE Front(s) \in Texts /\ <<Last(s)>> \in Texts
    <2>1. Len(s) \in Nat /\ Len(s) # 0 /\ s \in Seq(0..Pieces) BY <1>8, EmptySeq DEF Texts
    <2>2. \A i \in 1..Len(s) : s[i] \in 0..Pieces BY <2>1, ElementOfSeq
    <2>3. \A i \in 1..(Len(s) - 1) : s[i] \in 0..Pieces BY <2>1, <2>2
    <2>4. SubSeq(s, 1, Len(s) - 1) \in Seq(0..Pieces) BY <2>1, <2>3, SubSeqProperties
    <2>5. s[Len(s)] \in 0..Pieces BY <2>1, <2>2
    <2> QED BY <2>4, <2>5 DEF Front, Last, Texts
  <1>9. Append(s, Image) \in Texts /\ <<Image>> \in Texts
    BY <1>3, AppendProperties DEF Texts, Image
  <1> QED BY <1>1, <1>6, <1>7, <1>8, <1>9

LEMMA TextInTexts ==
  ASSUME NEW f \in Int, NEW l \in 0..Pieces, f <= l + 1, 0 <= f
  PROVE  Text(f, l) \in Texts
  <1>1. l \in Int /\ f..l \subseteq 0..Pieces BY PiecesAssumption
  <1> QED BY <1>1, TextIn DEF Texts

LEMMA SnapshotText ==
  ASSUME NEW k \in 0..Pieces
  PROVE  Snapshot(k) \in Texts
  <1>1. 1 <= k + 1 /\ 0 <= 1 BY PiecesAssumption
  <1>2. Text(1, k) \in Texts BY <1>1, TextInTexts
  <1> QED BY <1>2, TextsClosed DEF Snapshot

-----------------------------------------------------------------------------
\* What is said of an update frame: its types, by the fate of the attempt.
LEMMA UpdateOther ==
  ASSUME AttemptInv, attempt.fate # "answer",
         NEW last, NEW first, NEW holds \in BOOLEAN, NEW k \in 0..Pieces,
         NEW narrates \in BOOLEAN, NEW image \in BOOLEAN,
         NEW text, text = Passed(first, last, holds),
         NEW opening, opening = Opening(text), NEW split, split = SplitOf(text),
         NEW entries, entries = FrameEntries(last, split, k, narrates),
         NEW caught, caught = Caught(opening, split, entries),
         NEW shown, shown = Shown(last, split, image),
         NEW said, said = SaidText(opening, split, caught, shown),
         Merged(first, last, holds, k, image, text, split, entries, caught, said)
  PROVE  AttemptInv' /\ said \in Texts
  <1>1. attempt \in Attempts /\ Silent(attempt) BY DEF AttemptInv
  <1>2. /\ attempt.image = FALSE /\ attempt.streamed = <<>> /\ attempt.lead = <<>> /\ attempt.held = <<>>
        /\ attempt.fallback \in {<<>>, <<Refusal>>} /\ attempt.any = FALSE
    BY <1>1 DEF Silent, Attempts
  <1>3. last = 0 /\ holds = FALSE /\ k = 0 /\ image = FALSE BY DEF Merged
  <1>4. text = <<>> BY <1>3 DEF Passed, Delta
  <1>5. opening = <<>> BY <1>4 DEF Opening
  <1>6. split.text = <<>> /\ split.lead = <<>>
    <2>1. split = SplitLead(<<>>, <<>>) BY <1>2, <1>4, <1>5 DEF SplitOf, Opening
    <2>2. <<>> \in Seq(Int) BY EmptySeq
    <2>3. IsPrefix(<<>>, <<>>) /\ Rest(<<>>, 0) = <<>> BY <2>2, EmptyPrefix
    <2>4. Len(<<>>) = 0 OBVIOUS
    <2> QED BY <2>1, <2>3, <2>4 DEF SplitLead
  <1>7. <<>> \o <<>> = <<>> /\ <<>> \in Texts
    <2>1. <<>> \in Texts BY EmptySeq DEF Texts
    <2>2. <<>> \o <<>> = <<>> OBVIOUS
    <2> QED BY <2>1, <2>2
  <1>8. caught = <<>> BY <1>2, <1>5, <1>6, <1>7 DEF Caught, CatchUp
  <1>9. shown = <<>> BY <1>3 DEF Shown
  <1>10. said = <<>> BY <1>5, <1>6, <1>7, <1>8, <1>9 DEF SaidText
  <1>11. attempt'.fallback \in {<<>>, <<Refusal>>}
    <2>1. entries = Entries(k, narrates) BY <1>3 DEF FrameEntries
    <2>2. attempt.fate \in Fates BY <1>1, OfFields
    <2>3. AnswerOf(Entries(k, narrates), attempt.fallback)
            = IF attempt.fate = "refusal" THEN <<Refusal>> ELSE IF k = 0 THEN attempt.fallback ELSE Snapshot(k)
      BY <1>3, <2>2, FallbackIs
    <2>4. attempt'.fallback = AnswerOf(entries, attempt.fallback) BY DEF Merged
    <2> QED BY <1>2, <1>3, <2>1, <2>3, <2>4
  <1>12. /\ attempt'.streamed = <<>> /\ attempt'.lead = <<>> /\ attempt'.held = <<>>
         /\ attempt'.image = FALSE /\ attempt'.any = FALSE /\ attempt'.fate = attempt.fate
    BY <1>2, <1>3, <1>7, <1>8, <1>10 DEF Merged
  <1>13. attempt'.cursor \in 0..Pieces /\ attempt'.covered \in 0..Pieces
    <2>1. attempt.cursor \in 0..Pieces /\ attempt.covered \in 0..Pieces BY <1>1, OfFields
    <2> QED BY <1>3, <2>1 DEF Merged
  <1>14. attempt' \in Attempts
    <2>1. /\ attempt'.image \in BOOLEAN /\ attempt'.any \in BOOLEAN
          /\ attempt'.streamed \in Texts /\ attempt'.lead \in Texts /\ attempt'.held \in Texts
          /\ attempt'.fallback \in Texts \cup {<<Refusal>>}
      BY <1>7, <1>11, <1>12
    <2> QED BY <1>13, <2>1 DEF Merged
  <1>15. Silent(attempt')
    BY <1>11, <1>12 DEF Silent
  <1>16. InOrder(attempt') BY <1>12 DEF InOrder
  <1> QED BY <1>7, <1>10, <1>14, <1>15, <1>16 DEF AttemptInv

LEMMA UpdateAnswer ==
  ASSUME AttemptInv, attempt.fate = "answer",
         NEW last \in 0..Pieces, NEW first \in Int, last # 0 => first \in (attempt.cursor + 1)..last,
         NEW holds \in BOOLEAN, NEW k \in 0..Pieces,
         NEW narrates \in BOOLEAN, NEW image \in BOOLEAN,
         NEW text, text = Passed(first, last, holds),
         NEW opening, opening = Opening(text), NEW split, split = SplitOf(text),
         NEW entries, entries = FrameEntries(last, split, k, narrates),
         NEW caught, caught = Caught(opening, split, entries),
         NEW shown, shown = Shown(last, split, image),
         NEW said, said = SaidText(opening, split, caught, shown),
         Merged(first, last, holds, k, image, text, split, entries, caught, said)
  PROVE  /\ attempt' \in Attempts /\ Silent(attempt') /\ said \in Texts
         /\ text \in Texts /\ opening \in Texts /\ split.text \in Texts /\ split.lead \in Texts
         /\ caught \in Texts /\ shown \in Texts
         /\ attempt'.fallback
              = IF entries = <<>> \/ k = 0 THEN attempt.fallback ELSE Snapshot(k)
  <1>1. attempt \in Attempts /\ Silent(attempt) BY DEF AttemptInv
  <1>2. /\ attempt.cursor \in 0..Pieces /\ attempt.covered \in 0..Pieces /\ attempt.fate \in Fates
        /\ attempt.streamed \in Texts /\ attempt.lead \in Texts /\ attempt.held \in Texts
        /\ attempt.fallback \in Texts /\ attempt.image \in BOOLEAN /\ attempt.any \in BOOLEAN
        /\ (attempt.any <=> attempt.streamed # <<>>)
    <2>1. attempt.fallback \in Texts /\ (attempt.any <=> attempt.streamed # <<>>) BY <1>1 DEF Silent
    <2> QED BY <1>1, <2>1, OfFields
  <1>3. <<>> \in Texts /\ <<Image>> \in Texts
    BY <1>2, TextsClosed
  <1>4. /\ Delta(first, last) \in Texts
        /\ last # 0 => Delta(first, last) # <<>>
    <2>1. CASE last = 0 BY <1>3, <2>1 DEF Delta
    <2>2. CASE last # 0
      <3>1. /\ first <= last + 1 /\ first <= last /\ 0 <= first /\ last \in Int /\ ~ (last < first)
        BY <1>2, <2>2, PiecesAssumption
      <3>2. Text(first, last) \in Texts BY <3>1, TextInTexts
      <3>3. Text(first, last) # <<>> BY <3>1, TextLen
      <3>4. attempt.held \o Text(first, last) \in Texts BY <1>2, <3>2, TextsClosed
      <3>5. attempt.held \o Text(first, last) # <<>> BY <1>2, <3>2, <3>3, ConcatParts DEF Texts
      <3> QED BY <2>2, <3>4, <3>5 DEF Delta
    <2> QED BY <2>1, <2>2
  <1>5. holds => last # 0 BY DEF Merged
  <1>6. text \in Texts
    <2>1. holds => Front(Delta(first, last)) \in Texts BY <1>4, <1>5, TextsClosed
    <2> QED BY <1>4, <2>1 DEF Passed
  <1>7. opening \in Texts BY <1>2, <1>3 DEF Opening
  <1>8. split.text \in Texts /\ split.lead \in Texts
    <2> PICK from : from = IF opening # <<>> THEN opening ELSE attempt.lead OBVIOUS
    <2>1. from \in Texts BY <1>2, <1>7
    <2>2. split = SplitLead(from, text) BY DEF SplitOf
    <2> QED BY <1>6, <2>1, <2>2, TextsClosed
  <1>9. /\ attempt'.fallback = IF entries = <<>> \/ k = 0 THEN attempt.fallback ELSE Snapshot(k)
        /\ attempt'.fallback \in Texts
        /\ attempt'.fallback = AnswerOf(entries, attempt.fallback)
    <2>1. attempt'.fallback = AnswerOf(entries, attempt.fallback) BY DEF Merged
    <2>2. CASE entries = <<>>
      <3>1. AnswerOf(<<>>, attempt.fallback) = attempt.fallback
        <4>1. <<Refusal>> # <<Narration>>
          <5>1. <<Refusal>>[1] = -2 /\ <<Narration>>[1] = -1 BY DEF Refusal, Narration
          <5> QED BY <5>1
        <4> QED BY <4>1, AnswerOfEntries
      <3> QED BY <1>2, <2>1, <2>2, <3>1
    <2>3. CASE entries # <<>>
      <3>1. entries = Entries(k, narrates) BY <2>3 DEF FrameEntries
      <3>2. AnswerOf(Entries(k, narrates), attempt.fallback)
              = IF attempt.fate = "refusal" THEN <<Refusal>>
                ELSE IF k = 0 THEN attempt.fallback ELSE Snapshot(k)
        BY <1>2, FallbackIs
      <3>3. attempt'.fallback = IF k = 0 THEN attempt.fallback ELSE Snapshot(k)
        BY <2>1, <3>1, <3>2
      <3>4. Snapshot(k) \in Texts BY SnapshotText
      <3> QED BY <1>2, <2>1, <2>3, <3>3, <3>4
    <2> QED BY <2>2, <2>3
  <1>10. caught \in Texts
    <2>1. attempt.streamed \o opening \o split.text \in Texts
      <3>1. attempt.streamed \o opening \in Texts BY <1>2, <1>7, TextsClosed
      <3> QED BY <1>8, <3>1, TextsClosed
    <2>2. CatchUp(attempt.streamed \o opening \o split.text, AnswerOf(entries, attempt.fallback)) \in Texts
      BY <1>9, <2>1, TextsClosed
    <2> QED BY <1>3, <2>2 DEF Caught
  <1>11. shown \in Texts BY <1>3 DEF Shown
  <1>12. said \in Texts
    <2>1. opening \o split.text \in Texts BY <1>7, <1>8, TextsClosed
    <2>2. opening \o split.text \o caught \in Texts BY <1>10, <2>1, TextsClosed
    <2> QED BY <1>11, <2>2, TextsClosed DEF SaidText
  <1>13. attempt'.streamed \in Texts /\ attempt'.lead \in Texts
    <2>1. /\ attempt'.streamed = attempt.streamed \o said
          /\ attempt'.lead = (IF last = 0 \/ text = <<>> THEN attempt.lead ELSE split.lead) \o caught
      BY DEF Merged
    <2>2. attempt.streamed \o said \in Texts BY <1>2, <1>12, TextsClosed
    <2>3. attempt.lead \o caught \in Texts /\ split.lead \o caught \in Texts
      BY <1>2, <1>8, <1>10, TextsClosed
    <2> QED BY <2>1, <2>2, <2>3
  <1>14. attempt'.held \in Texts
    <2>1. last # 0 => <<Last(Delta(first, last))>> \in Texts BY <1>4, TextsClosed
    <2> QED BY <1>2, <1>3, <2>1 DEF Merged
  <1>15. /\ attempt'.cursor \in 0..Pieces /\ attempt'.covered \in 0..Pieces
         /\ attempt'.image \in BOOLEAN /\ attempt'.any \in BOOLEAN
    BY <1>2 DEF Merged
  <1>16. attempt' \in Attempts
    BY <1>9, <1>13, <1>14, <1>15 DEF Merged
  <1>17. Silent(attempt')
    <2>1. attempt'.fate = "answer" BY DEF Merged
    <2>2. attempt'.streamed = <<>> <=> attempt.streamed = <<>> /\ said = <<>>
      <3>1. attempt.streamed \o said = <<>> <=> attempt.streamed = <<>> /\ said = <<>>
        BY <1>2, <1>12, ConcatParts DEF Texts
      <3> QED BY <3>1 DEF Merged
    <2>3. attempt'.any <=> attempt'.streamed # <<>> BY <1>2, <2>2 DEF Merged
    <2> QED BY <1>9, <2>1, <2>3 DEF Silent
  <1> QED BY <1>6, <1>7, <1>8, <1>9, <1>10, <1>11, <1>12, <1>16, <1>17

LEMMA JoinedAssociative ==
  ASSUME NEW X, NEW s \in Seq(X), NEW t \in Seq(X), NEW u \in Seq(X)
  PROVE  Joined(s, Joined(t, u)) = Joined(Joined(s, t), u) /\ Joined(s, <<>>) = s /\ Joined(s, t) \in Seq(X)
  BY ConcatAssociative, ConcatProperties, ConcatEmptySeq DEF Joined

LEMMA Regroup ==
  ASSUME NEW s \in Texts, NEW opening \in Texts, NEW split, split.text \in Texts,
         NEW caught \in Texts, NEW shown, shown = <<>>
  PROVE  Joined(s, SaidText(opening, split, caught, shown))
           = Joined(Joined(Joined(s, opening), split.text), caught)
  <1> PICK u : u = split.text OBVIOUS
  <1>1. s \in Texts /\ opening \in Texts /\ u \in Texts /\ caught \in Texts OBVIOUS
  <1>2. Joined(opening, u) \in Texts BY <1>1, JoinedAssociative DEF Texts
  <1>3. Joined(Joined(opening, u), caught) \in Texts BY <1>1, <1>2, JoinedAssociative DEF Texts
  <1>4. Joined(Joined(Joined(opening, u), caught), <<>>) = Joined(Joined(opening, u), caught)
    BY <1>3, JoinedAssociative DEF Texts
  <1>5. Joined(s, Joined(Joined(opening, u), caught)) = Joined(Joined(s, Joined(opening, u)), caught)
    BY <1>1, <1>2, JoinedAssociative DEF Texts
  <1>6. Joined(s, Joined(opening, u)) = Joined(Joined(s, opening), u)
    BY <1>1, JoinedAssociative DEF Texts
  <1>7. SaidText(opening, split, caught, shown) = Joined(Joined(Joined(opening, u), caught), <<>>)
    BY Zenon DEF SaidText, Joined
  <1> QED BY <1>4, <1>5, <1>6, <1>7

\* Its order, while there is no image.
LEMMA UpdateOrder ==
  ASSUME AttemptInv, attempt.fate = "answer",
         NEW last \in 0..Pieces, NEW first \in Int, last # 0 => first \in (attempt.cursor + 1)..last,
         NEW holds \in BOOLEAN, NEW k \in 0..Pieces,
         NEW narrates \in BOOLEAN, NEW image \in BOOLEAN,
         NEW text, text = Passed(first, last, holds),
         NEW opening, opening = Opening(text), NEW split, split = SplitOf(text),
         NEW entries, entries = FrameEntries(last, split, k, narrates),
         NEW caught, caught = Caught(opening, split, entries),
         NEW shown, shown = Shown(last, split, image),
         NEW said, said = SaidText(opening, split, caught, shown),
         Merged(first, last, holds, k, image, text, split, entries, caught, said),
         text \in Texts, opening \in Texts, split.text \in Texts, split.lead \in Texts,
         caught \in Texts, said \in Texts,
         attempt'.fallback = IF entries = <<>> \/ k = 0 THEN attempt.fallback ELSE Snapshot(k)
  PROVE  InOrder(attempt')
  <1> SUFFICES ASSUME ~ attempt'.image
               PROVE  /\ Holds(attempt') /\ Restates(attempt')
                      /\ Aligned(attempt'.streamed, attempt'.lead, Through(attempt'), attempt'.covered)
    BY DEF InOrder
  <1>1. attempt \in Attempts /\ Silent(attempt) /\ InOrder(attempt) BY DEF AttemptInv
  <1>2. attempt.image = FALSE /\ image = FALSE /\ ~ attempt.completed /\ attempt'.completed = attempt.completed
    BY <1>1, OfFields DEF Merged
  <1>3. shown = <<>> BY <1>2 DEF Shown
  <1>4. /\ Holds(attempt) /\ Restates(attempt)
        /\ Aligned(attempt.streamed, attempt.lead, Through(attempt), attempt.covered)
    BY <1>1, <1>2 DEF InOrder
  <1>5. /\ attempt.cursor \in 0..Pieces /\ attempt.covered \in 0..Pieces
        /\ attempt.any \in BOOLEAN /\ (attempt.any <=> attempt.streamed # <<>>)
        /\ attempt.streamed \in Texts /\ attempt.lead \in Texts /\ attempt.held \in Texts
    BY <1>1, OfFields DEF Silent
  <1>6. PICK m \in 0..Pieces : attempt.fallback = Text(1, m) /\ m <= attempt.covered
    BY <1>2, <1>4 DEF Restates
  <1>7. attempt.streamed \in Seq(1..Pieces) /\ Through(attempt) \in 0..Pieces
    <2>1. attempt.streamed \in Seq(1..Pieces) BY <1>4 DEF Aligned
    <2>2. attempt.held # <<>> => attempt.cursor > 0 BY <1>4 DEF Holds
    <2> QED BY <1>5, <2>1, <2>2, PiecesAssumption DEF Through
  <1> PICK shownBefore : shownBefore = Joined(attempt.streamed, opening) OBVIOUS
  <1> PICK from : from = IF opening # <<>> THEN opening ELSE attempt.lead OBVIOUS
  <1>8. Aligned(shownBefore, from, Through(attempt), attempt.covered)
    <2>1. CASE opening = <<>>
      <3>1. shownBefore = attempt.streamed BY <1>7, <2>1, ConcatEmptySeq DEF Joined
      <3> QED BY <1>4, <2>1, <3>1
    <2>2. CASE opening # <<>>
      <3>1. attempt.streamed = <<>> /\ opening = Text(1, m) BY <1>5, <1>6, <2>2 DEF Opening
      <3>2. Reached(attempt.streamed) = 0 BY <3>1 DEF Reached
      <3>3. Through(attempt) = 0 BY <1>4, <1>7, <3>2 DEF Aligned
      <3> PICK s : s = attempt.streamed OBVIOUS
      <3>4. /\ s \in Seq(1..Pieces) /\ Ascending(s) /\ Reached(s) = 0
            /\ 0 < 1 /\ 1 <= m + 1 /\ 1 \in Int /\ m \in Nat /\ Reached(s) < 1
        BY <1>4, <1>7, <3>1, <3>2, PiecesAssumption DEF Aligned
      <3>5. /\ s \o Text(1, m) \in Seq(1..Pieces) /\ Ascending(s \o Text(1, m))
            /\ Reached(s \o Text(1, m)) = IF 1 <= m THEN m ELSE Reached(s)
        BY <3>4, Grows
      <3>6. shownBefore = s \o Text(1, m) /\ shownBefore = from
        <4>1. <<>> \o opening = opening BY ConcatEmptySeq DEF Texts
        <4> QED BY <2>2, <3>1, <4>1 DEF Joined
      <3>7. shownBefore = Text(1, m) /\ Reached(shownBefore) = m
        <4>1. Reached(shownBefore) = m BY <3>4, <3>5, <3>6
        <4> QED BY <2>2, <3>1, <3>6, <4>1
      <3>8. from = Text(0 + 1, Reached(shownBefore))
        <4>1. 0 + 1 = 1 OBVIOUS
        <4> QED BY <3>6, <3>7, <4>1
      <3> QED BY <1>6, <3>3, <3>4, <3>5, <3>6, <3>7, <3>8 DEF Aligned
    <2> QED BY <2>1, <2>2
  <1>9. split = SplitLead(from, text) BY DEF SplitOf
  <1> PICK shownNow : shownNow = Joined(shownBefore, split.text) OBVIOUS
  <1> PICK left : left = IF last = 0 \/ text = <<>> THEN attempt.lead ELSE split.lead OBVIOUS
  <1>10. /\ Aligned(shownNow, left, Through(attempt'), attempt.covered)
         /\ Holds(attempt') /\ Through(attempt') \in 0..Pieces
    <2>1. CASE last = 0
      <3>1. text = <<>>
        <4>1. holds = FALSE BY <2>1 DEF Merged
        <4> QED BY <2>1, <4>1 DEF Passed, Delta
      <3>2. opening = <<>> /\ left = from BY <2>1, <3>1 DEF Opening
      <3>3. split.text = <<>>
        <4>1. IsPrefix(<<>>, from) BY <1>5, <3>2, EmptyPrefix DEF Texts
        <4> QED BY <1>9, <3>1, <4>1 DEF SplitLead
      <3>4. shownNow = shownBefore
        <4>1. shownBefore \in Seq(1..Pieces) BY <1>8 DEF Aligned
        <4> QED BY <3>3, <4>1, ConcatEmptySeq DEF Joined
      <3>5. attempt'.held = attempt.held /\ attempt'.cursor = attempt.cursor BY <2>1 DEF Merged
      <3>6. Through(attempt') = Through(attempt) BY <3>5 DEF Through
      <3>7. Holds(attempt') BY <1>4, <3>5 DEF Holds
      <3> QED BY <1>7, <1>8, <3>2, <3>4, <3>6, <3>7
    <2>2. CASE last # 0
      <3> PICK l : l = IF holds THEN last - 1 ELSE last OBVIOUS
      <3> PICK delta : delta = Joined(attempt.held, Text(first, last)) OBVIOUS
      <3>1. /\ last \in 1..Pieces /\ first \in (attempt.cursor + 1)..last
            /\ \/ first = attempt.cursor + 1
               \/ first > attempt.covered /\ attempt.held = <<>> /\ (holds => first < last)
        BY <2>2, PiecesAssumption DEF Merged
      <3>2. Delta(first, last) = delta /\ text = IF holds THEN Front(delta) ELSE delta
        BY <2>2 DEF Delta, Passed, Joined
      <3>3. /\ Through(attempt) \in 0..Pieces /\ l \in 0..Pieces
            /\ Last(delta) = last
            /\ Continues(attempt, text, l)
        <4> PICK a : a = attempt OBVIOUS
        <4>1. /\ a \in Attempts /\ Holds(a) /\ first \in (a.cursor + 1)..last
              /\ \/ first = a.cursor + 1
                 \/ first > a.covered /\ a.held = <<>> /\ (holds => first < last)
              /\ delta = Joined(a.held, Text(first, last))
          BY <1>1, <1>4, <3>1
        <4>2. /\ Through(a) \in 0..Pieces /\ l \in 0..Pieces
              /\ Last(delta) = last
              /\ Continues(a, text, l)
          BY <3>1, <3>2, <4>1, DeltaText
        <4> QED BY <4>2
      <3>4. PICK f \in Int :
                 /\ text = Text(f, l) /\ f <= l + 1
                 /\ f = Through(attempt) + 1 \/ (Through(attempt) < f /\ attempt.covered < f /\ f <= l)
        BY <3>3 DEF Continues
      <3>5. /\ attempt'.cursor = last
            /\ attempt'.held = IF holds THEN <<last>> ELSE <<>>
        BY <2>2, <3>3, <3>2 DEF Merged
      <3>6. Through(attempt') = l /\ Holds(attempt')
        <4>1. last \in Int /\ last > 0 BY <3>1
        <4>2. <<last>> # <<>> OBVIOUS
        <4>3. CASE holds BY <3>5, <4>1, <4>2, <4>3 DEF Through, Holds
        <4>4. CASE ~ holds BY <3>5, <4>1, <4>2, <4>4 DEF Through, Holds
        <4> QED BY <4>3, <4>4
      <3>7. /\ Aligned(shownBefore \o SplitLead(from, Text(f, l)).text, SplitLead(from, Text(f, l)).lead,
                       l, attempt.covered)
        BY <1>5, <1>7, <1>8, <3>3, <3>4, SplitAligned
      <3>8. Aligned(shownNow, split.lead, l, attempt.covered) BY <1>9, <3>4, <3>7 DEF Joined
      <3>9. left = split.lead
        <4>1. CASE text # <<>> BY <2>2, <4>1
        <4>2. CASE text = <<>>
          <5>1. opening = <<>> /\ from = attempt.lead BY <4>2 DEF Opening
          <5>2. IsPrefix(<<>>, from) /\ Rest(from, 0) = from BY <1>5, <5>1, EmptyPrefix DEF Texts
          <5>3. Len(<<>>) = 0 OBVIOUS
          <5>4. split.lead = from BY <1>9, <4>2, <5>2, <5>3 DEF SplitLead
          <5> QED BY <4>2, <5>1, <5>4
        <4> QED BY <4>1, <4>2
      <3> QED BY <3>3, <3>6, <3>8, <3>9
    <2> QED BY <2>1, <2>2
  <1>11. \E n \in 0..Pieces : attempt'.fallback = Text(1, n) /\ n <= attempt'.covered
    <2>1. attempt'.covered = IF k > attempt.covered THEN k ELSE attempt.covered BY DEF Merged
    <2>2. CASE entries = <<>> \/ k = 0
      <3>1. m <= attempt'.covered BY <1>5, <1>6, <2>1
      <3> QED BY <1>6, <2>2, <3>1
    <2>3. CASE ~ (entries = <<>> \/ k = 0)
      <3>1. k <= attempt'.covered BY <1>5, <2>1
      <3>2. attempt'.fallback = Text(1, k) BY <1>2, <2>3 DEF Snapshot
      <3> QED BY <3>1, <3>2
    <2> QED BY <2>2, <2>3
  <1>12. Restates(attempt') BY <1>2, <1>11 DEF Restates
  <1>13. PICK n \in 0..Pieces : attempt'.fallback = Text(1, n) /\ n <= attempt'.covered BY <1>11
  <1>14. attempt'.covered \in 0..Pieces /\ attempt.covered <= attempt'.covered
    BY <1>5 DEF Merged
  <1>15. Aligned(shownNow, left, Through(attempt'), attempt'.covered)
    BY <1>5, <1>10, <1>14, CoveredGrows
  <1>16. /\ attempt'.lead = left \o caught
         /\ attempt'.streamed = shownNow \o caught
    <2>1. attempt'.lead = left \o caught BY DEF Merged
    <2>2. attempt'.streamed = attempt.streamed \o said BY DEF Merged
    <2>3. Joined(attempt.streamed, said) = Joined(shownNow, caught) BY <1>3, <1>5, Regroup
    <2> QED BY <2>1, <2>2, <2>3 DEF Joined
  <1>17. Aligned(shownNow \o caught, left \o caught, Through(attempt'), attempt'.covered)
    <2>1. CASE entries = <<>>
      <3>1. caught = <<>> BY <2>1 DEF Caught
      <3>2. shownNow \o <<>> = shownNow
        <4>1. shownNow \in Seq(1..Pieces) BY <1>15 DEF Aligned
        <4> QED BY <4>1, ConcatEmptySeq
      <3>3. left \o <<>> = left
        <4>1. left \in Seq(0..Pieces) BY <1>5 DEF Texts
        <4> QED BY <4>1, ConcatEmptySeq
      <3> QED BY <1>15, <3>1, <3>2, <3>3
    <2>2. CASE entries # <<>>
      <3>1. attempt'.fallback = AnswerOf(entries, attempt.fallback) BY DEF Merged
      <3>2. caught = CatchUp(shownNow, Text(1, n)) BY <1>13, <2>2, <3>1 DEF Caught, Joined
      <3>3. Aligned(shownNow \o CatchUp(shownNow, Text(1, n)), left \o CatchUp(shownNow, Text(1, n)),
                    Through(attempt'), attempt'.covered)
        BY <1>10, <1>13, <1>14, <1>15, CatchUpAligned
      <3> QED BY <3>2, <3>3
    <2> QED BY <2>1, <2>2
  <1> QED BY <1>10, <1>12, <1>16, <1>17

-----------------------------------------------------------------------------
Pairs(n) == {n} \X (0..Pieces)

LEMMA TaggedIs ==
  ASSUME NEW n, NEW s \in Texts
  PROVE  /\ Tagged(n, s) \in Seq(Pairs(n)) /\ Len(Tagged(n, s)) = Len(s)
         /\ DOMAIN Tagged(n, s) = 1..Len(s) /\ DOMAIN s = 1..Len(s) /\ Len(s) \in Nat
         /\ \A i \in 1..Len(s) : Tagged(n, s)[i] = <<n, s[i]>> /\ s[i] \in 0..Pieces
         /\ Tagged(n, s) = <<>> <=> s = <<>>
  <1>1. Len(s) \in Nat /\ DOMAIN s = 1..Len(s) /\ \A i \in 1..Len(s) : s[i] \in 0..Pieces
    <2> PICK Y : Y = 0..Pieces OBVIOUS
    <2>1. s \in Seq(Y) BY DEF Texts
    <2>2. Len(s) \in Nat /\ DOMAIN s = 1..Len(s) /\ \A i \in 1..Len(s) : s[i] \in Y
      BY <2>1, LenProperties, ElementOfSeq
    <2> QED BY <2>2
  <1> PICK w : w = Tagged(n, s) OBVIOUS
  <1>2. w = [i \in 1..Len(s) |-> <<n, s[i]>>] BY <1>1 DEF Tagged
  <1>3. w \in Seq(Pairs(n)) /\ Len(w) = Len(s) /\ DOMAIN w = 1..Len(s)
    <2>1. \A i \in 1..Len(s) : <<n, s[i]>> \in Pairs(n) BY <1>1 DEF Pairs
    <2> QED BY <1>1, <1>2, <2>1
  <1>4. \A i \in 1..Len(s) : w[i] = <<n, s[i]>> BY <1>2
  <1>5. w = <<>> <=> s = <<>> BY <1>1, <1>3, EmptySeq DEF Texts
  <1> QED BY <1>1, <1>3, <1>4, <1>5

Concatenates(u, p, q) ==
  /\ Len(u) = Len(p) + Len(q)
  /\ \A i \in 1..(Len(p) + Len(q)) : u[i] = IF i <= Len(p) THEN p[i] ELSE q[i - Len(p)]

LEMMA JoinedIs ==
  ASSUME NEW X, NEW p \in Seq(X), NEW q \in Seq(X)
  PROVE  Joined(p, q) \in Seq(X) /\ Concatenates(Joined(p, q), p, q)
  BY ConcatProperties DEF Joined, Concatenates

Tags(p, n, s) == Len(p) = Len(s) /\ \A i \in 1..Len(s) : p[i] = <<n, s[i]>>

LEMMA TaggedTags ==
  ASSUME NEW n, NEW s \in Texts
  PROVE  Tagged(n, s) \in Seq(Pairs(n)) /\ Tags(Tagged(n, s), n, s)
  BY TaggedIs DEF Tags

LEMMA PairsJoined ==
  ASSUME NEW n, NEW s \in Texts, NEW t \in Texts, NEW X, NEW p \in Seq(X), NEW q \in Seq(X),
         Tags(p, n, s), Tags(q, n, t),
         NEW v \in Seq(X), Tags(v, n, Joined(s, t)), NEW u \in Seq(X), Concatenates(u, p, q)
  PROVE  u = v
  <1>1. Len(s) \in Nat /\ Len(t) \in Nat BY TaggedIs
  <1>2. /\ Len(u) = Len(s) + Len(t)
        /\ \A i \in 1..(Len(s) + Len(t)) : u[i] = IF i <= Len(s) THEN p[i] ELSE q[i - Len(s)]
    BY DEF Concatenates, Tags
  <1>3. /\ Len(Joined(s, t)) = Len(s) + Len(t)
        /\ \A i \in 1..(Len(s) + Len(t)) : Joined(s, t)[i] = IF i <= Len(s) THEN s[i] ELSE t[i - Len(s)]
    BY JoinedIs DEF Texts, Concatenates
  <1>4. ASSUME NEW i \in 1..Len(u) PROVE u[i] = v[i]
    <2>1. i \in 1..(Len(s) + Len(t)) /\ v[i] = <<n, Joined(s, t)[i]>> BY <1>2, <1>3, <1>4 DEF Tags
    <2>2. CASE i <= Len(s)
      <3>1. i \in 1..Len(s) BY <1>1, <2>1, <2>2
      <3> QED BY <1>2, <1>3, <2>1, <2>2, <3>1 DEF Tags
    <2>3. CASE ~ (i <= Len(s))
      <3>1. i - Len(s) \in 1..Len(t) BY <1>1, <2>1, <2>3
      <3>2. u[i] = q[i - Len(s)] BY <1>2, <2>1, <2>3
      <3>3. v[i] = <<n, t[i - Len(s)]>> BY <1>3, <2>1, <2>3
      <3> QED BY <3>1, <3>2, <3>3 DEF Tags
    <2> QED BY <2>2, <2>3
  <1>5. Len(u) = Len(v) BY <1>2, <1>3 DEF Tags
  <1> QED BY <1>4, <1>5, SeqEqual

LEMMA TaggedConcat ==
  ASSUME NEW n, NEW s \in Texts, NEW t \in Texts
  PROVE  Joined(Tagged(n, s), Tagged(n, t)) = Tagged(n, Joined(s, t))
  <1>1. Tagged(n, s) \in Seq(Pairs(n)) /\ Tags(Tagged(n, s), n, s) BY TaggedTags
  <1>2. Tagged(n, t) \in Seq(Pairs(n)) /\ Tags(Tagged(n, t), n, t) BY TaggedTags
  <1>3. Joined(s, t) \in Texts BY JoinedIs DEF Texts
  <1>4. Tagged(n, Joined(s, t)) \in Seq(Pairs(n)) /\ Tags(Tagged(n, Joined(s, t)), n, Joined(s, t))
    BY <1>3, TaggedTags
  <1>5. /\ Joined(Tagged(n, s), Tagged(n, t)) \in Seq(Pairs(n))
        /\ Concatenates(Joined(Tagged(n, s), Tagged(n, t)), Tagged(n, s), Tagged(n, t))
    BY <1>1, <1>2, JoinedIs
  <1> QED BY <1>1, <1>2, <1>4, <1>5, PairsJoined

\* ReadOnce of a text that was shown, with or without an image.
OnceRead(shown, image) ==
  /\ \A i, j \in DOMAIN shown : i < j /\ ~ image => shown[i][2] < shown[j][2]
  /\ \A i \in DOMAIN shown : shown[i][1] = shown[1][1] /\ shown[i][2] \notin {Narration, Refusal}

LEMMA TaggedReadsOnce ==
  ASSUME NEW n, NEW s \in Texts, NEW image, ~ image => Ascending(s)
  PROVE  OnceRead(Tagged(n, s), image)
  <1> PICK w : w = Tagged(n, s) OBVIOUS
  <1>1. /\ DOMAIN w = 1..Len(s) /\ DOMAIN s = 1..Len(s) /\ Len(s) \in Nat
        /\ \A i \in 1..Len(s) : w[i] = <<n, s[i]>> /\ s[i] \in 0..Pieces
    BY TaggedIs
  <1>2. \A i \in 1..Len(s) : w[i][1] = n /\ w[i][2] = s[i] BY <1>1
  <1>3. ASSUME NEW i \in DOMAIN w PROVE w[i][1] = w[1][1] /\ w[i][2] \notin {Narration, Refusal}
    <2>1. i \in 1..Len(s) /\ 1 \in 1..Len(s) BY <1>1, <1>3
    <2>2. s[i] \in 0..Pieces BY <1>1, <2>1
    <2>3. s[i] # -1 /\ s[i] # -2 BY <2>2, PiecesAssumption
    <2> QED BY <1>2, <2>1, <2>3 DEF Narration, Refusal
  <1>4. ASSUME NEW i \in DOMAIN w, NEW j \in DOMAIN w, i < j, ~ image PROVE w[i][2] < w[j][2]
    <2>1. s[i] < s[j] BY <1>1, <1>4 DEF Ascending
    <2> QED BY <1>1, <1>2, <1>4, <2>1
  <1>5. OnceRead(w, image) BY <1>3, <1>4 DEF OnceRead
  <1> QED BY <1>5

\* An attempt under way: nothing but the ordered text it streamed was shown.
LEMMA UnderWay ==
  ASSUME AttemptInv', verdict' = None, delivered' = Tagged(attempt'.n, attempt'.streamed)
  PROVE  MergeInv'
  <1> PICK a : a = attempt' OBVIOUS
  <1>1. a \in Attempts /\ Silent(a) /\ InOrder(a) BY DEF AttemptInv
  <1>2. a.streamed \in Texts /\ a.image \in BOOLEAN /\ <<>> \in Texts BY <1>1, OfFields, TextsClosed
  <1>3. ~ a.image => Ascending(a.streamed)
    <2>1. CASE a.fate = "answer" BY <1>1, <2>1 DEF InOrder, Aligned
    <2>2. CASE a.fate # "answer"
      <3>1. a.streamed = <<>> BY <1>1, <2>2 DEF Silent
      <3> QED BY <3>1 DEF Ascending
    <2> QED BY <2>1, <2>2
  <1>4. OnceRead(Tagged(a.n, a.streamed), a.image) BY <1>2, <1>3, TaggedReadsOnce
  <1>5. OnceRead(delivered', attempt'.image) BY <1>4
  <1>6. ReadOnce' BY <1>5 DEF ReadOnce, OnceRead
  <1>7. WholeAnswer'
    <2>1. None # "ended" BY VerdictAssumption
    <2> QED BY <2>1 DEF WholeAnswer
  <1> QED BY <1>6, <1>7 DEF MergeInv

\* Text shown with an attempt under way extends what it streamed.
LEMMA ShownMore ==
  ASSUME attempt \in Attempts, delivered = Tagged(attempt.n, attempt.streamed), NEW text \in Texts
  PROVE  WithText(attempt, text) = Tagged(attempt.n, Joined(attempt.streamed, text))
  <1>1. attempt.streamed \in Texts BY OfFields
  <1>2. WithText(attempt, text) = Joined(delivered, Tagged(attempt.n, text))
    BY Zenon DEF WithText, Joined, Tagged
  <1>3. Joined(Tagged(attempt.n, attempt.streamed), Tagged(attempt.n, text))
          = Tagged(attempt.n, Joined(attempt.streamed, text))
    BY <1>1, TaggedConcat, Zenon
  <1> QED BY <1>2, <1>3

LEMMA UpdateKeeps ==
  ASSUME MergeInv, NEW last \in {0} \cup attempt.cursor..Pieces, NEW k \in {0} \cup attempt.cursor..Pieces,
         NEW holds \in BOOLEAN, NEW narrates \in BOOLEAN, NEW image \in BOOLEAN,
         NEW first \in IF last = 0 THEN {0} ELSE (attempt.cursor + 1)..last,
         Update(first, last, holds, k, narrates, image)
  PROVE  MergeInv'
  <1> PICK text : text = Passed(first, last, holds) OBVIOUS
  <1> PICK opening : opening = Opening(text) OBVIOUS
  <1> PICK split : split = SplitOf(text) OBVIOUS
  <1> PICK entries : entries = FrameEntries(last, split, k, narrates) OBVIOUS
  <1> PICK caught : caught = Caught(opening, split, entries) OBVIOUS
  <1> PICK shown : shown = Shown(last, split, image) OBVIOUS
  <1> PICK said : said = SaidText(opening, split, caught, shown) OBVIOUS
  <1>1. AttemptInv /\ attempt \in Attempts BY DEF MergeInv, AttemptInv
  <1>2. attempt.cursor \in 0..Pieces /\ attempt.streamed \in Texts /\ attempt.n \in Nat BY <1>1, OfFields
  <1>3. /\ last \in 0..Pieces /\ k \in 0..Pieces /\ first \in Int
        /\ last # 0 => first \in (attempt.cursor + 1)..last
    BY <1>2, PiecesAssumption
  <1>4. Merged(first, last, holds, k, image, text, split, entries, caught, said)
    BY <1>1, UpdateParts
  <1>5. ASSUME AttemptInv', said \in Texts PROVE MergeInv'
    <2>1. verdict' = None /\ attempt'.n = attempt.n /\ attempt'.streamed = Joined(attempt.streamed, said)
          /\ delivered' = WithText(attempt, said)
      BY <1>4 DEF Merged, Joined
    <2>2. delivered = Tagged(attempt.n, attempt.streamed) BY <1>4 DEF MergeInv, Merged
    <2>3. WithText(attempt, said) = Tagged(attempt.n, Joined(attempt.streamed, said))
      BY <1>1, <1>5, <2>2, ShownMore
    <2>4. delivered' = Tagged(attempt'.n, attempt'.streamed) BY <2>1, <2>3, Zenon
    <2> QED BY <1>5, <2>1, <2>4, UnderWay
  <1>6. CASE attempt.fate # "answer"
    <2>1. AttemptInv' /\ said \in Texts BY <1>1, <1>3, <1>4, <1>6, UpdateOther
    <2> QED BY <1>5, <2>1
  <1>7. CASE attempt.fate = "answer"
    <2>1. /\ attempt' \in Attempts /\ Silent(attempt') /\ said \in Texts
          /\ text \in Texts /\ opening \in Texts /\ split.text \in Texts /\ split.lead \in Texts
          /\ caught \in Texts
          /\ attempt'.fallback
               = IF entries = <<>> \/ k = 0 THEN attempt.fallback ELSE Snapshot(k)
      BY <1>1, <1>3, <1>4, <1>7, UpdateAnswer
    <2>2. InOrder(attempt') BY <1>1, <1>3, <1>4, <1>7, <2>1, UpdateOrder
    <2> QED BY <1>5, <2>1, <2>2 DEF AttemptInv
  <1> QED BY <1>6, <1>7

-----------------------------------------------------------------------------
LEMMA WholeIs ==
  ASSUME NEW w, w = Text(1, Pieces)
  PROVE  /\ w \in Seq(1..Pieces) /\ Len(w) = Pieces /\ w # <<>> /\ DOMAIN w = 1..Pieces
         /\ \A i \in 1..Pieces : w[i] = i
         /\ Ascending(w) /\ Reached(w) = Pieces
  <1>1. Pieces \in Int /\ Pieces > 0 /\ 1 <= Pieces + 1 /\ 1 <= Pieces /\ ~ (Pieces < 1) /\ Pieces - 1 + 1 = Pieces
    BY PiecesAssumption
  <1>2. w \in Seq(1..Pieces) BY <1>1, TextIn
  <1>3. Run(w, 1, Pieces)
    <2>1. Run(w, 1, Pieces - 1 + 1) BY <1>1, TextRun
    <2> QED BY <1>1, <2>1
  <1>4. w # <<>> /\ Last(w) = Pieces BY <1>1, TextLen
  <1>5. Len(w) = Pieces /\ \A i \in 1..Pieces : w[i] = 1 + i - 1 BY <1>3 DEF Run
  <1>6. \A i \in 1..Pieces : w[i] = i BY <1>5
  <1>7. Ascending(w) BY <1>1, AscendingText
  <1> QED BY <1>2, <1>4, <1>5, <1>6, <1>7 DEF Reached

LEMMA Members ==
  ASSUME NEW X, NEW s \in Seq(X)
  PROVE  Len(s) \in Nat /\ DOMAIN s = 1..Len(s) /\ \A i \in DOMAIN s : s[i] \in X
  OBVIOUS

LEMMA Largest ==
  ASSUME NEW n \in Nat, NEW S, S \subseteq 0..n, 0 \in S
  PROVE  \E m \in S : \A i \in S : i <= m
  <1> PICK T : T = {n - i : i \in S} OBVIOUS
  <1>1. T \in SUBSET Nat /\ T # {} OBVIOUS
  <1>2. PICK t \in T : \A i \in T : t <= i BY <1>1, Smallest
  <1>3. PICK m \in S : t = n - m BY <1>2
  <1>4. ASSUME NEW i \in S PROVE i <= m
    <2>1. n - i \in T OBVIOUS
    <2>2. n - m <= n - i BY <1>2, <1>3, <2>1
    <2> QED BY <2>2
  <1> QED BY <1>4

LEMMA Bounded ==
  ASSUME NEW s \in Seq(1..Pieces), Ascending(s), s # <<>>
  PROVE  /\ Last(s) \in 1..Pieces /\ Last(s) \in ToSet(s) /\ ToSet(s) \subseteq 1..Pieces
         /\ \A x \in ToSet(s) : x <= Last(s)
         /\ Pieces \in ToSet(s) => Last(s) = Pieces
  <1> PICK X : X = 1..Pieces OBVIOUS
  <1>1. /\ Len(s) \in Nat /\ DOMAIN s = 1..Len(s) /\ \A i \in 1..Len(s) : s[i] \in X
        /\ s \in Seq(X)
    BY LenProperties, ElementOfSeq
  <1>2. Len(s) \in 1..Len(s) /\ Last(s) = s[Len(s)] BY <1>1, LastOf DEF Last
  <1>3. ToSet(s) = {s[i] : i \in 1..Len(s)} BY <1>1 DEF ToSet
  <1>4. ASSUME NEW i \in 1..Len(s) PROVE s[i] <= s[Len(s)]
    <2>1. s[i] \in Int /\ s[Len(s)] \in Int
      <3>1. X \subseteq Int OBVIOUS
      <3> QED BY <1>1, <1>2, <3>1
    <2>2. CASE i = Len(s) BY <2>1, <2>2
    <2>3. CASE i # Len(s)
      <3>1. Len(s) \in Nat BY <1>1
      <3>2. \A n \in Nat : \A j \in 1..n : j # n => j < n OBVIOUS
      <3>3. i < Len(s) BY <2>3, <3>1, <3>2
      <3>4. s[i] < s[Len(s)] BY <1>1, <1>2, <3>3 DEF Ascending
      <3> QED BY <2>1, <3>4
    <2> QED BY <2>2, <2>3
  <1>5. \A x \in ToSet(s) : x <= Last(s) BY <1>2, <1>3, <1>4
  <1>6. Last(s) \in X /\ Last(s) \in ToSet(s) /\ ToSet(s) \subseteq X
    <2> PICK n : n = Len(s) OBVIOUS
    <2>1. n \in 1..Len(s) BY <1>2
    <2>2. s[n] \in X /\ s[n] \in {s[i] : i \in 1..Len(s)} BY <1>1, <2>1
    <2>3. {s[i] : i \in 1..Len(s)} \subseteq X BY <1>1
    <2> QED BY <1>2, <1>3, <2>2, <2>3, Zenon
  <1>7. ASSUME Pieces \in ToSet(s) PROVE Last(s) = Pieces
    <2>1. Pieces <= Last(s) /\ Last(s) \in 1..Pieces BY <1>5, <1>6, <1>7
    <2> QED BY <2>1, PiecesAssumption
  <1> QED BY <1>5, <1>6, <1>7

\* Shown to its end where the opening was shown.
ToEnd(t) ==
  t \in Seq(1..Pieces) /\ Ascending(t) /\ (t # <<>> /\ t[1] = 1 => Last(t) = Pieces)

LEMMA SignatureIs ==
  ASSUME NEW s \in Seq(1..Pieces)
  PROVE  Signature(s) = s
  <1>1. Image \notin 1..Pieces BY PiecesAssumption DEF Image
  <1>2. \A i \in DOMAIN s : s[i] \in 1..Pieces BY Members
  <1>3. \A i \in DOMAIN s : s[i] # Image BY <1>1, <1>2, Zenon
  <1>4. {i \in DOMAIN s : s[i] # Image} = DOMAIN s BY <1>3, Zenon
  <1>5. Selected(s, DOMAIN s) = s BY SelectedAll
  <1> QED BY <1>4, <1>5, Zenon DEF Signature

\* What occurs in the answer and begins with its first piece is a prefix of it.
LEMMA OpeningIsPrefix ==
  ASSUME NEW s \in Seq(1..Pieces), s # <<>>, s[1] = 1, Occurs(s, Text(1, Pieces))
  PROVE  IsPrefix(s, Text(1, Pieces))
  <1> PICK w : w = Text(1, Pieces) OBVIOUS
  <1>1. w \in Seq(1..Pieces) /\ Len(w) = Pieces /\ \A i \in 1..Pieces : w[i] = i BY WholeIs
  <1>2. Len(s) \in Nat /\ Len(s) > 0 BY EmptySeq
  <1>3. PICK i \in 0 .. Len(w) - Len(s) : SubSeq(w, i + 1, i + Len(s)) = s BY DEF Occurs
  <1> PICK a, b : a = i + 1 /\ b = i + Len(s) OBVIOUS
  <1>4. a \in 1..Pieces /\ b \in 1..Pieces /\ a <= b /\ b - a + 1 = Len(s) /\ a + 1 - 1 = a
    BY <1>1, <1>2, <1>3, PiecesAssumption
  <1>5. \A j \in a..b : w[j] \in 1..Pieces BY <1>1, <1>4
  <1>6. \A j \in 1..(b - a + 1) : SubSeq(w, a, b)[j] = w[a + j - 1]
    BY <1>4, <1>5, SubSeqProperties
  <1>7. s[1] = w[a]
    <2>1. 1 \in 1..(b - a + 1) BY <1>2, <1>4
    <2>2. SubSeq(w, a, b)[1] = w[a + 1 - 1] BY <1>6, <2>1
    <2> QED BY <1>3, <1>4, <2>2
  <1>8. a = 1 BY <1>1, <1>4, <1>7
  <1>9. i = 0 /\ b = Len(s) BY <1>3, <1>8
  <1>10. SubSeq(w, 1, Len(s)) = s BY <1>3, <1>8, <1>9
  <1>11. Len(s) <= Len(w) BY <1>1, <1>4, <1>9
  <1>12. IsPrefix(s, w) BY <1>10, <1>11 DEF IsPrefix
  <1> QED BY <1>12

\* What contains the answer reaches its end.
LEMMA ContainsEnd ==
  ASSUME NEW s \in Seq(1..Pieces), Occurs(Text(1, Pieces), s)
  PROVE  Pieces \in ToSet(s)
  <1> PICK w : w = Text(1, Pieces) OBVIOUS
  <1>1. w \in Seq(1..Pieces) /\ Len(w) = Pieces /\ \A i \in 1..Pieces : w[i] = i BY WholeIs
  <1>2. Len(s) \in Nat /\ DOMAIN s = 1..Len(s) /\ Pieces \in Nat /\ Pieces > 0 BY PiecesAssumption
  <1>3. PICK i \in 0 .. Len(s) - Len(w) : SubSeq(s, i + 1, i + Len(w)) = w BY DEF Occurs
  <1> PICK a, b : a = i + 1 /\ b = i + Pieces OBVIOUS
  <1>4. a \in 1..Len(s) /\ b \in 1..Len(s) /\ a <= b /\ b - a + 1 = Pieces /\ a + Pieces - 1 = b
    BY <1>1, <1>2, <1>3
  <1>5. \A j \in a..b : s[j] \in 1..Pieces BY <1>2, <1>4
  <1>6. \A j \in 1..(b - a + 1) : SubSeq(s, a, b)[j] = s[a + j - 1]
    BY <1>4, <1>5, SubSeqProperties
  <1>7. w[Pieces] = s[b]
    <2>1. Pieces \in 1..(b - a + 1) BY <1>2, <1>4
    <2>2. SubSeq(s, a, b)[Pieces] = s[a + Pieces - 1] BY <1>6, <2>1
    <2> QED BY <1>1, <1>3, <1>4, <2>2
  <1>8. s[b] = Pieces BY <1>1, <1>2, <1>7
  <1> QED BY <1>2, <1>4, <1>8 DEF ToSet

LEMMA TailText ==
  ASSUME NEW s \in Texts, NEW w \in Texts
  PROVE  TailAfter(s, w) \in Texts
  <1> PICK S : S = {0} \cup {i \in DOMAIN w : w[i] \in ToSet(s)} OBVIOUS
  <1>1. Len(w) \in Nat /\ DOMAIN w = 1..Len(w) BY Members DEF Texts
  <1>2. S \subseteq 0..Len(w) /\ 0 \in S BY <1>1
  <1>3. \E m \in S : \A i \in S : i <= m BY <1>1, <1>2, Largest
  <1>4. PICK m \in S : \A i \in S : i <= m BY <1>3
  <1>5. S \in SUBSET Int BY <1>1, <1>2
  <1>6. Max(S) = m BY <1>4, <1>5, MaxOf
  <1>7. m \in 0..Len(w) BY <1>2
  <1>8. Rest(w, m) \in Texts BY <1>7, RestIs DEF Texts
  <1> QED BY <1>6, <1>8 DEF TailAfter

LEMMA RemainderText ==
  ASSUME NEW s \in Texts, NEW w \in Texts
  PROVE  Remainder(s, w) \in Texts
  <1>1. <<>> \in Texts /\ TailAfter(s, w) \in Texts BY TailText, TextsClosed
  <1>2. ASSUME IsPrefix(s, w) PROVE Rest(w, Len(s)) \in Texts
    <2>1. Len(s) \in Nat /\ Len(w) \in Nat /\ Len(s) <= Len(w) BY <1>2, Members DEF IsPrefix, Texts
    <2>2. Len(s) \in 0..Len(w) BY <2>1
    <2> QED BY <2>2, RestIs DEF Texts
  <1> QED BY <1>1, <1>2, Zenon DEF Remainder

\* The tail of the answer after what has been shown in order.
LEMMA TailOfAnswer ==
  ASSUME NEW s \in Seq(1..Pieces), Ascending(s), s # <<>>
  PROVE  TailAfter(s, Text(1, Pieces)) = Text(Last(s) + 1, Pieces)
  <1> PICK w : w = Text(1, Pieces) OBVIOUS
  <1>1. DOMAIN w = 1..Pieces /\ \A i \in 1..Pieces : w[i] = i BY WholeIs
  <1>2. /\ Last(s) \in 1..Pieces /\ Last(s) \in ToSet(s) /\ ToSet(s) \subseteq 1..Pieces
        /\ \A x \in ToSet(s) : x <= Last(s)
    BY Bounded
  <1> PICK l : l = Last(s) OBVIOUS
  <1> PICK S : S = {0} \cup {i \in DOMAIN w : w[i] \in ToSet(s)} OBVIOUS
  <1>3. S = {0} \cup ToSet(s) BY <1>1, <1>2
  <1>4. l \in S /\ S \in SUBSET Int /\ \A i \in S : i <= l
    <2>1. 0 <= l /\ 1..Pieces \subseteq Int BY <1>2
    <2> QED BY <1>2, <1>3, <2>1
  <1>5. Max(S) = l BY <1>4, MaxOf
  <1>6. l \in Nat /\ l + 1 = 1 + l /\ l + 1 <= Pieces + 1 /\ l + 1 \in Int /\ Pieces \in Int
    BY <1>2, PiecesAssumption
  <1>7. Rest(Text(1, Pieces), l) = Text(l + 1, Pieces) BY <1>6, TextRest
  <1> QED BY <1>5, <1>7 DEF TailAfter

LEMMA RemainderEnds ==
  ASSUME NEW s \in Seq(1..Pieces), Ascending(s)
  PROVE  ToEnd(Joined(s, Remainder(s, Text(1, Pieces))))
  <1> PICK w, r : w = Text(1, Pieces) /\ r = Remainder(s, w) OBVIOUS
  <1>1. w \in Seq(1..Pieces) /\ Len(w) = Pieces /\ w # <<>> /\ Ascending(w) /\ Reached(w) = Pieces
    BY WholeIs
  <1>2. Signature(s) = s /\ Signature(w) = w BY <1>1, SignatureIs
  <1>3. Pieces \in Int /\ Pieces \in 1..Pieces /\ Pieces \in 0..Pieces BY PiecesAssumption
  <1>4. ASSUME NEW f \in Int, Reached(s) < f, f <= Pieces + 1, f <= Pieces \/ Reached(s) = Pieces,
               r = Text(f, Pieces)
        PROVE  ToEnd(Joined(s, r))
    <2> PICK t : t = Joined(s, Text(f, Pieces)) OBVIOUS
    <2>1. t \in Seq(1..Pieces) /\ Ascending(t) /\ Reached(t) = Pieces
      BY <1>3, <1>4, Grows DEF Joined
    <2>2. t # <<>> => Last(t) = Pieces BY <2>1 DEF Reached
    <2> QED BY <1>4, <2>1, <2>2 DEF ToEnd
  <1>5. ASSUME s # <<>>, r = <<>>, s[1] = 1 => Last(s) = Pieces PROVE ToEnd(Joined(s, r))
    <2>1. Joined(s, <<>>) = s BY JoinedAssociative
    <2> QED BY <1>5, <2>1 DEF ToEnd
  <1>6. CASE s = <<>>
    <2>1. r = w BY <1>6 DEF Remainder
    <2>2. Joined(<<>>, w) = w BY <1>1, ConcatEmptySeq DEF Joined
    <2>3. Last(w) = Pieces BY <1>1 DEF Reached
    <2> QED BY <1>1, <1>6, <2>1, <2>2, <2>3 DEF ToEnd
  <1>7. CASE s # <<>> /\ IsPrefix(s, w)
    <2>1. r = Rest(w, Len(s)) BY <1>1, <1>7 DEF Remainder
    <2>2. Len(s) \in 0..Pieces /\ Reached(s) = Len(s) BY <1>3, <1>7, PrefixOfAnswer
    <2> PICK n, f : n = Len(s) /\ f = n + 1 OBVIOUS
    <2>3. n \in Nat /\ f \in Int /\ f = 1 + n /\ f <= Pieces + 1 /\ 1 \in Int /\ Reached(s) < f
          /\ (f <= Pieces \/ Reached(s) = Pieces)
      BY <1>3, <2>2
    <2>4. Rest(Text(1, Pieces), n) = Text(f, Pieces) BY <1>3, <2>3, TextRest
    <2> QED BY <1>4, <2>1, <2>3, <2>4
  <1>8. CASE s # <<>> /\ ~ IsPrefix(s, w)
    <2>1. r = IF Occurs(w, s) \/ Occurs(s, w) \/ ToSet(w) \subseteq ToSet(s) THEN <<>> ELSE TailAfter(s, w)
      BY <1>1, <1>2, <1>8, Zenon DEF Remainder
    <2>2. Last(s) \in 1..Pieces /\ (Pieces \in ToSet(s) => Last(s) = Pieces) BY <1>8, Bounded
    <2>3. CASE Occurs(w, s) BY <1>5, <1>8, <2>1, <2>2, <2>3, ContainsEnd
    <2>4. CASE Occurs(s, w)
      <3>1. s[1] # 1 BY <1>8, <2>4, OpeningIsPrefix
      <3> QED BY <1>5, <1>8, <2>1, <2>4, <3>1
    <2>5. CASE ToSet(w) \subseteq ToSet(s)
      <3>1. Last(w) \in ToSet(w) BY <1>1, Bounded
      <3>2. Last(w) = Pieces BY <1>1 DEF Reached
      <3> QED BY <1>5, <1>8, <2>1, <2>2, <2>5, <3>1, <3>2
    <2>6. CASE ~ (Occurs(w, s) \/ Occurs(s, w) \/ ToSet(w) \subseteq ToSet(s))
      <3>1. r = Text(Last(s) + 1, Pieces) BY <1>8, <2>1, <2>6, TailOfAnswer
      <3> PICK l, f : l = Last(s) /\ f = l + 1 OBVIOUS
      <3>2. Reached(s) = l BY <1>8 DEF Reached
      <3>3. f \in Int /\ f <= Pieces + 1 /\ Reached(s) < f /\ (f <= Pieces \/ Reached(s) = Pieces)
        BY <1>3, <2>2, <3>2
      <3> QED BY <1>4, <3>1, <3>3
    <2> QED BY <2>3, <2>4, <2>5, <2>6
  <1> QED BY <1>6, <1>7, <1>8

-----------------------------------------------------------------------------
LEMMA HeldIsSplit ==
  ASSUME NEW a \in Attempts
  PROVE  HeldText(a) = SplitLead(a.lead, a.held).text /\ HeldText(a) \in Texts
  <1> PICK lead, held : lead = a.lead /\ held = a.held OBVIOUS
  <1>1. lead \in Texts /\ held \in Texts BY OfFields
  <1>2. SplitLead(lead, held).text \in Texts BY <1>1, TextsClosed
  <1>3. ASSUME lead = <<>> PROVE SplitLead(lead, held).text = held
    <2>1. /\ IsPrefix(held, <<>>) <=> held = <<>>
          /\ IsPrefix(<<>>, held) /\ Rest(held, 0) = held
      BY <1>1, EmptyPrefix DEF Texts
    <2>2. CASE held = <<>>
      <3>1. SplitLead(lead, held) = [lead |-> Rest(lead, Len(held)), text |-> <<>>]
        BY <1>3, <2>1, <2>2 DEF SplitLead
      <3> QED BY <2>2, <3>1
    <2>3. CASE held # <<>>
      <3>1. SplitLead(lead, held) = [lead |-> <<>>, text |-> Rest(held, Len(lead))]
        BY <1>3, <2>1, <2>3 DEF SplitLead
      <3>2. Len(lead) = 0 BY <1>3
      <3> QED BY <2>1, <3>1, <3>2
    <2> QED BY <2>2, <2>3
  <1>4. HeldText(a) = SplitLead(lead, held).text BY <1>3 DEF HeldText
  <1> QED BY <1>2, <1>4

\* What was held back goes on where the text shown has got to.
LEMMA HeldAligned ==
  ASSUME NEW a \in Attempts, Holds(a), Aligned(a.streamed, a.lead, Through(a), a.covered)
  PROVE  Joined(a.streamed, HeldText(a)) \in Seq(1..Pieces) /\ Ascending(Joined(a.streamed, HeldText(a)))
  <1> PICK s, lead, t, c, l :
        s = a.streamed /\ lead = a.lead /\ t = Through(a) /\ c = a.covered /\ l = a.cursor
    OBVIOUS
  <1>1. l \in 0..Pieces /\ c \in 0..Pieces /\ Pieces \in Nat BY OfFields, PiecesAssumption
  <1>2. l \in Int BY <1>1
  <1>3. \A i \in Int : Text(i + 1, i) = <<>> /\ Text(i, i) = << i >> BY TextShort
  <1>4. Text(l + 1, l) = <<>> /\ Text(l, l) = << l >> BY <1>2, <1>3
  <1> PICK f : f = t + 1 OBVIOUS
  <1>5. t \in 0..Pieces /\ f \in Int /\ f <= l + 1 /\ f = t + 1 /\ a.held = Text(f, l)
    <2>1. CASE a.held = <<>>
      <3>1. Through(a) = a.cursor BY <2>1 DEF Through
      <3>2. t = l BY <3>1
      <3>3. t = l /\ f = l + 1 BY <3>2
      <3> QED BY <1>1, <1>4, <2>1, <3>3
    <2>2. CASE a.held # <<>>
      <3>1. l > 0 /\ a.held = <<l>> BY <2>2 DEF Holds
      <3>2. Through(a) = a.cursor - 1 BY <2>2 DEF Through
      <3>3. t = l - 1 BY <3>2
      <3>4. t = l - 1 /\ f = l BY <1>1, <3>3
      <3> QED BY <1>1, <1>4, <3>1, <3>4
    <2> QED BY <2>1, <2>2
  <1>6. Aligned(s, lead, t, c) OBVIOUS
  <1>7. Aligned(s \o SplitLead(lead, Text(f, l)).text, SplitLead(lead, Text(f, l)).lead, l, c)
    BY <1>1, <1>5, <1>6, SplitAligned
  <1>8. HeldText(a) = SplitLead(lead, Text(f, l)).text BY <1>5, HeldIsSplit
  <1>9. s \o HeldText(a) \in Seq(1..Pieces) /\ Ascending(s \o HeldText(a))
    BY <1>7, <1>8 DEF Aligned
  <1> QED BY <1>9 DEF Joined

\* The text of an attempt's last frame.
LEMMA EndText ==
  ASSUME AttemptInv, attempt.completed,
         NEW held, held = HeldText(attempt),
         NEW remaining, remaining = Remainder(Joined(attempt.streamed, held), attempt.fallback),
         ~ Refused(attempt, remaining),
         NEW all, all = Joined(attempt.streamed, Joined(held, remaining))
  PROVE  /\ Joined(held, remaining) \in Texts
         /\ ~ attempt.image => Ascending(all)
         /\ ~ attempt.image /\ attempt.fate = "answer" => ToEnd(all)
  <1> PICK s, b : s = attempt.streamed /\ b = attempt.fallback OBVIOUS
  <1>1. attempt \in Attempts /\ Silent(attempt) /\ InOrder(attempt) BY DEF AttemptInv
  <1>2. s \in Texts /\ held \in Texts BY <1>1, OfFields, HeldIsSplit
  <1>3. CASE attempt.fate = "answer"
    <2>1. b \in Texts BY <1>1, <1>3 DEF Silent
    <2>2. Joined(s, held) \in Texts BY <1>2, JoinedAssociative DEF Texts
    <2>3. remaining \in Texts BY <2>1, <2>2, RemainderText
    <2>4. Joined(held, remaining) \in Texts BY <1>2, <2>3, JoinedAssociative DEF Texts
    <2>5. ASSUME ~ attempt.image PROVE ToEnd(all)
      <3>1. Holds(attempt) /\ Aligned(s, attempt.lead, Through(attempt), attempt.covered) /\ Restates(attempt)
        BY <1>1, <1>3, <2>5 DEF InOrder
      <3>2. b = Text(1, Pieces) BY <3>1 DEF Restates
      <3>3. Joined(s, held) \in Seq(1..Pieces) /\ Ascending(Joined(s, held)) BY <1>1, <3>1, HeldAligned
      <3>4. ToEnd(Joined(Joined(s, held), remaining)) BY <3>2, <3>3, RemainderEnds
      <3>5. Joined(s, Joined(held, remaining)) = Joined(Joined(s, held), remaining)
        BY <1>2, <2>3, JoinedAssociative DEF Texts
      <3> QED BY <3>4, <3>5
    <2> QED BY <2>4, <2>5 DEF ToEnd
  <1>4. CASE attempt.fate # "answer"
    <2>1. /\ s = <<>> /\ attempt.lead = <<>> /\ attempt.held = <<>> /\ b \in {<<>>, <<Refusal>>}
          /\ attempt.any = FALSE /\ <<>> \in Texts
      BY <1>1, <1>2, <1>4, OfFields DEF Silent
    <2>2. held = <<>> BY <2>1 DEF HeldText
    <2>3. Joined(<<>>, <<>>) = <<>> BY DEF Joined
    <2>4. remaining = b BY <2>1, <2>2, <2>3 DEF Remainder
    <2>5. remaining = <<>> BY <2>1, <2>4 DEF Refused
    <2>6. Joined(held, remaining) = <<>> /\ all = <<>> BY <2>1, <2>2, <2>3, <2>5
    <2>7. Ascending(<<>>) BY DEF Ascending
    <2> QED BY <1>4, <2>1, <2>6, <2>7
  <1> QED BY <1>3, <1>4

-----------------------------------------------------------------------------
LEMMA FreshAttempt ==
  ASSUME NEW n \in Nat, NEW start \in BOOLEAN, NEW healed \in BOOLEAN, NEW spare \in BOOLEAN,
         NEW fate \in Fates, NEW a, a = Fresh(n, start, healed, spare, fate)
  PROVE  /\ a \in Attempts /\ Silent(a) /\ InOrder(a)
         /\ a.n = n /\ a.streamed = <<>> /\ Tagged(n, <<>>) = <<>>
  <1>1. <<>> \in Texts /\ 0 \in 0..Pieces BY EmptySeq, PiecesAssumption DEF Texts
  <1>2. a \in Attempts BY <1>1 DEF Attempts, Fresh
  <1>3. /\ a.n = n /\ a.fate = fate /\ a.cursor = 0 /\ a.covered = 0 /\ a.completed = FALSE /\ a.image = FALSE
        /\ a.streamed = <<>> /\ a.fallback = <<>> /\ a.lead = <<>> /\ a.held = <<>> /\ a.any = FALSE
    BY DEF Fresh
  <1>4. Silent(a) BY <1>1, <1>3 DEF Silent
  <1>5. InOrder(a)
    <2>1. Through(a) = 0 /\ Holds(a) BY <1>3 DEF Through, Holds
    <2>2. Text(1, 0) = <<>>
      <3>1. Text(0 + 1, 0) = <<>> BY TextShort
      <3> QED BY <3>1
    <2>3. Text(0 + 1, 0) = <<>> BY TextShort
    <2>4. Reached(<<>>) = 0 /\ Ascending(<<>>) /\ <<>> \in Seq(1..Pieces) BY EmptySeq DEF Reached, Ascending
    <2>5. Aligned(<<>>, <<>>, 0, 0) BY <2>3, <2>4 DEF Aligned
    <2>6. Restates(a) BY <1>1, <1>3, <2>2 DEF Restates
    <2> QED BY <1>3, <2>1, <2>5, <2>6 DEF InOrder
  <1>6. Tagged(n, <<>>) = <<>> BY <1>1, TaggedIs
  <1> QED BY <1>2, <1>3, <1>4, <1>5, <1>6

LEMMA Renewed ==
  ASSUME NEW n \in Nat, NEW start \in BOOLEAN, NEW healed \in BOOLEAN, NEW spare \in BOOLEAN,
         NEW fate \in Fates, attempt' = Fresh(n, start, healed, spare, fate),
         verdict' = None, delivered' = <<>>
  PROVE  MergeInv'
  <1>1. /\ attempt' \in Attempts /\ Silent(attempt') /\ InOrder(attempt')
        /\ attempt'.n = n /\ attempt'.streamed = <<>> /\ Tagged(n, <<>>) = <<>>
    BY FreshAttempt
  <1>2. AttemptInv' BY <1>1 DEF AttemptInv
  <1>3. delivered' = Tagged(attempt'.n, attempt'.streamed) BY <1>1
  <1> QED BY <1>2, <1>3, UnderWay

LEMMA CompleteKeeps ==
  ASSUME MergeInv, NEW narrates \in BOOLEAN, NEW failed \in BOOLEAN, Complete(narrates, failed)
  PROVE  MergeInv'
  <1> PICK k : k = IF attempt.fate = "answer" THEN Pieces ELSE 0 OBVIOUS
  <1> PICK fb : fb = AnswerOf(Entries(k, narrates), attempt.fallback) OBVIOUS
  <1>1. attempt \in Attempts /\ Silent(attempt) /\ InOrder(attempt) BY DEF MergeInv, AttemptInv
  <1>2. k \in 0..Pieces /\ Pieces \in 0..Pieces /\ Pieces # 0 /\ (k # 0 => attempt.fate = "answer")
    BY PiecesAssumption
  <1>3. attempt.fate \in Fates BY <1>1, OfFields
  <1>4. fb = IF attempt.fate = "refusal" THEN <<Refusal>>
             ELSE IF k = 0 THEN attempt.fallback ELSE Snapshot(k)
    BY <1>2, <1>3, FallbackIs
  <1>5. fb \in Texts \cup {<<Refusal>>}
    <2>1. Snapshot(k) \in Texts BY <1>2, SnapshotText
    <2>2. attempt.fallback \in Texts \cup {<<Refusal>>} BY <1>1, OfFields
    <2> QED BY <1>4, <2>1, <2>2
  <1>6. /\ verdict = None /\ verdict' = None /\ delivered' = delivered
        /\ attempt' = [attempt EXCEPT !.completed = TRUE, !.failed = failed, !.fallback = fb]
    BY DEF Complete, Receives
  <1> PICK new : new = [attempt EXCEPT !.completed = TRUE, !.failed = failed, !.fallback = fb] OBVIOUS
  <1>7. /\ new \in Attempts
        /\ new.n = attempt.n /\ new.fate = attempt.fate /\ new.cursor = attempt.cursor
        /\ new.covered = attempt.covered /\ new.completed = TRUE /\ new.image = attempt.image
        /\ new.streamed = attempt.streamed /\ new.fallback = fb /\ new.lead = attempt.lead
        /\ new.held = attempt.held /\ new.any = attempt.any
    BY <1>1, <1>5 DEF Attempts
  <1>8. Silent(new)
    <2>1. CASE attempt.fate = "answer"
      <3>1. fb = Snapshot(k) BY <1>2, <1>4, <2>1
      <3>2. fb \in Texts BY <1>2, <3>1, SnapshotText
      <3> QED BY <1>1, <1>7, <2>1, <3>2 DEF Silent
    <2>2. CASE attempt.fate # "answer"
      <3>1. attempt.fallback \in {<<>>, <<Refusal>>} BY <1>1, <2>2 DEF Silent
      <3>2. fb \in {<<>>, <<Refusal>>} BY <1>4, <2>2, <3>1
      <3> QED BY <1>1, <1>7, <2>2, <3>2 DEF Silent
    <2> QED BY <2>1, <2>2
  <1>9. InOrder(new)
    <2> SUFFICES ASSUME attempt.fate = "answer", ~ attempt.image
                 PROVE  Holds(new) /\ Aligned(new.streamed, new.lead, Through(new), new.covered) /\ Restates(new)
      BY <1>7 DEF InOrder
    <2>1. Holds(attempt) /\ Aligned(attempt.streamed, attempt.lead, Through(attempt), attempt.covered)
      BY <1>1 DEF InOrder
    <2>2. Holds(new) BY <1>7, <2>1 DEF Holds
    <2>3. Through(new) = Through(attempt) BY <1>7 DEF Through
    <2>4. fb = Text(1, Pieces) BY <1>2, <1>4 DEF Snapshot
    <2>5. Restates(new) BY <1>2, <1>7, <2>4 DEF Restates
    <2> QED BY <1>7, <2>1, <2>2, <2>3, <2>5
  <1>10. AttemptInv' BY <1>6, <1>7, <1>8, <1>9 DEF AttemptInv
  <1>11. delivered' = Tagged(attempt'.n, attempt'.streamed) BY <1>6, <1>7 DEF MergeInv
  <1> QED BY <1>6, <1>10, <1>11, UnderWay

-----------------------------------------------------------------------------
\* The turn is over: the answer that was shown.
LEMMA Over ==
  ASSUME MergeInv, NEW all \in Texts, NEW how \in {"ended", "closed", "error"},
         ~ attempt.image => Ascending(all),
         how = "ended" => all # <<>>,
         how = "ended" /\ attempt.fate = "answer" /\ ~ attempt.image => ToEnd(all),
         attempt' = attempt, delivered' = Tagged(attempt.n, all), verdict' = how
  PROVE  MergeInv'
  <1> PICK d, a : d = delivered' /\ a = attempt' OBVIOUS
  <1>1. AttemptInv' BY DEF MergeInv, AttemptInv
  <1>2. verdict' # None BY VerdictAssumption
  <1>3. OnceRead(Tagged(attempt.n, all), attempt.image) BY TaggedReadsOnce
  <1>4. OnceRead(delivered', attempt'.image) BY <1>3
  <1>5. ReadOnce' BY <1>4 DEF ReadOnce, OnceRead
  <1>6. ASSUME how = "ended", attempt.fate = "answer", ~ attempt.image, delivered'[1][2] = 1
        PROVE  Last(delivered')[2] = Pieces
    <2>1. ToEnd(all) /\ all # <<>> BY <1>6
    <2>2. /\ Len(d) = Len(all) /\ Len(all) \in Nat /\ \A i \in 1..Len(all) : d[i] = <<attempt.n, all[i]>>
      BY TaggedIs
    <2>3. Len(all) \in 1..Len(all) /\ 1 \in 1..Len(all) BY <2>1, LastOf DEF Texts
    <2>4. d[1] = <<attempt.n, all[1]>> /\ d[Len(all)] = <<attempt.n, all[Len(all)]>> BY <2>2, <2>3
    <2>5. d[1][2] = all[1] /\ d[Len(all)][2] = all[Len(all)] BY <2>4
    <2>6. all[Len(all)] = Pieces BY <1>6, <2>1, <2>5 DEF ToEnd, Last
    <2> QED BY <2>2, <2>5, <2>6 DEF Last
  <1>7. WholeAnswer' BY <1>6 DEF WholeAnswer
  <1> QED BY <1>1, <1>2, <1>5, <1>7 DEF MergeInv

LEMMA RaiseKeeps ==
  ASSUME MergeInv, verdict = None, NEW refused, Raise(refused)
  PROVE  MergeInv'
  <1>1. attempt \in Attempts /\ delivered = Tagged(attempt.n, attempt.streamed) BY DEF MergeInv, AttemptInv
  <1>2. /\ attempt.n \in Nat /\ attempt.streamed \in Texts BY <1>1, OfFields
  <1>3. CASE Heals(refused)
    <2>1. PICK fate \in Fates : attempt' = Fresh(attempt.n + 1, TRUE, TRUE, FALSE, fate)
      BY <1>3 DEF Raise
    <2>2. verdict' = None /\ delivered' = <<>> BY <1>3 DEF Raise, Heals
    <2>3. attempt.n + 1 \in Nat BY <1>2
    <2> QED BY <2>1, <2>2, <2>3, Renewed
  <1>4. CASE ~ Heals(refused)
    <2>1. verdict' = "error" /\ attempt' = attempt /\ delivered' = delivered BY <1>4 DEF Raise
    <2>2. ~ attempt.image => Ascending(attempt.streamed)
      <3>1. Silent(attempt) /\ InOrder(attempt) BY DEF MergeInv, AttemptInv
      <3>2. CASE attempt.fate = "answer" BY <3>1, <3>2 DEF InOrder, Aligned
      <3>3. CASE attempt.fate # "answer"
        <4>1. attempt.streamed = <<>> BY <3>1, <3>3 DEF Silent
        <4> QED BY <4>1 DEF Ascending
      <3> QED BY <3>2, <3>3
    <2> QED BY <1>1, <1>2, <2>1, <2>2, Over
  <1> QED BY <1>3, <1>4

LEMMA FinishKeeps ==
  ASSUME MergeInv, verdict = None, NEW text \in Texts, NEW how \in {"ended", "closed"},
         NEW all, all = Joined(attempt.streamed, text),
         ~ attempt.image => Ascending(all),
         how = "ended" /\ attempt.fate = "answer" /\ ~ attempt.image => ToEnd(all),
         Finish(attempt, text, how)
  PROVE  MergeInv'
  <1>1. attempt \in Attempts /\ delivered = Tagged(attempt.n, attempt.streamed) BY DEF MergeInv, AttemptInv
  <1>2. /\ attempt.n \in Nat /\ attempt.streamed \in Texts /\ attempt.start \in BOOLEAN /\ attempt.healed \in BOOLEAN
    BY <1>1, OfFields
  <1>3. all \in Texts BY <1>2, JoinedAssociative DEF Texts
  <1>4. delivered' = Tagged(attempt.n, all) BY <1>1, ShownMore DEF Finish
  <1>5. /\ all # <<>> => verdict' = how /\ attempt' = attempt
        /\ all = <<>> /\ attempt.spare => verdict' = "error" /\ attempt' = attempt
        /\ all = <<>> /\ ~ attempt.spare =>
             /\ \E fate \in Fates : attempt' = Fresh(attempt.n + 1, attempt.start, attempt.healed, TRUE, fate)
             /\ verdict' = verdict
    BY DEF Finish, Joined
  <1>6. CASE all # <<>> BY <1>3, <1>4, <1>5, <1>6, Over
  <1>7. CASE all = <<>> /\ attempt.spare BY <1>3, <1>4, <1>5, <1>7, Over
  <1>8. CASE all = <<>> /\ ~ attempt.spare
    <2>1. PICK fate \in Fates : attempt' = Fresh(attempt.n + 1, attempt.start, attempt.healed, TRUE, fate)
      BY <1>5, <1>8
    <2>2. delivered' = <<>> BY <1>3, <1>4, <1>8, TaggedIs
    <2>3. attempt.n + 1 \in Nat BY <1>2
    <2> QED BY <1>2, <1>5, <1>8, <2>1, <2>2, <2>3, Renewed
  <1> QED BY <1>6, <1>7, <1>8

LEMMA EndKeeps ==
  ASSUME MergeInv, End
  PROVE  MergeInv'
  <1> PICK held : held = HeldText(attempt) OBVIOUS
  <1> PICK remaining : remaining = Remainder(Joined(attempt.streamed, held), attempt.fallback) OBVIOUS
  <1>1. /\ verdict = None /\ attempt.completed
        /\ IF Refused(attempt, remaining) THEN Raise(TRUE)
           ELSE Finish(attempt, Joined(held, remaining), "ended")
    BY Zenon DEF End, Joined
  <1>2. CASE Refused(attempt, remaining) BY <1>1, <1>2, RaiseKeeps
  <1>3. CASE ~ Refused(attempt, remaining)
    <2> PICK text : text = Joined(held, remaining) OBVIOUS
    <2> PICK all : all = Joined(attempt.streamed, text) OBVIOUS
    <2>1. AttemptInv BY DEF MergeInv
    <2>2. /\ text \in Texts /\ (~ attempt.image => Ascending(all))
          /\ ~ attempt.image /\ attempt.fate = "answer" => ToEnd(all)
      BY <1>1, <1>3, <2>1, EndText
    <2> QED BY <1>1, <1>3, <2>2, FinishKeeps
  <1> QED BY <1>2, <1>3

LEMMA CloseKeeps ==
  ASSUME MergeInv, Close
  PROVE  MergeInv'
  <1>1. verdict = None /\ Finish(attempt, <<>>, "closed") BY DEF Close
  <1>2. attempt \in Attempts /\ Silent(attempt) /\ InOrder(attempt) BY DEF MergeInv, AttemptInv
  <1>3. attempt.streamed \in Texts /\ <<>> \in Texts BY <1>2, OfFields, TextsClosed
  <1>4. Joined(attempt.streamed, <<>>) = attempt.streamed BY <1>3, JoinedAssociative DEF Texts
  <1>5. ~ attempt.image => Ascending(attempt.streamed)
    <2>1. CASE attempt.fate = "answer" BY <1>2, <2>1 DEF InOrder, Aligned
    <2>2. CASE attempt.fate # "answer"
      <3>1. attempt.streamed = <<>> BY <1>2, <2>2 DEF Silent
      <3> QED BY <3>1 DEF Ascending
    <2> QED BY <2>1, <2>2
  <1> PICK text : text = <<>> OBVIOUS
  <1> PICK all : all = Joined(attempt.streamed, text) OBVIOUS
  <1> QED BY <1>1, <1>3, <1>4, <1>5, FinishKeeps

-----------------------------------------------------------------------------
LEMMA MergeKept == MergeSpec => []MergeInv
  <1>1. MergeInit => MergeInv
    <2> SUFFICES ASSUME MergeInit PROVE MergeInv OBVIOUS
    <2>1. PICK start \in BOOLEAN, fate \in Fates : attempt = Fresh(1, start, FALSE, FALSE, fate)
      BY DEF MergeInit
    <2>2. /\ attempt \in Attempts /\ Silent(attempt) /\ InOrder(attempt)
          /\ attempt.n = 1 /\ attempt.streamed = <<>> /\ Tagged(1, <<>>) = <<>>
      <3>1. 1 \in Nat /\ FALSE \in BOOLEAN OBVIOUS
      <3> PICK n, f : n = 1 /\ f = FALSE OBVIOUS
      <3>2. attempt = Fresh(n, start, f, f, fate) /\ n \in Nat /\ f \in BOOLEAN BY <2>1, <3>1
      <3>3. /\ attempt \in Attempts /\ Silent(attempt) /\ InOrder(attempt)
            /\ attempt.n = n /\ attempt.streamed = <<>> /\ Tagged(n, <<>>) = <<>>
        BY <3>2, FreshAttempt
      <3> QED BY <3>3
    <2>3. delivered = <<>> /\ verdict = None /\ None # "ended" BY VerdictAssumption DEF MergeInit
    <2>4. ReadOnce BY <2>3 DEF ReadOnce
    <2>5. WholeAnswer BY <2>3 DEF WholeAnswer
    <2>6. delivered = Tagged(attempt.n, attempt.streamed) BY <2>2, <2>3
    <2> QED BY <2>2, <2>3, <2>4, <2>5, <2>6 DEF MergeInv, AttemptInv
  <1>2. MergeInv /\ [MergeNext]_mergeVars => MergeInv'
    <2> SUFFICES ASSUME MergeInv, [MergeNext]_mergeVars PROVE MergeInv' OBVIOUS
    <2>1. CASE \E last, k \in {0} \cup attempt.cursor .. Pieces, holds, narrates, image \in BOOLEAN :
                 \E first \in IF last = 0 THEN {0} ELSE attempt.cursor + 1 .. last :
                   Update(first, last, holds, k, narrates, image)
      <3>1. PICK last \in {0} \cup attempt.cursor .. Pieces, k \in {0} \cup attempt.cursor .. Pieces,
                 holds \in BOOLEAN, narrates \in BOOLEAN, image \in BOOLEAN :
              \E first \in IF last = 0 THEN {0} ELSE attempt.cursor + 1 .. last :
                Update(first, last, holds, k, narrates, image)
        BY <2>1, Zenon
      <3>2. PICK first \in IF last = 0 THEN {0} ELSE attempt.cursor + 1 .. last :
              Update(first, last, holds, k, narrates, image)
        BY <3>1, Zenon
      <3> QED BY <3>2, UpdateKeeps
    <2>2. CASE \E narrates, failed \in BOOLEAN : Complete(narrates, failed) BY <2>2, CompleteKeeps
    <2>3. CASE End BY <2>3, EndKeeps
    <2>4. CASE Close BY <2>4, CloseKeeps
    <2>5. CASE Break BY <2>5, RaiseKeeps DEF Break
    <2>6. CASE UNCHANGED mergeVars
      BY <2>6 DEF mergeVars, MergeInv, AttemptInv, ReadOnce, WholeAnswer
    <2> QED BY <2>1, <2>2, <2>3, <2>4, <2>5, <2>6 DEF MergeNext
  <1> QED BY <1>1, <1>2, PTL DEF MergeSpec

\* No piece of an answer is shown twice, and none out of its order: what
\* a client of SubstrateCopilotClient.chat_stream reads, put together
\* from deltas, snapshots that restate them, a marker held back and the
\* remainder of the completion, repeats nothing in any attempt.
THEOREM AnswerReadOnce == MergeSpec => []ReadOnce
  <1>1. MergeInv => ReadOnce BY DEF MergeInv
  <1> QED BY <1>1, MergeKept, PTL

\* An answer that a completion ended and that was shown from its first
\* piece was shown to its last: whatever of the text the frames left
\* out, _on_completion's fallback and the remainder at the end supply.
THEOREM AnswerReadWhole == MergeSpec => []WholeAnswer
  <1>1. MergeInv => WholeAnswer BY DEF MergeInv
  <1> QED BY <1>1, MergeKept, PTL
=============================================================================
