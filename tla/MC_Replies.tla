------------------------------ MODULE MC_Replies ------------------------------
(***************************************************************************)
(* What a client gets back, and what the next request may build on: a      *)
(* chain of responses, turns that a planner answers, the frames an answer  *)
(* is read from and the stream it is delivered in.  The models share no    *)
(* state and are checked side by side: part, chosen at the start, is the   *)
(* one that runs, and the others stay where they start.                    *)
(***************************************************************************)
EXTENDS ResponseChain, PlannedTurns, AnswerMerge, ReplyStream, TLC

VARIABLE part

replyVars == <<part, vars, planVars, mergeVars, streamVars>>

RepliesInit ==
  /\ part \in {"chain", "plan", "merge", "stream"}
  /\ Init /\ PlanInit /\ MergeInit /\ StreamInit
  /\ part # "plan" => api = "chat"
  /\ part # "merge" => attempt = Fresh(1, TRUE, FALSE, FALSE, "answer")
  /\ part # "stream" => stream.api = "chat" /\ ~ stream.tools

RepliesNext ==
  /\ UNCHANGED part
  /\ \/ part = "chain" /\ Next /\ UNCHANGED <<planVars, mergeVars, streamVars>>
     \/ part = "plan" /\ PlanNext /\ UNCHANGED <<vars, mergeVars, streamVars>>
     \/ part = "merge" /\ MergeNext /\ UNCHANGED <<vars, planVars, streamVars>>
     \/ part = "stream" /\ StreamNext /\ UNCHANGED <<vars, planVars, mergeVars>>

RepliesSpec == RepliesInit /\ [][RepliesNext]_replyVars

RequestSymmetry == Permutations(Requests)
=============================================================================
