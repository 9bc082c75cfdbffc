----------------------------- MODULE MC_Liveness ------------------------------
(***************************************************************************)
(* Whoever waits is served: a request for its session, a caller for a      *)
(* renewal, a turn for a slot of its account.  The three components share  *)
(* no state here and are checked side by side: part, chosen at the start,  *)
(* is the one that runs, and the others stay where they start.  Fairness   *)
(* is that of the component that runs.                                     *)
(***************************************************************************)
EXTENDS AccountTurns, Common

CONSTANTS
  Requests, MaxObjects, MaxIds,              \* of the continuations
  Callers, Subjects, Others, MaxDecisions    \* of the renewals

VARIABLES
  part,
  req, seen, sess, made, store, disk, queue, holder,
  acct, round, line, keeper, slot, call, clock, decided

chainVars == <<req, seen, sess, made, store, disk, queue, holder>>
consumerVars == <<acct, round, line, keeper, slot, call, clock, decided>>
allVars == <<part, chainVars, consumerVars, vars>>

Chain == INSTANCE ResponseChain
Consumer == INSTANCE ConsumerRefresh WITH holder <- keeper
-----------------------------------------------------------------------------
LiveInit ==
  /\ part \in {"chain", "consumer", "slots"}
  /\ Chain!Init /\ Consumer!Init /\ Init
  /\ part # "consumer" => acct = Consumer!SignedOut(0)
  /\ part # "slots" =>
       limit = 0 /\ \A t \in Turns : turn[t].account = CHOOSE a \in Accounts : TRUE

LiveNext ==
  /\ UNCHANGED part
  /\ \/ part = "chain" /\ Chain!Next /\ UNCHANGED <<consumerVars, vars>>
     \/ part = "consumer" /\ Consumer!Next /\ UNCHANGED <<chainVars, vars>>
     \/ part = "slots" /\ Next /\ UNCHANGED <<chainVars, consumerVars>>

\* The fairness of each component.  Where a request is implies which of its
\* actions may be enabled, and is looked at first to spare evaluations.
LiveFairness ==
  /\ \A r \in Requests :
       /\ WF_chainVars(/\ part = "chain" /\ req[r].pc = "waiting"
                       /\ \E x, inherit \in BOOLEAN, own \in Chain!Modes :
                            Chain!Admit(r, x, own, inherit) \/ Chain!Reject(r, x, own, inherit))
       /\ WF_chainVars(/\ part = "chain" /\ req[r].pc \in Chain!Owning
                       /\ Chain!Answer(r) \/ Chain!Issue(r) \/ Chain!Deliver(r) \/ Chain!Fail(r))
  /\ \A c \in Callers :
       /\ WF_consumerVars(part = "consumer" /\ Consumer!Enter(c))
       /\ WF_consumerVars(part = "consumer" /\ Consumer!Attempt(c))
  /\ WF_consumerVars(part = "consumer" /\ Consumer!OthersLeave)
  /\ \A t \in Turns :
       /\ WF_vars(part = "slots" /\ Admit(t))
       /\ WF_vars(part = "slots" /\ Finish(t))

LiveSpec == LiveInit /\ [][LiveNext]_allVars /\ LiveFairness
-----------------------------------------------------------------------------
\* A request that waits for its session is admitted or refused.
NobodyWaitsForever == Chain!NobodyWaitsForever

\* Everyone who asked for a renewal is answered.
EveryoneAnswered == Consumer!EveryoneAnswered
=============================================================================
