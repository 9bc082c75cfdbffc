----------------------------- MODULE MC_Consumer ------------------------------
(***************************************************************************)
(* A consumer account: its credential is renewed for several callers, a    *)
(* turn is made with it, and the turn's text is cut to what upstream       *)
(* takes.  The three models share no state and are checked side by side:   *)
(* part, chosen at the start, is the one that runs.  Callers are           *)
(* interchangeable, and so are the two Microsoft subjects.                 *)
(***************************************************************************)
EXTENDS ConsumerRefresh, ConsumerTurn, PromptBudget, TLC

VARIABLE part

consumerVars == <<part, vars, turnVars, promptVars>>

PartsInit ==
  /\ part \in {"refresh", "turn", "prompt"}
  /\ Init /\ ConsumerInit /\ BudgetInit
  /\ part # "turn" => asked = [images |-> 0, text |-> TRUE, gate |-> TRUE]
  /\ part # "prompt" => \A text \in DOMAIN needs : needs[text] = 0

PartsNext ==
  /\ UNCHANGED part
  /\ \/ part = "refresh" /\ Next /\ UNCHANGED <<turnVars, promptVars>>
     \/ part = "turn" /\ ConsumerNext /\ UNCHANGED <<vars, promptVars>>
     \/ part = "prompt" /\ Compact /\ UNCHANGED <<vars, turnVars>>

PartsSpec == PartsInit /\ [][PartsNext]_consumerVars

CallerSymmetry == Permutations(Callers) \cup Permutations(Subjects)
=============================================================================
