------------------------------- MODULE MC_Stores ------------------------------
(***************************************************************************)
(* What the proxy keeps between requests: the tokens of an account, what   *)
(* it notes of a turn, whose history is whose, the conversations a cleanup *)
(* spares, the ledgers, the limits and the sign-ins.  The models share no  *)
(* state and are checked side by side: part, chosen at the start, is the   *)
(* one that runs, and the others stay where they start.                    *)
(***************************************************************************)
EXTENDS TokenRenewal, PersonalRenewal, TurnNotes, HistoryIndex, CloudSweep,
        CallLedger, RateLimits, PkceLogins, TLC

VARIABLE part

storeVars ==
  <<part, workVars, personalVars, noteVars, indexVars, sweepVars, ledgerVars, rateVars, pkceVars>>

StoresInit ==
  /\ part \in {"work", "personal", "notes", "index", "sweep", "ledger", "rates",
              "pkce"}
  /\ WorkInit /\ PersonalInit /\ NotesInit /\ IndexInit /\ SweepInit /\ LedgerInit
  /\ RatesInit /\ PkceInit
  /\ part # "work" => work = Blank
  /\ part # "notes" => noted.identity = CHOOSE i \in Identities : TRUE
  /\ part # "ledger" => limit = CHOOSE n \in LogLimits : TRUE
  /\ part # "rates" => rate = CHOOSE n \in Rates : TRUE

StoresNext ==
  /\ UNCHANGED part
  /\ \/ /\ part = "work" /\ WorkNext
        /\ UNCHANGED <<personalVars, noteVars, indexVars, sweepVars, ledgerVars, rateVars, pkceVars>>
     \/ /\ part = "personal" /\ PersonalNext
        /\ UNCHANGED <<workVars, noteVars, indexVars, sweepVars, ledgerVars, rateVars, pkceVars>>
     \/ /\ part = "notes" /\ NotesNext
        /\ UNCHANGED <<workVars, personalVars, indexVars, sweepVars, ledgerVars, rateVars, pkceVars>>
     \/ /\ part = "index" /\ IndexNext
        /\ UNCHANGED <<workVars, personalVars, noteVars, sweepVars, ledgerVars, rateVars, pkceVars>>
     \/ /\ part = "sweep" /\ SweepNext
        /\ UNCHANGED <<workVars, personalVars, noteVars, indexVars, ledgerVars, rateVars, pkceVars>>
     \/ /\ part = "ledger" /\ LedgerNext
        /\ UNCHANGED <<workVars, personalVars, noteVars, indexVars, sweepVars, rateVars, pkceVars>>
     \/ /\ part = "rates" /\ RatesNext
        /\ UNCHANGED <<workVars, personalVars, noteVars, indexVars, sweepVars, ledgerVars, pkceVars>>
     \/ /\ part = "pkce" /\ PkceNext
        /\ UNCHANGED <<workVars, personalVars, noteVars, indexVars, sweepVars, ledgerVars, rateVars>>

StoresSpec == StoresInit /\ [][StoresNext]_storeVars

\* The two people are interchangeable, and so are the two clients; the .cfg
\* uses the same values for other sets of two.
Symmetry == Permutations(People) \cup Permutations(Askers)
==============================================================================
