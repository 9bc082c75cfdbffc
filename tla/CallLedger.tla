------------------------------- MODULE CallLedger -------------------------------
(***************************************************************************)
(* The call log (call_log_store.py) and the usage totals (usage_store.py). *)
(* A call's record is one dict that the log and the running turn share:    *)
(* a streamed call is logged when it starts and finished later, when the   *)
(* log may have been trimmed or cleared; any other call is finished and    *)
(* then logged.  Both paths count the call, and only once.                 *)
(***************************************************************************)
EXTENDS Common, Integers, Sequences, Functions, FiniteSets

CONSTANTS Calls, Models,
          LogLimits,   \* settings of call_log_limit
          MaxBuckets,  \* _MAX_MODEL_BUCKETS
          MaxClears    \* bound: clearings and restarts

ASSUME BucketsAssumption == MaxBuckets \in Nat \ {0}

Other == "other"

VARIABLES
  records,   \* each call's record
  log,       \* state.call_log
  limit,     \* state.call_log_limit
  usage,     \* the totals in memory
  saved,     \* the file, and the calls it counts
  ended,     \* calls that ended since the totals were cleared
  clears

ledgerVars == <<records, log, limit, usage, saved, ended, clears>>

-----------------------------------------------------------------------------
Empty == [calls |-> 0, tokens |-> 0, models |-> <<>>]

LedgerInit ==
  /\ records = [c \in Calls |-> [pc |-> "idle", model |-> None, counted |-> FALSE]]
  /\ log = <<>> /\ limit \in LogLimits
  /\ usage = Empty /\ saved = [usage |-> Empty, ended |-> {}]
  /\ ended = {} /\ clears = 0

Trim(seq, n) == IF Len(seq) > n THEN SubSeq(seq, Len(seq) - n + 1, Len(seq)) ELSE seq

\* _bounded_model_bucket
Bucket(models, model) ==
  IF model \in DOMAIN models \/ Cardinality(DOMAIN models \ {Other}) < MaxBuckets - 1
  THEN model ELSE Other

\* UsageStore.record: one call, and its tokens (one or two).
Counted(u, model, tokens) ==
  LET b == Bucket(u.models, model)
      old == IF b \in DOMAIN u.models THEN u.models[b] ELSE [calls |-> 0, tokens |-> 0] IN
  [calls |-> u.calls + 1, tokens |-> u.tokens + tokens,
   models |-> [x \in DOMAIN u.models \cup {b} |->
                 IF x = b THEN [calls |-> old.calls + 1, tokens |-> old.tokens + tokens]
                 ELSE u.models[x]]]

\* Mutant: the flag on the record is not looked at.
Finalized_Again(u, r, tokens) == Counted(u, r.model, tokens)

\* UsageStore.finalize_record
Finalized(u, r, tokens) == IF r.counted THEN u ELSE Counted(u, r.model, tokens)

\* _save_best_effort
Saves == saved' \in {saved, [usage |-> usage', ended |-> ended']}

\* A streamed call: append_call_log with no response yet.
OpenStream(c, model) ==
  /\ records[c].pc = "idle"
  /\ records' = [records EXCEPT ![c] = [@ EXCEPT !.pc = "open", !.model = model]]
  /\ log' = Trim(Append(log, c), limit)
  /\ UNCHANGED <<limit, usage, saved, ended, clears>>

\* record_response_text at the end of the stream.
EndStream(c, tokens) ==
  /\ records[c].pc = "open"
  /\ usage' = Finalized(usage, records[c], tokens)
  /\ records' = [records EXCEPT ![c].pc = "over", ![c].counted = TRUE]
  /\ ended' = ended \cup {c}
  /\ Saves
  /\ UNCHANGED <<log, limit, clears>>

\* The client went away: the call stays in the log, unfinished.
DropStream(c) ==
  /\ records[c].pc = "open"
  /\ records' = [records EXCEPT ![c].pc = "over"]
  /\ UNCHANGED <<log, limit, usage, saved, ended, clears>>

\* Any other call: record_response_text, and append_call_log finds a
\* response and finalizes the record, too.
EndCall(c, model, tokens) ==
  LET r == [records[c] EXCEPT !.pc = "over", !.model = model]
      done == [r EXCEPT !.counted = TRUE] IN
  /\ records[c].pc = "idle"
  /\ usage' = Finalized(Finalized(usage, r, tokens), done, tokens)
  /\ records' = [records EXCEPT ![c] = done]
  /\ log' = Trim(Append(log, c), limit)
  /\ ended' = ended \cup {c}
  /\ Saves
  /\ UNCHANGED <<limit, clears>>

Clears == clears < MaxClears /\ clears' = clears + 1

\* POST /admin/call-log/clear, and a new limit (trim_call_log)
ClearLog ==
  /\ log # <<>> /\ Clears
  /\ \/ log' = <<>> /\ UNCHANGED limit
     \/ limit' \in LogLimits \ {limit} /\ log' = Trim(log, limit')
  /\ UNCHANGED <<records, usage, saved, ended>>

\* POST /admin/usage/clear
ClearUsage ==
  /\ usage # Empty /\ Clears
  /\ usage' = Empty /\ ended' = {}
  /\ Saves
  /\ UNCHANGED <<records, log, limit>>

\* The process starts again from the file; its streams are gone.
RestartLedger ==
  /\ ended # {} /\ Clears
  /\ usage' = saved.usage /\ ended' = saved.ended
  /\ records' = [c \in Calls |-> IF records[c].pc = "open" THEN [records[c] EXCEPT !.pc = "over"]
                                 ELSE records[c]]
  /\ UNCHANGED <<log, limit, saved>>

LedgerNext ==
  \/ \E c \in Calls :
       \/ DropStream(c)
       \/ \E model \in Models : OpenStream(c, model)
       \/ \E tokens \in 1..2 :
            EndStream(c, tokens) \/ \E model \in Models : EndCall(c, model, tokens)
  \/ ClearLog \/ ClearUsage \/ RestartLedger

LedgerSpec == LedgerInit /\ [][LedgerNext]_ledgerVars
-----------------------------------------------------------------------------
CallsOf(models) == [b \in DOMAIN models |-> models[b].calls]
TokensOf(models) == [b \in DOMAIN models |-> models[b].tokens]

(* Every call that ended is counted once, whether its record is still in   *)
(* the log or not, and the models' counts add up to the totals, in a       *)
(* bounded number of buckets.                                              *)
LedgerAgrees ==
  /\ usage.calls = Cardinality(ended)
  /\ usage.calls = SumFunction(CallsOf(usage.models))
  /\ usage.tokens = SumFunction(TokensOf(usage.models))
  /\ Cardinality(DOMAIN usage.models) <= MaxBuckets
  /\ \A c \in ended : records[c].counted
=============================================================================
