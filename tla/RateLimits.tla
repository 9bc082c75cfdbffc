------------------------------- MODULE RateLimits -------------------------------
(***************************************************************************)
(* The request ceiling of one API key (ratelimit.py, consulted by          *)
(* auth_middleware.py): a token bucket per key, replaced when the key's    *)
(* limit changes.  The registry is read under its lock, the bucket spent   *)
(* under the bucket's own, so that another thread can come between.        *)
(*                                                                         *)
(* Time is counted in ticks of a token's fraction: a bucket of rate r      *)
(* gains r units a tick, and a token is UNIT units.                        *)
(***************************************************************************)
EXTENDS Common, Integers, Sequences, FiniteSets

CONSTANTS Threads,
          Rates, Burst,  \* the limits an admin may set; 0 is none
          UNIT,          \* units of a token
          MaxTicks, MaxLimits, MaxRequests  \* bounds

ASSUME RatesAssumption == Rates \subseteq Nat /\ Burst \in Nat /\ UNIT \in Nat

VARIABLES
  rate,      \* the limit in force
  buckets,   \* every bucket made: <<[rate, level, updated]>>
  entry,     \* the registry's bucket for the key, or 0
  threads,   \* the bucket each thread has looked up
  ticks, limits,
  passed     \* the requests let through: <<[bucket, at]>>

rateVars == <<rate, buckets, entry, threads, ticks, limits, passed>>

-----------------------------------------------------------------------------
RatesInit ==
  /\ rate \in Rates
  /\ buckets = <<>> /\ entry = 0
  /\ threads = [t \in Threads |-> [pc |-> "idle", bucket |-> 0]]
  /\ ticks = 0 /\ limits = 0 /\ passed = <<>>

Clock ==
  /\ ticks < MaxTicks /\ ticks' = ticks + 1
  /\ UNCHANGED <<rate, buckets, entry, threads, limits, passed>>

\* An admin edits the key's or the global limit.
SetLimit(r) ==
  /\ r # rate /\ limits < MaxLimits /\ limits' = limits + 1
  /\ rate' = r
  /\ UNCHANGED <<buckets, entry, threads, ticks, passed>>

\* RateLimiterRegistry.try_acquire: the bucket, a new one for a new limit.
LookUp(t) ==
  /\ threads[t].pc = "idle" /\ rate > 0 /\ Len(passed) < MaxRequests
  /\ LET known == entry # 0 /\ buckets[entry].rate = rate
         fresh == [rate |-> rate, level |-> Burst * UNIT, updated |-> ticks] IN
     /\ buckets' = IF known THEN buckets ELSE Append(buckets, fresh)
     /\ entry' = IF known THEN entry ELSE Len(buckets')
     /\ threads' = [threads EXCEPT ![t] = [pc |-> "looked", bucket |-> entry']]
  /\ UNCHANGED <<rate, ticks, limits, passed>>

\* Mutant: the time of the refill is not noted.
Refilled_Twice(b) ==
  LET gained == b.level + (ticks - b.updated) * b.rate IN
  [b EXCEPT !.level = IF gained > Burst * UNIT THEN Burst * UNIT ELSE gained]

\* TokenBucket._refill
Refilled(b) ==
  LET gained == b.level + (ticks - b.updated) * b.rate IN
  [b EXCEPT !.level = IF gained > Burst * UNIT THEN Burst * UNIT ELSE gained,
            !.updated = ticks]

\* TokenBucket.try_acquire: a whole token, or a refusal.
Acquire(t) ==
  LET i == threads[t].bucket
      b == Refilled(buckets[i]) IN
  /\ threads[t].pc = "looked"
  /\ threads' = [threads EXCEPT ![t] = [pc |-> "idle", bucket |-> 0]]
  /\ IF b.level >= UNIT
     THEN /\ buckets' = [buckets EXCEPT ![i] = [b EXCEPT !.level = @ - UNIT]]
          /\ passed' = Append(passed, [bucket |-> i, at |-> ticks])
     ELSE buckets' = [buckets EXCEPT ![i] = b] /\ UNCHANGED passed
  /\ UNCHANGED <<rate, entry, ticks, limits>>

RatesNext ==
  \/ Clock
  \/ \E r \in Rates : SetLimit(r)
  \/ \E t \in Threads : LookUp(t) \/ Acquire(t)

RatesSpec == RatesInit /\ [][RatesNext]_rateVars
-----------------------------------------------------------------------------
(* Between any two requests that one limit let through lie at most its     *)
(* burst and what accrued meanwhile, however often callers were refused    *)
(* and whichever threads asked: "short bursts are absorbed up to burst     *)
(* while the long-run average is held at rpm".                             *)
RateHeld ==
  \A i, j \in DOMAIN passed :
    i <= j /\ passed[i].bucket = passed[j].bucket =>
      Cardinality({n \in i..j : passed[n].bucket = passed[i].bucket}) * UNIT
        <= Burst * UNIT + (passed[j].at - passed[i].at) * buckets[passed[i].bucket].rate
=============================================================================
