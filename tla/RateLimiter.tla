------------------------------ MODULE RateLimiter ------------------------------
(***************************************************************************)
(* The limiters of the ingest tokens (internal/server/ratelimit.go): a map *)
(* from the name of a token to its bucket, behind a mutex that is released *)
(* before the bucket is asked.  A bucket is x/time/rate's: it fills with   *)
(* time, up to its burst, and a request takes one.                         *)
(***************************************************************************)
EXTENDS Integers, Sequences

CONSTANTS
  Names,       \* names of ingest tokens
  PerTick,     \* rate_limit_per_second, in requests per tick
  Burst,       \* rate_limit_burst
  MaxTime      \* bound: time, in ticks

ASSUME RateAssumption ==
  /\ PerTick \in Int /\ Burst \in Int /\ MaxTime \in Nat

VARIABLES
  buckets,     \* the limiters that were made: what each has left
  limiterOf,   \* the map: the index of each name's limiter, 0 for none
  now,         \* time
  passed,      \* history: requests let through, by name
  ledger       \* history: passed at the beginning of each tick

limiter == <<buckets, limiterOf, now, passed, ledger>>

LimiterInit ==
  /\ buckets = <<>>
  /\ limiterOf = [name \in Names |-> 0]
  /\ now = 0
  /\ passed = [name \in Names |-> 0]
  /\ ledger = [name \in Names |-> [t \in 0..MaxTime |-> 0]]

\* newLimiters: no limit at all, and a burst of at least one.
Limited == PerTick > 0
Capacity == IF Burst <= 0 THEN 1 ELSE Burst

\* allow, under the mutex: the limiter of a name, made when it is first asked for.
M_HasLimiter_never(name) == FALSE
HasLimiter(name) == limiterOf[name] # 0

FindLimiter(name) ==
  /\ IF HasLimiter(name)
     THEN UNCHANGED <<buckets, limiterOf>>
     ELSE /\ buckets' = Append(buckets, Capacity)
          /\ limiterOf' = [limiterOf EXCEPT ![name] = Len(buckets) + 1]
  /\ UNCHANGED <<now, passed, ledger>>

\* allow, after it: one request is taken from the bucket, or refused.
HasRoom(bucket) == buckets[bucket] >= 1

Take(bucket, name) ==
  /\ buckets' = [buckets EXCEPT ![bucket] = @ - 1]
  /\ passed' = [passed EXCEPT ![name] = @ + 1]
  /\ UNCHANGED <<limiterOf, now, ledger>>

Filled(level) == IF level + PerTick > Capacity THEN Capacity ELSE level + PerTick

Tick ==
  /\ now < MaxTime
  /\ now' = now + 1
  /\ buckets' = [b \in DOMAIN buckets |-> Filled(buckets[b])]
  /\ ledger' = [name \in Names |-> [ledger[name] EXCEPT ![now + 1] = passed[name]]]
  /\ UNCHANGED <<limiterOf, passed>>
================================================================================
