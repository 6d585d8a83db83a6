---------------------------- MODULE RateLimiter -----------------------------
(***************************************************************************)
(* The token buckets of internal/middleware/ratelimit.go.                  *)
(*                                                                         *)
(* Allow finds or makes the client's bucket under rl.mu, releases it, and  *)
(* only then takes the bucket's own lock to refill and to take a token.    *)
(* cleanup holds rl.mu while it visits the buckets one by one and deletes  *)
(* the ones not used for ttl; a call that has found its bucket before      *)
(* still uses it after.  getRemaining changes nothing and is left out.     *)
(*                                                                         *)
(* Time is counted in ticks, TicksPerSecond of them to the second, so that *)
(* the truncation of elapsed.Seconds() to an int shows.                    *)
(***************************************************************************)
EXTENDS Integers, FiniteSets

CONSTANTS
  Threads,         \* request goroutines
  Keys,            \* client addresses
  Buckets,         \* identities of bucket objects
  NoBucket,        \* no bucket
  Rate,            \* rl.rate, tokens per minute
  Burst,           \* rl.burst
  TTL,             \* rl.ttl, in ticks
  TicksPerSecond,
  MaxTime          \* bound on the clock, for model checking

ASSUME ThreadsAssumption == IsFiniteSet(Threads)
ASSUME BucketAssumption == NoBucket \notin Buckets
ASSUME RateAssumption == Rate \in Nat \ {0} /\ Burst \in Nat \ {0}
ASSUME ClockAssumption ==
  TTL \in Nat /\ TicksPerSecond \in Nat \ {0} /\ MaxTime \in Nat

\* One token in the units of Rate times ticks.
Token == 60 * TicksPerSecond

\* A bucket left alone for ttl is full again.  (The server's ttl is five
\* minutes: so it is when rate_limit_burst is at most 5 rate_limit_per_minute.)
ASSUME TTLAssumption == Token * Burst <= Rate * TTL

VARIABLES
  now,        \* the clock
  buckets,    \* rl.buckets: the bucket of each key, or NoBucket
  tokens,     \* the fields of each bucket
  lastFill,
  lastUsed,
  call,       \* the key and bucket a goroutine's Allow has found
  sweepNow,   \* cleanup's now
  sweepLeft,  \* the keys its loop has still to visit
  sweeping,   \* whether cleanup holds rl.mu: "yes" or "no"
  allowed,    \* history: requests allowed, per key
  stray,      \* history: those of them allowed by a bucket already deleted
  evictions   \* history: buckets deleted, per key

bucketVars == <<tokens, lastFill, lastUsed>>
sweepVars == <<sweepNow, sweepLeft, sweeping>>
historyVars == <<allowed, stray, evictions>>
limiterVars == <<now, buckets, tokens, lastFill, lastUsed, call, sweepNow, sweepLeft,
          sweeping, allowed, stray, evictions>>

NoCall == [key |-> NoBucket, bucket |-> NoBucket]
InCall(t) == call[t] # NoCall

AtMost(a, b) == IF a < b THEN a ELSE b

LimiterInit ==
  /\ now = 0
  /\ buckets = [k \in Keys |-> NoBucket]
  /\ tokens = [b \in Buckets |-> 0]
  /\ lastFill = [b \in Buckets |-> 0]
  /\ lastUsed = [b \in Buckets |-> 0]
  /\ call = [t \in Threads |-> NoCall]
  /\ sweepNow = 0 /\ sweepLeft = {} /\ sweeping = "no"
  /\ allowed = [k \in Keys |-> 0]
  /\ stray = [k \in Keys |-> 0]
  /\ evictions = [k \in Keys |-> 0]

-----------------------------------------------------------------------------
\* The buckets that are in the map or in the hands of a call.
InUse == {buckets[k] : k \in Keys} \cup {call[t].bucket : t \in Threads}

\* Allow, under rl.mu: the key has a bucket ...
Find(t, k) ==
  /\ ~InCall(t) /\ sweeping = "no"
  /\ buckets[k] # NoBucket
  /\ call' = [call EXCEPT ![t] = [key |-> k, bucket |-> buckets[k]]]
  /\ UNCHANGED <<now, buckets, bucketVars, sweepVars, historyVars>>

\* ... or is given a full one.
Make(t, k) ==
  /\ ~InCall(t) /\ sweeping = "no"
  /\ buckets[k] = NoBucket
  /\ \E b \in Buckets \ InUse :
       /\ buckets' = [buckets EXCEPT ![k] = b]
       /\ tokens' = [tokens EXCEPT ![b] = Burst]
       /\ lastFill' = [lastFill EXCEPT ![b] = now]
       /\ lastUsed' = [lastUsed EXCEPT ![b] = now]
       /\ call' = [call EXCEPT ![t] = [key |-> k, bucket |-> b]]
  /\ UNCHANGED <<now, sweepVars, historyVars>>

\* int(elapsed.Seconds()) * rl.rate / 60, for the bucket b.
TokensToAdd(b) == (((now - lastFill[b]) \div TicksPerSecond) * Rate) \div 60

\* Mutant: the refill does not move lastFill.
FilledAt_Never(b) == lastFill[b]

Refilled(b) ==
  IF TokensToAdd(b) > 0 THEN AtMost(tokens[b] + TokensToAdd(b), Burst)
                        ELSE tokens[b]

FilledAt(b) == IF TokensToAdd(b) > 0 THEN now ELSE lastFill[b]

Bump(counter, k) == [counter EXCEPT ![k] = @ + 1]

\* Mutant: the goroutine keeps the bucket it found for its next request.
Take_Cached(t) ==
  LET k == call[t].key  b == call[t].bucket IN
  /\ InCall(t)
  /\ Refilled(b) > 0
  /\ tokens' = [tokens EXCEPT ![b] = Refilled(b) - 1]
  /\ lastFill' = [lastFill EXCEPT ![b] = FilledAt(b)]
  /\ lastUsed' = [lastUsed EXCEPT ![b] = now]
  /\ allowed' = Bump(allowed, k)
  /\ stray' = IF buckets[k] = b THEN stray ELSE Bump(stray, k)
  /\ UNCHANGED <<now, buckets, call, sweepVars, evictions>>

\* Allow, under b.mu: a token is there ...
Take(t) ==
  LET k == call[t].key  b == call[t].bucket IN
  /\ InCall(t)
  /\ Refilled(b) > 0
  /\ tokens' = [tokens EXCEPT ![b] = Refilled(b) - 1]
  /\ lastFill' = [lastFill EXCEPT ![b] = FilledAt(b)]
  /\ lastUsed' = [lastUsed EXCEPT ![b] = now]
  /\ call' = [call EXCEPT ![t] = NoCall]
  /\ allowed' = Bump(allowed, k)
  /\ stray' = IF buckets[k] = b THEN stray ELSE Bump(stray, k)
  /\ UNCHANGED <<now, buckets, sweepVars, evictions>>

\* ... or is not.
Deny(t) ==
  LET b == call[t].bucket IN
  /\ InCall(t)
  /\ Refilled(b) = 0
  /\ tokens' = [tokens EXCEPT ![b] = 0]
  /\ lastFill' = [lastFill EXCEPT ![b] = FilledAt(b)]
  /\ call' = [call EXCEPT ![t] = NoCall]
  /\ UNCHANGED <<now, buckets, lastUsed, sweepVars, historyVars>>

-----------------------------------------------------------------------------
\* cleanup: a tick of its timer, one turn of its loop, and the end.
SweepBegin ==
  /\ sweeping = "no"
  /\ sweeping' = "yes"
  /\ sweepNow' = now
  /\ sweepLeft' = {k \in Keys : buckets[k] # NoBucket}
  /\ UNCHANGED <<now, buckets, bucketVars, call, historyVars>>

SweepKey(k) ==
  /\ sweeping = "yes" /\ k \in sweepLeft
  /\ sweepLeft' = sweepLeft \ {k}
  /\ IF sweepNow - lastUsed[buckets[k]] > TTL
     THEN /\ buckets' = [buckets EXCEPT ![k] = NoBucket]
          /\ evictions' = Bump(evictions, k)
     ELSE UNCHANGED <<buckets, evictions>>
  /\ UNCHANGED <<now, bucketVars, call, sweepNow, sweeping, allowed, stray>>

SweepEnd ==
  /\ sweeping = "yes" /\ sweepLeft = {}
  /\ sweeping' = "no"
  /\ UNCHANGED <<now, buckets, bucketVars, call, sweepNow, sweepLeft,
                 historyVars>>

Tick ==
  /\ now < MaxTime
  /\ now' = now + 1
  /\ UNCHANGED <<buckets, bucketVars, call, sweepVars, historyVars>>

Lookup == \E t \in Threads, k \in Keys : Find(t, k) \/ Make(t, k)
Decide == \E t \in Threads : Take(t) \/ Deny(t)
Cleanup == SweepBegin \/ (\E k \in Keys : SweepKey(k)) \/ SweepEnd

LimiterNext == Lookup \/ Decide \/ Cleanup \/ Tick

LimiterSpec == LimiterInit /\ [][LimiterNext]_limiterVars

-----------------------------------------------------------------------------
(***************************************************************************)
(* Properties                                                              *)
(***************************************************************************)

\* Every variable has its type; a bucket holds between 0 and Burst tokens.
LimiterTypeOK ==
  /\ now \in Nat
  /\ buckets \in [Keys -> Buckets \cup {NoBucket}]
  /\ tokens \in [Buckets -> 0..Burst]
  /\ lastFill \in [Buckets -> Nat] /\ lastUsed \in [Buckets -> Nat]
  /\ call \in [Threads -> [key : Keys, bucket : Buckets] \cup {NoCall}]
  /\ sweepNow \in Nat /\ sweepLeft \subseteq Keys /\ sweeping \in {"yes", "no"}
  /\ allowed \in [Keys -> Nat] /\ stray \in [Keys -> Nat]
  /\ evictions \in [Keys -> Nat]

\* A key is never allowed more than its burst and what its rate has earned
\* since the start, although cleanup replaces its bucket by a full one:
\* except through calls that cleanup overtook.
RateBound ==
  \A k \in Keys :
    Token * (allowed[k] - stray[k]) <= Token * Burst + Rate * now

\* A bucket that is deleted while calls hold it lets through at most one
\* request of each.
StrayBound ==
  \A k \in Keys : stray[k] <= evictions[k] * Cardinality(Threads)

(***************************************************************************)
(* The inductive invariant.  The clocks of a bucket are in order.  A       *)
(* bucket belongs to one key, also in the hands of calls.  What a key has  *)
(* been allowed and has left in its bucket was its burst or was earned by  *)
(* lastFill; a key without bucket has earned a new burst.  And the calls   *)
(* that cleanup has overtaken count as stray requests to come.             *)
(***************************************************************************)
ClockInv ==
  /\ \A b \in Buckets : lastFill[b] <= lastUsed[b] /\ lastUsed[b] <= now
  /\ sweepNow <= now

PerClient ==
  /\ \A k, l \in Keys :
       k # l /\ buckets[k] # NoBucket => buckets[k] # buckets[l]
  /\ \A t \in Threads, k \in Keys :
       InCall(t) /\ buckets[k] = call[t].bucket => k = call[t].key

SweepInv == \A k \in sweepLeft : buckets[k] # NoBucket

Earned ==
  \A k \in Keys :
    /\ buckets[k] # NoBucket =>
         Token * (allowed[k] - stray[k] + tokens[buckets[k]])
           <= Token * Burst + Rate * lastFill[buckets[k]]
    /\ buckets[k] = NoBucket => Token * (allowed[k] - stray[k]) <= Rate * now

Overtaken(k) ==
  {t \in Threads :
     InCall(t) /\ call[t].key = k /\ call[t].bucket # buckets[k]}
StrayInv ==
  \A k \in Keys :
    stray[k] + Cardinality(Overtaken(k)) <= evictions[k] * Cardinality(Threads)

LimiterInv ==
  LimiterTypeOK /\ ClockInv /\ PerClient /\ SweepInv /\ Earned /\ StrayInv
=============================================================================
