---------------------------- MODULE TokenBucket ----------------------------
(***************************************************************************)
(* The request rate limit of one identity: tokenBucketScript, run by Redis *)
(* for several gateway instances.  The script is told the time by the      *)
(* instance that calls it; the instances' clocks are up to MaxSkew ahead   *)
(* of the clock that Redis expires keys by.                                *)
(*                                                                         *)
(* Tokens are fractions in the script: here a request costs Cost units,    *)
(* the bucket holds Capacity units and gains Rate units per tick.  No name *)
(* here is one of RateLimiter, so that one module can extend both.         *)
(***************************************************************************)
EXTENDS Integers

CONSTANTS
    Cost,      \* units of one token (requested = 1)
    Capacity,  \* burst, in units
    Rate,      \* cfg.RequestsPerSecond, in units per tick
    Expiry,    \* PEXPIRE of the key: math.ceil(capacity / rate), in ticks
    Grace,     \* ... and the 5 seconds added to it
    MaxSkew,   \* how far a gateway's clock may be ahead
    MaxClock   \* bound on the clock

ASSUME BucketAssumption ==
    /\ Cost \in Nat \ {0}
    /\ Capacity \in Nat /\ Capacity >= Cost
    /\ Rate \in Nat \ {0}
    /\ Expiry \in Nat /\ Expiry * Rate >= Capacity
    /\ Grace \in Nat
    /\ MaxSkew \in Nat /\ MaxSkew <= Grace
    /\ MaxClock \in Nat

VARIABLES
    clock,     \* Redis's clock
    tokens,    \* field tokens of the key
    last,      \* field last_refill of the key
    bucketTTL,       \* ticks until the key expires, 0: there is no key
    start,     \* start of an arbitrary observation window (observer)
    admitted   \* requests allowed since then (observer)

bucketVars == <<clock, tokens, last, bucketTTL, start, admitted>>

MinOf(a, b) == IF a <= b THEN a ELSE b

BucketInit ==
    /\ clock = 0
    /\ tokens = 0 /\ last = 0 /\ bucketTTL = 0
    /\ start = 0 /\ admitted = 0

(* The bucket's content at the caller's time: a missing key is a full      *)
(* bucket; a caller whose clock is behind last_refill takes tokens away.   *)
NewTokens(now) ==
    IF bucketTTL = 0 THEN Capacity ELSE MinOf(Capacity, tokens + (now - last) * Rate)

(* HMSET and PEXPIRE, done whether or not the request is allowed. *)
Write(now, t) ==
    /\ tokens' = t
    /\ last' = now
    /\ bucketTTL' = Expiry + Grace

AllowRequest(now) ==
    /\ NewTokens(now) >= Cost
    /\ Write(now, NewTokens(now) - Cost)
    /\ admitted' = admitted + 1
    /\ UNCHANGED <<clock, start>>

(* Faulty variant: a refusal stores the refill without its time. *)
RefuseKeepsLast(now) ==
    /\ NewTokens(now) < Cost
    /\ tokens' = NewTokens(now)
    /\ UNCHANGED <<clock, last, bucketTTL, start, admitted>>

RefuseRequest(now) ==
    /\ NewTokens(now) < Cost
    /\ Write(now, NewTokens(now))
    /\ UNCHANGED <<clock, start, admitted>>

(* Time passes; a key at the end of its TTL is deleted. *)
BucketTick ==
    /\ clock < MaxClock
    /\ clock' = clock + 1
    /\ bucketTTL' = IF bucketTTL = 0 THEN 0 ELSE bucketTTL - 1
    /\ UNCHANGED <<tokens, last, start, admitted>>

(* The observer starts a new window. *)
Observe ==
    /\ start' = clock
    /\ admitted' = 0
    /\ UNCHANGED <<clock, tokens, last, bucketTTL>>

BucketNext ==
    \/ \E s \in 0 .. MaxSkew : AllowRequest(clock + s) \/ RefuseRequest(clock + s)
    \/ BucketTick
    \/ Observe

BucketSpec == BucketInit /\ [][BucketNext]_bucketVars

BucketTypeOK ==
    /\ clock \in Nat
    /\ tokens \in Int /\ tokens <= Capacity
    /\ last \in Nat
    /\ bucketTTL \in 0 .. (Expiry + Grace)
    /\ start \in 0 .. clock
    /\ admitted \in Nat

(* In every window of time, whenever it starts, no more requests are       *)
(* allowed than the burst, what the rate adds during the window, and what  *)
(* the gateways' clocks may be ahead.  Losing the key to its TTL gives     *)
(* nothing away.                                                           *)
RateBounded ==
    admitted * Cost <= Capacity + (clock - start + MaxSkew) * Rate
=============================================================================
