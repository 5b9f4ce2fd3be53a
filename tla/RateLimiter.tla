---------------------------- MODULE RateLimiter ----------------------------
(***************************************************************************)
(* ratelimit.Middleware over its Redis backend, for the requests of one    *)
(* tenant: the concurrent-request counter with its safety TTL, and the     *)
(* daily token quota.  The request rate check that comes first has a       *)
(* module of its own (TokenBucket); here a request arrives once it has     *)
(* passed that check.                                                      *)
(*                                                                         *)
(* Every Redis command is one atomic step; between two commands of one     *)
(* request the others run.  Requests are reused: after its release a       *)
(* request identity stands for the next request.                           *)
(***************************************************************************)
EXTENDS Integers, FiniteSets

CONSTANTS
    Requests,       \* requests that may be in the middleware at a time
    MaxConcurrent,  \* cfg.MaxConcurrentRequests
    Quota,          \* cfg.DailyTokenQuota
    MaxTokens,      \* most tokens that one request uses
    TTL,            \* ticks of the 5 minute safety TTL
    UsedBound,      \* bound: no request arrives once more tokens are used
    DriftBound      \* bound: failing releases decrement no counter below -DriftBound

ASSUME LimiterAssumption ==
    /\ IsFiniteSet(Requests)
    /\ MaxConcurrent \in Nat \ {0}
    /\ Quota \in Nat \ {0}
    /\ MaxTokens \in Nat \ {0}
    /\ TTL \in Nat \ {0}
    /\ UsedBound \in Nat
    /\ DriftBound \in Nat

VARIABLES
    pc,       \* where each request stands in Middleware.Handler
    held,     \* requests whose deferred ReleaseConcurrent is registered
    count,    \* value of rl:conc:<tenant>; an absent key reads as 0
    ttl,      \* its time to live in ticks, 0 if it has none
    used,     \* value of rl:quota:<tenant>:<today>
    past,     \* the worst so far (observer): "clean", "late" once a request has
              \* outlived the TTL, "troubled" once a call to Redis failed or a
              \* gateway crashed
    late      \* requests that held a slot when the key last expired, not counted
              \* any more after trouble (observer)

vars == <<pc, held, count, ttl, used, past, late>>

PC == {"idle", "conc", "quota", "serve", "release", "fallback", "reset"}

Goto(r, l) == pc' = [pc EXCEPT ![r] = l]

Trouble == past' = "troubled" /\ late' = 0

Init ==
    /\ pc = [r \in Requests |-> "idle"]
    /\ held = {}
    /\ count = 0
    /\ ttl = 0
    /\ used = 0
    /\ past = "clean"
    /\ late = 0

(* The rate check let the request pass, or failed open. *)
Arrive(r) ==
    /\ pc[r] = "idle"
    /\ used <= UsedBound
    /\ Goto(r, "conc")
    /\ UNCHANGED <<held, count, ttl, used, past, late>>

(***************************************************************************)
(* Concurrent requests                                                     *)
(***************************************************************************)
(* Faulty variant: the counter is incremented without an expiry. *)
IncrWithoutExpiry ==
    /\ count < MaxConcurrent
    /\ count' = count + 1
    /\ UNCHANGED ttl

(* Faulty variant: the limit is off by one. *)
IncrOffByOne ==
    /\ count <= MaxConcurrent
    /\ count' = count + 1
    /\ ttl' = TTL

(* acquireConcurrentScript: INCR and EXPIRE in one script. *)
IncrWithExpiry ==
    /\ count < MaxConcurrent
    /\ count' = count + 1
    /\ ttl' = TTL

Acquire(r) ==
    /\ pc[r] = "conc"
    /\ IncrWithExpiry
    /\ held' = held \cup {r}
    /\ Goto(r, "quota")
    /\ UNCHANGED <<used, past, late>>

(* Faulty variant: a refused request renews the expiry. *)
RefuseRenews(r) ==
    /\ pc[r] = "conc"
    /\ count >= MaxConcurrent
    /\ Goto(r, "idle")
    /\ ttl' = TTL
    /\ UNCHANGED <<held, count, used, past, late>>

(* The script answers 0, leaving the expiry alone: 429. *)
Refuse(r) ==
    /\ pc[r] = "conc"
    /\ count >= MaxConcurrent
    /\ Goto(r, "idle")
    /\ UNCHANGED <<held, count, ttl, used, past, late>>

(* The call fails: the request goes on without a slot, although the script *)
(* may have been executed before the answer was lost.                      *)
AcquireFailsOpen(r) ==
    /\ pc[r] = "conc"
    /\ IncrWithExpiry \/ UNCHANGED <<count, ttl>>
    /\ Goto(r, "quota")
    /\ Trouble
    /\ UNCHANGED <<held, used>>

(***************************************************************************)
(* Daily quota: checked before the request is served, recorded after.      *)
(***************************************************************************)
(* Faulty variant: remaining < 0 instead of remaining <= 0. *)
CheckQuotaInclusive(r) ==
    /\ pc[r] = "quota"
    /\ used <= Quota
    /\ Goto(r, "serve")
    /\ UNCHANGED <<held, count, ttl, used, past, late>>

CheckQuota(r) ==
    /\ pc[r] = "quota"
    /\ used < Quota
    /\ Goto(r, "serve")
    /\ UNCHANGED <<held, count, ttl, used, past, late>>

QuotaExceeded(r) ==
    /\ pc[r] = "quota"
    /\ used >= Quota
    /\ Goto(r, "release")
    /\ UNCHANGED <<held, count, ttl, used, past, late>>

QuotaFailsOpen(r) ==
    /\ pc[r] = "quota"
    /\ Goto(r, "serve")
    /\ Trouble
    /\ UNCHANGED <<held, count, ttl, used>>

(* RecordUsage, under the quota key of the day on which it is called. *)
RecordUsage(r) ==
    /\ pc[r] = "serve"
    /\ \E t \in 1 .. MaxTokens : used' = used + t
    /\ Goto(r, "release")
    /\ UNCHANGED <<held, count, ttl, past, late>>

(* The handler returns without recording: it failed, its client went away, *)
(* or the call that records failed.                                        *)
ServeUnrecorded(r) ==
    /\ pc[r] = "serve"
    /\ Goto(r, "release")
    /\ UNCHANGED <<held, count, ttl, used, past, late>>

(***************************************************************************)
(* Deferred release                                                        *)
(***************************************************************************)
(* DECR leaves an expiry alone; on an absent key it creates -1 without one. *)
Release(r) ==
    /\ pc[r] = "release" /\ r \in held
    /\ count' = count - 1
    /\ held' = held \ {r}
    /\ Goto(r, "idle")
    /\ UNCHANGED <<ttl, used, past, late>>

(* A request that was let pass without a slot releases nothing. *)
ReleaseNothing(r) ==
    /\ pc[r] = "release" /\ r \notin held
    /\ Goto(r, "idle")
    /\ UNCHANGED <<held, count, ttl, used, past, late>>

(* The pipeline fails, before or after its DECR took effect. *)
ReleaseFails(r) ==
    /\ pc[r] = "release" /\ r \in held
    /\ \/ count > -DriftBound /\ count' = count - 1
       \/ UNCHANGED count
    /\ Goto(r, "fallback")
    /\ Trouble
    /\ UNCHANGED <<held, ttl, used>>

(* The fallback decrements again. *)
ReleaseFallback(r) ==
    /\ pc[r] = "fallback"
    /\ count > -DriftBound
    /\ count' = count - 1
    /\ held' = held \ {r}
    /\ Goto(r, IF count' < 0 THEN "reset" ELSE "idle")
    /\ UNCHANGED <<ttl, used, past, late>>

(* SET key 0 clears the expiry; its own error is ignored. *)
ReleaseReset(r) ==
    /\ pc[r] = "reset"
    /\ \/ count' = 0 /\ ttl' = 0
       \/ UNCHANGED <<count, ttl>>
    /\ Goto(r, "idle")
    /\ UNCHANGED <<held, used, past, late>>

(* The gateway process dies, or no command of the release gets through. *)
SlotLost(r) ==
    /\ pc[r] \in {"conc", "quota", "serve", "release", "fallback"}
    /\ held' = held \ {r}
    /\ Goto(r, "idle")
    /\ Trouble
    /\ UNCHANGED <<count, ttl, used>>

(***************************************************************************)
(* Redis and the calendar                                                  *)
(***************************************************************************)
Expires == ttl = 1

(* A tick of the TTL; a key at its end is deleted, also while requests     *)
(* hold slots.                                                             *)
Tick ==
    /\ ttl > 0
    /\ ttl' = ttl - 1
    /\ count' = IF Expires THEN 0 ELSE count
    /\ past' = IF Expires /\ held # {} /\ past = "clean" THEN "late" ELSE past
    /\ late' = IF Expires /\ past # "troubled" THEN Cardinality(held) ELSE late
    /\ UNCHANGED <<pc, held, used>>

(* Midnight UTC: dailyQuotaKey names a fresh key. *)
NewDay ==
    /\ used > 0
    /\ used' = 0
    /\ UNCHANGED <<pc, held, count, ttl, past, late>>

Step(r) ==
    \/ Acquire(r) \/ Refuse(r) \/ AcquireFailsOpen(r)
    \/ CheckQuota(r) \/ QuotaExceeded(r) \/ QuotaFailsOpen(r)
    \/ RecordUsage(r) \/ ServeUnrecorded(r)
    \/ Release(r) \/ ReleaseNothing(r)
    \/ ReleaseFails(r) \/ ReleaseFallback(r) \/ ReleaseReset(r)

Next ==
    \/ \E r \in Requests : Arrive(r) \/ Step(r) \/ SlotLost(r)
    \/ Tick
    \/ NewDay

(* Time passes.  Nothing is assumed of the requests, which may hang. *)
Fairness == WF_vars(Tick)

Spec == Init /\ [][Next]_vars /\ Fairness

(***************************************************************************)
(* Properties                                                              *)
(***************************************************************************)
TypeOK ==
    /\ pc \in [Requests -> PC]
    /\ held \subseteq Requests
    /\ count \in Int
    /\ ttl \in 0 .. TTL
    /\ used \in Nat
    /\ past \in {"clean", "late", "troubled"}
    /\ late \in Nat

(* A counter that keeps requests out always has an expiry: slots that were *)
(* leaked by a crash or a lost answer cannot lock the tenant out for ever. *)
PositiveCountExpires == count > 0 => ttl > 0

(* With a reliable Redis no more requests than MaxConcurrentRequests hold  *)
(* a slot, whatever the interleaving of acquires, refusals, releases and   *)
(* expiries, unless some outlived the TTL: then as many more as held one   *)
(* when the key last expired, although each of those takes the counter     *)
(* one further down when it ends.                                          *)
ConcurrencyBounded ==
    past # "troubled" => Cardinality(held) <= MaxConcurrent + late

(* The quota is checked before and recorded after a request, so it is      *)
(* overrun; but, as long as nothing failed or outlived the TTL, by no more *)
(* than what MaxConcurrentRequests requests use.                           *)
QuotaOvershootBounded ==
    past = "clean" => used <= (Quota - 1) + MaxConcurrent * MaxTokens

(* A tenant at its limit is admitted again, whatever was leaked: refused   *)
(* requests do not renew the expiry.                                       *)
LockoutEnds == count >= MaxConcurrent ~> count < MaxConcurrent
=============================================================================
