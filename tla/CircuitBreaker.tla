--------------------------- MODULE CircuitBreaker ---------------------------
(***************************************************************************)
(* The circuit breaker of one provider: CircuitBreakerProvider over        *)
(* gobreaker's TwoStepCircuitBreaker, and the hot reload of the registry,  *)
(* which puts a fresh breaker in its place.                                *)
(*                                                                         *)
(* gobreaker numbers the generations of its counts and ignores the outcome *)
(* of a call admitted in an earlier one.  Only "the present generation or  *)
(* an earlier one" matters, so a call in flight is current or stale.       *)
(***************************************************************************)
EXTENDS Integers, FiniteSets

CONSTANTS
    Calls,         \* Generate and GenerateStream calls
    MaxRequests,   \* CircuitBreakerConfig.MaxRequests
    MinRequests,   \* CircuitBreakerConfig.MinRequests
    RatioNum,      \* CircuitBreakerConfig.FailureRatio = RatioNum / RatioDen
    RatioDen,
    Interval,      \* ticks of CircuitBreakerConfig.Interval, 0: never clear
    Timeout,       \* ticks of CircuitBreakerConfig.Timeout
    ReqBound       \* bound: requests counted in one generation

ASSUME BreakerAssumption ==
    /\ IsFiniteSet(Calls)
    /\ MaxRequests \in Nat \ {0}
    /\ MinRequests \in Nat
    /\ RatioNum \in Nat
    /\ RatioDen \in Nat \ {0}
    /\ Interval \in Nat
    /\ Timeout \in Nat \ {0}
    /\ ReqBound \in Nat

VARIABLES
    state,     \* state of the breaker
    req,       \* Counts.Requests: calls admitted in this generation
    ok,        \* Counts.TotalSuccesses
    fail,      \* Counts.TotalFailures
    consec,    \* Counts.ConsecutiveSuccesses
    left,      \* ticks until expiry has passed
    call,      \* what the breaker still expects of each call; a lost one is
               \* over and its outcome will never be reported
    registry,  \* whether the breaker is of the first registry or a reloaded one
    since      \* ticks since the breaker last tripped, at most Timeout (observer)

vars == <<state, req, ok, fail, consec, left, call, registry, since>>

(* To a new generation the calls in flight are stale and the lost ones no  *)
(* more than idle.                                                         *)
Outdate(c) ==
    [x \in Calls |-> IF c[x] = "current" THEN "stale"
                     ELSE IF c[x] = "lost" THEN "idle" ELSE c[x]]

(* Faulty variant: the two periods are mixed up. *)
LifetimeSwapped(s) ==
    IF s = "closed" THEN Timeout ELSE IF s = "open" THEN Interval ELSE 0

(* How long a state lasts before currentState changes it. *)
Lifetime(s) ==
    IF s = "closed" THEN Interval ELSE IF s = "open" THEN Timeout ELSE 0

Init ==
    /\ state = "closed"
    /\ req = 0 /\ ok = 0 /\ fail = 0 /\ consec = 0
    /\ left = Interval
    /\ call = [c \in Calls |-> "idle"]
    /\ registry = "first"
    /\ since = Timeout

(***************************************************************************)
(* currentState: what the expiry makes of the breaker when it is next used *)
(***************************************************************************)
Expired ==
    /\ left = 0
    /\ state = "open" \/ (state = "closed" /\ Interval > 0)

NowState == IF Expired /\ state = "open" THEN "half" ELSE state
NowCount(n) == IF Expired THEN 0 ELSE n
NowCall == IF Expired THEN Outdate(call) ELSE call
NowLeft == IF Expired THEN Lifetime(NowState) ELSE left

(* The step leaves the state and the expiry as currentState finds them and *)
(* makes the counts the given ones.                                        *)
Count(r, o, f, k) ==
    /\ state' = NowState
    /\ left' = NowLeft
    /\ req' = r /\ ok' = o /\ fail' = f /\ consec' = k

(* setState: a new generation with cleared counts. *)
SetState(s) ==
    /\ state' = s
    /\ left' = Lifetime(s)
    /\ req' = 0 /\ ok' = 0 /\ fail' = 0 /\ consec' = 0

(* ReadyToTrip: Requests also counts the calls still in flight. *)
ReadyToTrip(r, f) == r >= MinRequests /\ f * RatioDen >= RatioNum * r

(***************************************************************************)
(* Allow                                                                   *)
(***************************************************************************)
(* Faulty variant: admission does not depend on the probes in flight. *)
AdmitsAnyProbe == NowState \in {"closed", "half"}

Admits ==
    \/ NowState = "closed"
    \/ NowState = "half" /\ NowCount(req) < MaxRequests

Allow(c) ==
    /\ call[c] = "idle"
    /\ Admits
    /\ NowCount(req) < ReqBound
    /\ Count(NowCount(req) + 1, NowCount(ok), NowCount(fail), NowCount(consec))
    /\ call' = [NowCall EXCEPT ![c] = "current"]
    /\ UNCHANGED <<registry, since>>

(* ErrOpenState or ErrTooManyRequests; the caller gets the error at once. *)
Reject ==
    /\ ~Admits
    /\ Count(NowCount(req), NowCount(ok), NowCount(fail), NowCount(consec))
    /\ call' = NowCall
    /\ UNCHANGED <<registry, since>>

(***************************************************************************)
(* done, called once by Generate or by the goroutine of GenerateStream     *)
(***************************************************************************)
(* Faulty variant: the outcome of an outdated call is counted. *)
DoneOutdatedCounted(c) ==
    /\ NowCall[c] = "stale"
    /\ Count(NowCount(req), NowCount(ok) + 1, NowCount(fail), NowCount(consec) + 1)
    /\ call' = [NowCall EXCEPT ![c] = "idle"]
    /\ UNCHANGED <<registry, since>>

(* The call was admitted in an earlier generation. *)
DoneOutdated(c) ==
    /\ NowCall[c] = "stale"
    /\ Count(NowCount(req), NowCount(ok), NowCount(fail), NowCount(consec))
    /\ call' = [NowCall EXCEPT ![c] = "idle"]
    /\ UNCHANGED <<registry, since>>

(* Faulty variant: the end of a stream without an error is not reported. *)
SucceedUnreported(c) ==
    /\ NowCall[c] = "current"
    /\ ~(NowState = "half" /\ NowCount(consec) + 1 >= MaxRequests)
    /\ Count(NowCount(req), NowCount(ok), NowCount(fail), NowCount(consec))
    /\ call' = [NowCall EXCEPT ![c] = "idle"]
    /\ UNCHANGED <<registry, since>>

Succeed(c) ==
    /\ NowCall[c] = "current"
    /\ ~(NowState = "half" /\ NowCount(consec) + 1 >= MaxRequests)
    /\ Count(NowCount(req), NowCount(ok) + 1, NowCount(fail), NowCount(consec) + 1)
    /\ call' = [NowCall EXCEPT ![c] = "idle"]
    /\ UNCHANGED <<registry, since>>

(* Enough successful probes: the breaker closes. *)
Recover(c) ==
    /\ NowCall[c] = "current"
    /\ NowState = "half" /\ NowCount(consec) + 1 >= MaxRequests
    /\ SetState("closed")
    /\ call' = [Outdate(NowCall) EXCEPT ![c] = "idle"]
    /\ UNCHANGED <<registry, since>>

Trips(r, f) ==
    \/ NowState = "half"
    \/ NowState = "closed" /\ ReadyToTrip(r, f)

Fail(c) ==
    /\ NowCall[c] = "current"
    /\ ~Trips(NowCount(req), NowCount(fail) + 1)
    /\ Count(NowCount(req), NowCount(ok), NowCount(fail) + 1, 0)
    /\ call' = [NowCall EXCEPT ![c] = "idle"]
    /\ UNCHANGED <<registry, since>>

(* Too many failures, or a failed probe: the breaker opens. *)
Trip(c) ==
    /\ NowCall[c] = "current"
    /\ Trips(NowCount(req), NowCount(fail) + 1)
    /\ SetState("open")
    /\ call' = [Outdate(NowCall) EXCEPT ![c] = "idle"]
    /\ since' = 0
    /\ UNCHANGED registry

(* Generate does not defer done: a panic of the provider, which            *)
(* PanicRecoveryMiddleware answers with 500, ends the call without it.     *)
Panic(c) ==
    /\ call[c] # "idle" /\ call[c] # "lost"
    /\ call' = [call EXCEPT ![c] = IF @ = "current" THEN "lost" ELSE "idle"]
    /\ UNCHANGED <<state, req, ok, fail, consec, left, registry, since>>

Done(c) == DoneOutdated(c) \/ Succeed(c) \/ Recover(c) \/ Fail(c) \/ Trip(c)

(***************************************************************************)
(* Hot reload                                                              *)
(***************************************************************************)
(* Every poll builds a new registry, with new breakers, and swaps it in,   *)
(* whether or not the configuration changed.                               *)
Swap ==
    /\ SetState("closed")
    /\ call' = Outdate(call)
    /\ registry' = "reloaded"
    /\ UNCHANGED since

(* A request that looked its provider up before the swap is admitted by    *)
(* the old breaker: to the new one its call is as good as outdated.        *)
AllowReplaced(c) ==
    /\ registry = "reloaded"
    /\ call[c] = "idle"
    /\ call' = [call EXCEPT ![c] = "stale"]
    /\ UNCHANGED <<state, req, ok, fail, consec, left, registry, since>>

Tick ==
    /\ left > 0 \/ since < Timeout
    /\ left' = IF left = 0 THEN 0 ELSE left - 1
    /\ since' = IF since = Timeout THEN Timeout ELSE since + 1
    /\ UNCHANGED <<state, req, ok, fail, consec, call, registry>>

Next ==
    \/ \E c \in Calls : Allow(c) \/ Done(c) \/ Panic(c) \/ AllowReplaced(c)
    \/ Reject
    \/ Swap
    \/ Tick

(* Every admitted call ends, and reports unless it panics. *)
Fairness == \A c \in Calls : WF_vars(Done(c))

Spec == Init /\ [][Next]_vars /\ Fairness

(***************************************************************************)
(* Properties                                                              *)
(***************************************************************************)
TypeOK ==
    /\ state \in {"closed", "open", "half"}
    /\ req \in Nat /\ ok \in Nat /\ fail \in Nat /\ consec \in Nat
    /\ left \in Nat
    /\ call \in [Calls -> {"idle", "current", "stale", "lost"}]
    /\ registry \in {"first", "reloaded"}
    /\ since \in 0 .. Timeout

(* The calls whose outcome the present generation waits for. *)
InFlight == {c \in Calls : call[c] \in {"current", "lost"}}

(* Every admitted call of the present generation is counted exactly once,  *)
(* as in flight, a success or a failure, however outcomes, expiries and    *)
(* reloads interleave: otherwise a half-open breaker could wait for a      *)
(* probe that is over, or close on the word of a call from before.         *)
CountsConsistent ==
    /\ req = ok + fail + Cardinality(InFlight)
    /\ consec <= ok

(* A recovering provider sees at most MaxRequests calls at a time, and the *)
(* open breaker none but outdated ones.                                    *)
HalfOpenBounded ==
    /\ state = "half" => Cardinality(InFlight) <= MaxRequests
    /\ state = "open" => InFlight = {}

(* Until the first reload, no call is admitted before Timeout has passed   *)
(* since the breaker tripped: by no expiry, outdated outcome or race of    *)
(* calls.                                                                  *)
TimeoutKeptUntilReload ==
    [][\A c \in Calls : call[c] = "idle" /\ call'[c] = "current"
                          => since = Timeout \/ registry = "reloaded"]_vars

AtProbeLimit == state = "half" /\ req >= MaxRequests

(* A half-open breaker has no expiry: its refusals end because the         *)
(* outcomes of its probes open or close it, or by a reload.  Nothing but a *)
(* call that panicked can make them last.                                  *)
ProbeLimitIsTemporary ==
    AtProbeLimit ~> ~AtProbeLimit \/ \E c \in Calls : call[c] = "lost"
=============================================================================
