---------------------------- MODULE SigningKeys ----------------------------
(***************************************************************************)
(* The cache of the identity provider's signing keys                       *)
(* (internal/auth/auth.go): requests that validate a bearer token, the     *)
(* periodic refresh goroutine, and the identity provider that publishes    *)
(* and withdraws keys and may be unreachable.                              *)
(*                                                                         *)
(* Time is counted in ticks and only as ages: nothing here depends on the  *)
(* date.  A refresh is two points of time: the provider's answer, which    *)
(* fixes the key set, and its installation.  A tick passes only when no    *)
(* goroutine has a local step to take and no fetch has used up its HTTP    *)
(* timeout, so a step of the program takes no time and a fetch at most     *)
(* FetchTime.                                                              *)
(***************************************************************************)
EXTENDS Integers, Sequences, FiniteSets

CONSTANTS
    Kids,             \* key identifiers
    Watched,          \* one of them, whose withdrawal is timed (keys are alike)
    Validators,       \* goroutines that validate a token
    Periodic,         \* the goroutine of periodicRefresh
    StaleTTL,         \* Config.StaleTTL; 0 lets stale keys be used forever
    FetchTime,        \* the HTTP client's timeouts: the longest fetch
    RefreshCooldown,  \* refreshCooldown
    NormalInterval,   \* normalRefreshInterval
    InitialRetry,     \* initialRetryInterval
    MaxRetry,         \* maxRetryInterval
    MaxRotations      \* bound: how often the provider changes its keys

ASSUME ConstantsAssumption ==
    /\ Watched \in Kids
    /\ IsFiniteSet(Validators)
    /\ Periodic \notin Validators
    /\ StaleTTL \in Nat
    /\ {FetchTime, RefreshCooldown, NormalInterval, InitialRetry} \subseteq Nat \ {0}
    /\ MaxRotations \in Nat
    /\ MaxRetry \in Nat /\ InitialRetry <= MaxRetry

VARIABLES
    published,   \* the signing keys the provider serves
    rotations,   \* how often they have changed
    gone,        \* observer: ticks since Watched was last served, up to GoneCap
    keys,        \* Middleware.keys
    fetchedAge,  \* ticks since lastFetchedAt, up to MaxAge + 1
    cool,        \* ticks until refreshCooldown has passed since lastRefreshAt
    queue,       \* refreshMu: the holder first, then those who wait for it
    fetch,       \* fetch[p]: where p's refreshJWKS stands
    snap,        \* snap[p]: the key set of the answer p has received
    dur,         \* dur[p]: ticks since p's fetch began
    timer,       \* ticks until periodicRefresh's timer fires
    retry,       \* periodicRefresh's retryInterval
    pc,          \* pc[v]: the step of validateToken v is at
    kid          \* kid[v]: the key its token names

vars == <<published, rotations, gone, keys, fetchedAge, cool, queue, fetch, snap,
          dur, timer, retry, pc, kid>>

idp == <<published, rotations, gone>>
cache == <<keys, fetchedAge>>
throttle == <<cool, queue>>
fetches == <<fetch, snap, dur>>
schedule == <<timer, retry>>
requests == <<pc, kid>>

NoKid == "none"

Fetchers == Validators \cup {Periodic}

\* The longest a request waits for refreshMu and then for its own fetch, behind
\* all the others, each with a fetch.
QueueTime == Cardinality(Validators) * FetchTime

\* The oldest key set in which a request finds its key: one within the stale
\* window when it arrived, or one installed while it waited for refreshMu.
MaxAge == IF StaleTTL > QueueTime THEN StaleTTL ELSE QueueTime

\* The longest a withdrawn key can be honoured.
Window == MaxAge + FetchTime
GoneCap == Window + 1

AtLeastZero(n) == IF n > 0 THEN n - 1 ELSE 0
UpTo(n, cap) == IF n < cap THEN n + 1 ELSE cap

\* New fetches the keys before anything else runs, and fails if it cannot;
\* lastRefreshAt stays the zero time, long ago.
Init ==
    /\ published \in SUBSET Kids \ {{}}
    /\ rotations = 0
    /\ gone = IF Watched \in published THEN 0 ELSE GoneCap
    /\ keys = published
    /\ fetchedAge = 0
    /\ cool = 0
    /\ queue = << >>
    /\ fetch = [p \in Fetchers |-> "none"]
    /\ snap = [p \in Fetchers |-> {}]
    /\ dur = [p \in Fetchers |-> 0]
    /\ timer = NormalInterval
    /\ retry = InitialRetry
    /\ pc = [v \in Validators |-> "idle"]
    /\ kid = [v \in Validators |-> NoKid]

----------------------------------------------------------------------------
(* The identity provider: keys are rotated at will, and at times it serves *)
(* no key the gateway can use.                                             *)

Rotate ==
    /\ rotations < MaxRotations
    /\ rotations' = rotations + 1

Publish(k) ==
    /\ Rotate
    /\ k \notin published
    /\ published' = published \cup {k}
    /\ gone' = IF k = Watched THEN 0 ELSE gone
    /\ UNCHANGED <<cache, throttle, fetches, schedule, requests>>

Withdraw(k) ==
    /\ Rotate
    /\ k \in published
    /\ published' = published \ {k}
    /\ UNCHANGED <<gone, cache, throttle, fetches, schedule, requests>>

\* The JWKS endpoint answers; the key set is what it serves at this moment.
Answer(p) ==
    /\ fetch[p] = "asked"
    /\ fetch' = [fetch EXCEPT ![p] = "answered"]
    /\ snap' = [snap EXCEPT ![p] = published]
    /\ UNCHANGED <<dur, idp, cache, throttle, schedule, requests>>

----------------------------------------------------------------------------
(* refreshJWKS                                                             *)

Ask(p) == fetch' = [fetch EXCEPT ![p] = "asked"]

\* Leaving refreshJWKS, with or without new keys.
FetchEnds(p) ==
    /\ fetch' = [fetch EXCEPT ![p] = "none"]
    /\ snap' = [snap EXCEPT ![p] = {}]
    /\ dur' = [dur EXCEPT ![p] = 0]

\* An answer with no usable signing key is an error.
Usable(p) == fetch[p] = "answered" /\ snap[p] # {}

\* Faulty variant: the new keys are added to the old ones.
AddKeys(p) ==
    /\ keys' = keys \cup snap[p]
    /\ fetchedAge' = 0

InstallKeys(p) ==
    /\ keys' = snap[p]
    /\ fetchedAge' = 0

\* Faulty variant: a failed fetch counts as a fetch.
KeepKeysButResetAge == fetchedAge' = 0 /\ UNCHANGED keys

\* A failed fetch preserves the previous key set and its age.
KeepKeys == UNCHANGED cache

\* The caller of refreshJWKS under refreshMu: it notes lastRefreshAt whatever
\* the outcome and unlocks.
ReleaseRefreshMu(v) ==
    /\ cool' = RefreshCooldown
    /\ queue' = Tail(queue)

\* periodicRefresh re-arms its timer: the normal interval after a success,
\* else the retry interval, which it doubles up to its cap.
Rearm(ok) ==
    /\ timer' = IF ok THEN NormalInterval ELSE retry
    /\ retry' = IF ok THEN InitialRetry
                ELSE IF 2 * retry < MaxRetry THEN 2 * retry ELSE MaxRetry

----------------------------------------------------------------------------
(* validateToken                                                           *)

TooOld == StaleTTL > 0 /\ fetchedAge > StaleTTL

\* A token that names key k arrives.  Keys older than the stale window force a
\* refresh, which waits for refreshMu.
Arrive(v, k) ==
    /\ pc[v] = "idle"
    /\ pc' = [pc EXCEPT ![v] = IF TooOld THEN "forced" ELSE "lookup"]
    /\ kid' = [kid EXCEPT ![v] = k]
    /\ queue' = IF TooOld THEN Append(queue, v) ELSE queue
    /\ UNCHANGED <<cool, idp, cache, fetches, schedule>>

\* The key function of jwt.Parse: an unknown key goes for refreshMu.
Lookup(v) ==
    /\ pc[v] = "lookup"
    /\ pc' = [pc EXCEPT ![v] = IF kid[v] \in keys THEN "accepted" ELSE "unknown"]
    /\ queue' = IF kid[v] \in keys THEN queue ELSE Append(queue, v)
    /\ UNCHANGED <<cool, idp, cache, fetches, schedule, kid>>

\* Algorithm, key id, signature, issuer, audience or expiry is wrong.
BadToken(v) ==
    /\ pc[v] = "lookup"
    /\ pc' = [pc EXCEPT ![v] = "rejected"]
    /\ UNCHANGED <<idp, cache, throttle, fetches, schedule, kid>>

HoldsRefreshMu(v) == queue # << >> /\ Head(queue) = v

\* forceRefresh, once it has the lock.
ForceRefresh(v) ==
    /\ pc[v] = "forced"
    /\ HoldsRefreshMu(v)
    /\ fetch[v] = "none"
    /\ Ask(v)
    /\ UNCHANGED <<snap, dur, cool, queue, idp, cache, schedule, requests>>

CooledDown == cool = 0

\* refreshIfCooledDown, once it has the lock.
RefreshIfCooledDown(v) ==
    /\ pc[v] = "unknown"
    /\ HoldsRefreshMu(v)
    /\ fetch[v] = "none"
    /\ \/ /\ CooledDown
          /\ Ask(v)
          /\ UNCHANGED <<queue, pc>>
       \/ /\ ~CooledDown
          /\ queue' = Tail(queue)
          /\ pc' = [pc EXCEPT ![v] = "relookup"]
          /\ UNCHANGED fetch
    /\ UNCHANGED <<snap, dur, cool, idp, cache, schedule, kid>>

\* The refresh of a request succeeds.
Refreshed(v) ==
    /\ Usable(v)
    /\ InstallKeys(v)
    /\ FetchEnds(v)
    /\ ReleaseRefreshMu(v)
    /\ pc' = [pc EXCEPT ![v] = IF pc[v] = "forced" THEN "lookup" ELSE "relookup"]
    /\ UNCHANGED <<idp, schedule, kid>>

\* It fails: fatal for a forced refresh, only logged for an unknown key.
RefreshFailed(v) ==
    /\ fetch[v] # "none"
    /\ KeepKeys
    /\ FetchEnds(v)
    /\ ReleaseRefreshMu(v)
    /\ pc' = [pc EXCEPT ![v] = IF pc[v] = "forced" THEN "rejected" ELSE "relookup"]
    /\ UNCHANGED <<idp, schedule, kid>>

Relookup(v) ==
    /\ pc[v] = "relookup"
    /\ pc' = [pc EXCEPT ![v] = IF kid[v] \in keys THEN "accepted" ELSE "rejected"]
    /\ UNCHANGED <<idp, cache, throttle, fetches, schedule, kid>>

----------------------------------------------------------------------------
(* periodicRefresh, which does not take refreshMu                          *)

TimerFires ==
    /\ timer = 0
    /\ fetch[Periodic] = "none"
    /\ Ask(Periodic)
    /\ UNCHANGED <<snap, dur, idp, cache, throttle, schedule, requests>>

PeriodicRefreshed ==
    /\ Usable(Periodic)
    /\ InstallKeys(Periodic)
    /\ FetchEnds(Periodic)
    /\ Rearm(TRUE)
    /\ UNCHANGED <<idp, throttle, requests>>

PeriodicFailed ==
    /\ fetch[Periodic] # "none"
    /\ KeepKeys
    /\ FetchEnds(Periodic)
    /\ Rearm(FALSE)
    /\ UNCHANGED <<idp, throttle, requests>>

----------------------------------------------------------------------------
(* Time                                                                    *)

LocalSteps == {"lookup", "relookup"}

\* A tick passes while requests wait for the lock or for the network, and a
\* request that has its answer is over.
Tick ==
    /\ \A v \in Validators : pc[v] \notin LocalSteps
    /\ \A v \in Validators : HoldsRefreshMu(v) => fetch[v] # "none"
    /\ timer = 0 => fetch[Periodic] # "none"
    /\ \A p \in Fetchers : dur[p] < FetchTime
    /\ gone' = IF Watched \in published THEN 0 ELSE UpTo(gone, GoneCap)
    /\ fetchedAge' = UpTo(fetchedAge, MaxAge + 1)
    /\ cool' = AtLeastZero(cool)
    /\ dur' = [p \in Fetchers |-> IF fetch[p] = "none" THEN 0 ELSE dur[p] + 1]
    /\ timer' = AtLeastZero(timer)
    /\ pc' = [v \in Validators |->
                IF pc[v] \in {"accepted", "rejected"} THEN "idle" ELSE pc[v]]
    /\ kid' = [v \in Validators |-> IF pc'[v] = "idle" THEN NoKid ELSE kid[v]]
    /\ UNCHANGED <<published, rotations, keys, queue, fetch, snap, retry>>

ValidateStep(v) ==
    \/ Lookup(v)
    \/ BadToken(v)
    \/ ForceRefresh(v)
    \/ RefreshIfCooledDown(v)
    \/ Refreshed(v)
    \/ RefreshFailed(v)
    \/ Relookup(v)

Next ==
    \/ \E k \in Kids : Publish(k) \/ Withdraw(k)
    \/ \E p \in Fetchers : Answer(p)
    \/ \E v \in Validators, k \in Kids : Arrive(v, k)
    \/ \E v \in Validators : ValidateStep(v)
    \/ TimerFires
    \/ PeriodicRefreshed
    \/ PeriodicFailed
    \/ Tick

\* Goroutines that can run do, time passes, and the provider is reachable
\* again and again: a periodic fetch that is tried forever is answered, and
\* its answer is installed, at some time.
Fairness ==
    /\ WF_vars(Tick)
    /\ WF_vars(TimerFires)
    /\ WF_vars(PeriodicRefreshed \/ PeriodicFailed)
    /\ SF_vars(Answer(Periodic))
    /\ SF_vars(PeriodicRefreshed)
    /\ \A v \in Validators : WF_vars(ValidateStep(v))

Spec == Init /\ [][Next]_vars /\ Fairness

----------------------------------------------------------------------------
(* Properties                                                              *)

\* Config.StaleTTL bounds the time for which a withdrawn key is honoured: a
\* token is accepted only if its key was served at most the window and one
\* fetch ago, whatever refreshes fail, overtake each other or wait.  The age is
\* not read again after the wait for refreshMu, so a queue that takes longer
\* than the window stretches the bound, but to no more than its own length.
WithdrawnKeyRejected ==
    \A v \in Validators :
        StaleTTL > 0 /\ pc[v] = "accepted" /\ kid[v] = Watched => gone <= Window

\* The cache catches up with the provider: once the published keys stay the
\* same, and some are usable, the cache is that set for good.
KeysConverge == <>[](published # {} => keys = published)

=============================================================================
