------------------------- MODULE RateLimiterProofs -------------------------
(***************************************************************************)
(* Theorems about the rate limiter: slots and quota (RateLimiter), for any *)
(* number of requests and any limits, and at the end the request rate      *)
(* (TokenBucket).                                                          *)
(***************************************************************************)
EXTENDS RateLimiter, TokenBucket, FiniteSetTheorems, TLAPS

(* What each action needs: types, and that a positive count has an expiry. *)
ExpiryInv == TypeOK /\ PositiveCountExpires

LEMMA ExpiryInitial == Init => ExpiryInv
  BY LimiterAssumption
     DEF LimiterAssumption, Init, ExpiryInv, TypeOK, PositiveCountExpires, PC

LEMMA HeldFinite ==
    ASSUME TypeOK
    PROVE  IsFiniteSet(held) /\ Cardinality(held) \in Nat
  BY LimiterAssumption, FS_Subset, FS_CardinalityType DEF LimiterAssumption, TypeOK

LEMMA ExpiryStep == ExpiryInv /\ [Next]_vars => ExpiryInv'
<1> USE LimiterAssumption DEF LimiterAssumption, PC, Goto, Trouble
<1> SUFFICES ASSUME ExpiryInv, [Next]_vars
             PROVE  ExpiryInv'
  OBVIOUS
<1> USE DEF ExpiryInv, TypeOK, PositiveCountExpires
<1>1. ASSUME NEW r \in Requests, Arrive(r) PROVE ExpiryInv'
  BY <1>1 DEF Arrive
<1>2. ASSUME NEW r \in Requests, Acquire(r) PROVE ExpiryInv'
  BY <1>2 DEF Acquire, IncrWithExpiry
<1>3. ASSUME NEW r \in Requests, Refuse(r) PROVE ExpiryInv'
  BY <1>3 DEF Refuse
<1>4. ASSUME NEW r \in Requests, AcquireFailsOpen(r) PROVE ExpiryInv'
  BY <1>4 DEF AcquireFailsOpen, IncrWithExpiry
<1>5. ASSUME NEW r \in Requests, CheckQuota(r) \/ QuotaExceeded(r) \/ QuotaFailsOpen(r)
      PROVE  ExpiryInv'
  BY <1>5 DEF CheckQuota, QuotaExceeded, QuotaFailsOpen
<1>6. ASSUME NEW r \in Requests, RecordUsage(r) PROVE ExpiryInv'
  BY <1>6 DEF RecordUsage
<1>7. ASSUME NEW r \in Requests, ServeUnrecorded(r) \/ ReleaseNothing(r)
      PROVE  ExpiryInv'
  BY <1>7 DEF ServeUnrecorded, ReleaseNothing
<1>8. ASSUME NEW r \in Requests, Release(r) PROVE ExpiryInv'
  BY <1>8 DEF Release
<1>9. ASSUME NEW r \in Requests, ReleaseFallback(r) PROVE ExpiryInv'
  BY <1>9 DEF ReleaseFallback
<1>9a. ASSUME NEW r \in Requests, ReleaseFails(r) PROVE ExpiryInv'
  BY <1>9a DEF ReleaseFails
<1>10. ASSUME NEW r \in Requests, ReleaseReset(r) PROVE ExpiryInv'
  BY <1>10 DEF ReleaseReset
<1>11. ASSUME NEW r \in Requests, SlotLost(r) PROVE ExpiryInv'
  BY <1>11 DEF SlotLost
<1>12. CASE Tick
  <2>1. Cardinality(held) \in Nat
    BY HeldFinite
  <2> QED
    BY <1>12, <2>1 DEF Tick, Expires
<1>13. CASE NewDay
  BY <1>13 DEF NewDay
<1>14. CASE UNCHANGED vars
  BY <1>14 DEF vars
<1> QED
  BY <1>1, <1>2, <1>3, <1>4, <1>5, <1>6, <1>7, <1>8, <1>9, <1>9a, <1>10, <1>11,
     <1>12, <1>13, <1>14 DEF Next, Step

(* The Redis keys and the middleware's state keep their types. *)
THEOREM TypeCorrect == Spec => []TypeOK
<1>1. ExpiryInv => TypeOK
  BY DEF ExpiryInv
<1> QED
  BY ExpiryInitial, ExpiryStep, <1>1, PTL DEF Spec

(* Whatever fails, a counter that could lock the tenant out has an expiry. *)
THEOREM LockoutIsTemporary == Spec => []PositiveCountExpires
<1>1. ExpiryInv => PositiveCountExpires
  BY DEF ExpiryInv
<1> QED
  BY ExpiryInitial, ExpiryStep, <1>1, PTL DEF Spec

(***************************************************************************)
(* As long as no call to Redis failed and no gateway crashed, the counter  *)
(* is the number of slots held, less those that were held when the key     *)
(* last expired: the expiry forgot them, and their releases count all the  *)
(* same.                                                                   *)
(***************************************************************************)
CountInv ==
    /\ count = Cardinality(held) - late
    /\ count <= MaxConcurrent
    /\ past = "clean" => late = 0
    /\ \A r \in Requests :
         /\ pc[r] \notin {"fallback", "reset"}
         /\ pc[r] \in {"quota", "serve", "release"} <=> r \in held

LEMMA WasClean ==
    ASSUME [Next]_vars
    PROVE  /\ past' # "troubled" => past # "troubled"
           /\ past' = "clean" => past = "clean"
  BY DEF Trouble, Next, Step, vars, Arrive, Acquire, Refuse, AcquireFailsOpen, CheckQuota,
     QuotaExceeded, QuotaFailsOpen, RecordUsage, ServeUnrecorded, Release,
     ReleaseNothing, ReleaseFails, ReleaseFallback, ReleaseReset, SlotLost, Tick, NewDay

LEMMA CountInitial == Init => CountInv
  BY LimiterAssumption, FS_EmptySet DEF LimiterAssumption, Init, CountInv

LEMMA CountStep ==
    ASSUME past' # "troubled", ExpiryInv, CountInv, [Next]_vars
    PROVE  CountInv'
<1> USE LimiterAssumption DEF LimiterAssumption, PC, Goto, ExpiryInv, TypeOK, CountInv
<1>0. IsFiniteSet(held) /\ Cardinality(held) \in Nat
  BY HeldFinite
<1>1. ASSUME NEW r \in Requests, Arrive(r) PROVE CountInv'
  BY <1>1 DEF Arrive
<1>2. ASSUME NEW r \in Requests, Acquire(r) PROVE CountInv'
  <2>1. r \notin held /\ held' = held \cup {r} /\ count' = count + 1
    BY <1>2 DEF Acquire, IncrWithExpiry
  <2>2. Cardinality(held') = Cardinality(held) + 1
    BY <1>0, <2>1, FS_AddElement
  <2>3. count' = Cardinality(held') - late' /\ count' <= MaxConcurrent
    BY <1>0, <1>2, <2>1, <2>2 DEF Acquire, IncrWithExpiry
  <2> QED
    BY <1>2, <2>1, <2>3 DEF Acquire
<1>3. ASSUME NEW r \in Requests, Refuse(r) PROVE CountInv'
  BY <1>3 DEF Refuse
<1>4. ASSUME NEW r \in Requests, CheckQuota(r) \/ QuotaExceeded(r) PROVE CountInv'
  BY <1>4 DEF CheckQuota, QuotaExceeded
<1>5. ASSUME NEW r \in Requests, RecordUsage(r) \/ ServeUnrecorded(r) PROVE CountInv'
  BY <1>5 DEF RecordUsage, ServeUnrecorded
<1>6. ASSUME NEW r \in Requests, Release(r) PROVE CountInv'
  <2>1. r \in held /\ held' = held \ {r} /\ count' = count - 1
    BY <1>6 DEF Release
  <2>2. Cardinality(held') = Cardinality(held) - 1
    BY <1>0, <2>1, FS_RemoveElement
  <2>3. count' = Cardinality(held') - late' /\ count' <= MaxConcurrent
    BY <1>0, <1>6, <2>1, <2>2 DEF Release
  <2> QED
    BY <1>6, <2>1, <2>3 DEF Release
<1>7. ASSUME NEW r \in Requests, ReleaseNothing(r) PROVE CountInv'
  BY <1>7 DEF ReleaseNothing
<1>8. CASE Tick
  <2>1. CASE Expires
    <3>1. held' = held /\ count' = 0 /\ count' <= MaxConcurrent
      BY <1>8, <2>1 DEF Tick
    <3>2. late' = Cardinality(held') /\ count' = Cardinality(held') - late'
      BY <1>0, <1>8, <2>1, <3>1, WasClean DEF Tick
    <3>3. past' = "clean" => held' = {}
      BY <1>8, <2>1, WasClean DEF Tick
    <3> QED
      BY <1>8, <3>1, <3>2, <3>3, FS_EmptySet DEF Tick
  <2>2. CASE ~Expires
    BY <1>8, <2>2 DEF Tick
  <2> QED
    BY <2>1, <2>2
<1>9. CASE NewDay
  BY <1>9 DEF NewDay
<1>10. CASE UNCHANGED vars
  BY <1>10 DEF vars
<1>11. ASSUME NEW r \in Requests
       PROVE  /\ ~AcquireFailsOpen(r) /\ ~QuotaFailsOpen(r) /\ ~ReleaseFallback(r)
              /\ ~ReleaseFails(r) /\ ~ReleaseReset(r) /\ ~SlotLost(r)
  BY DEF AcquireFailsOpen, QuotaFailsOpen, ReleaseFails, ReleaseFallback, ReleaseReset, SlotLost, Trouble
<1> QED
  BY <1>1, <1>2, <1>3, <1>4, <1>5, <1>6, <1>7, <1>8, <1>9, <1>10, <1>11
     DEF Next, Step

(* The counter in Redis does its job: no more slots than the limit, and    *)
(* than those that the key's expiry forgot.                                *)
THEOREM SlotsBounded == Spec => []ConcurrencyBounded
<1> DEFINE CountOK == past # "troubled" => CountInv
<1>1. Init => CountOK
  BY CountInitial
<1>2. ExpiryInv /\ CountOK /\ [Next]_vars => CountOK'
  BY CountStep, WasClean
<1>3. ExpiryInv /\ CountOK => ConcurrencyBounded
  BY HeldFinite, LimiterAssumption
     DEF LimiterAssumption, ExpiryInv, TypeOK, CountInv, ConcurrencyBounded
<1> HIDE DEF CountOK
<1> QED
  BY ExpiryInitial, ExpiryStep, <1>1, <1>2, <1>3, PTL DEF Spec

(***************************************************************************)
(* The quota: every request being served may still use MaxTokens.          *)
(***************************************************************************)
Serving == {r \in Requests : pc[r] = "serve"}

Allowance == (Quota - 1) + MaxConcurrent * MaxTokens

QuotaInv == used + Cardinality(Serving) * MaxTokens <= Allowance

LEMMA TimesMonotone ==
    ASSUME NEW a \in Nat, NEW b \in Nat, NEW m \in Nat, a <= b
    PROVE  a * m <= b * m /\ a * m \in Nat /\ (a + 1) * m = a * m + m
  OBVIOUS

LEMMA ServingBounded ==
    ASSUME ExpiryInv, CountInv, past = "clean"
    PROVE  /\ IsFiniteSet(Serving)
           /\ Cardinality(Serving) \in Nat
           /\ Cardinality(Serving) <= MaxConcurrent
<1>1. Serving \subseteq held
  BY DEF Serving, CountInv
<1>2. IsFiniteSet(held)
  BY HeldFinite DEF ExpiryInv
<1> QED
  BY <1>1, <1>2, FS_Subset, FS_CardinalityType, LimiterAssumption
     DEF CountInv, LimiterAssumption, ExpiryInv, TypeOK

LEMMA QuotaStep ==
    ASSUME past' = "clean", ExpiryInv, CountInv, QuotaInv, [Next]_vars
    PROVE  QuotaInv'
<1> USE LimiterAssumption
    DEF LimiterAssumption, PC, Goto, ExpiryInv, TypeOK, QuotaInv, Allowance
<1>0. /\ IsFiniteSet(Serving)
      /\ Cardinality(Serving) \in Nat
      /\ Cardinality(Serving) <= MaxConcurrent
  BY ServingBounded, WasClean
<1>1. Cardinality(Serving) * MaxTokens \in Nat /\ MaxConcurrent * MaxTokens \in Nat
  BY <1>0, TimesMonotone
<1>2. ASSUME NEW r \in Requests, CheckQuota(r) PROVE QuotaInv'
  <2>1. Serving' \subseteq held
    BY <1>2 DEF CheckQuota, Serving, CountInv
  <2>2. Cardinality(Serving') \in Nat /\ Cardinality(Serving') <= MaxConcurrent
    <3>1. late = 0
      BY WasClean DEF CountInv
    <3> QED
      BY <2>1, <3>1, HeldFinite, FS_Subset, FS_CardinalityType DEF CountInv
  <2> QED
    BY <1>2, <2>2, TimesMonotone DEF CheckQuota
<1>3. ASSUME NEW r \in Requests, RecordUsage(r) \/ ServeUnrecorded(r) PROVE QuotaInv'
  <2>1. r \in Serving /\ Serving' = Serving \ {r}
    BY <1>3 DEF RecordUsage, ServeUnrecorded, Serving
  <2>2. Cardinality(Serving') = Cardinality(Serving) - 1 /\ Cardinality(Serving') \in Nat
    BY <1>0, <2>1, FS_RemoveElement, FS_CardinalityType
  <2>3. Cardinality(Serving) * MaxTokens = Cardinality(Serving') * MaxTokens + MaxTokens
    BY <1>0, <2>2, TimesMonotone
  <2>4. used' \in Nat /\ used' <= used + MaxTokens
    BY <1>3 DEF RecordUsage, ServeUnrecorded
  <2>5. Cardinality(Serving') * MaxTokens \in Nat
    BY <2>2, TimesMonotone
  <2> QED
    BY <1>1, <2>3, <2>4, <2>5
<1>4. ASSUME NEW r \in Requests,
             \/ Arrive(r) \/ Acquire(r) \/ Refuse(r) \/ QuotaExceeded(r)
             \/ Release(r) \/ ReleaseNothing(r)
      PROVE  QuotaInv'
  <2>1. Serving' = Serving /\ used' = used
    BY <1>4 DEF Arrive, Acquire, Refuse, QuotaExceeded, Release, ReleaseNothing, Serving
  <2> QED
    BY <2>1
<1>5. CASE Tick \/ UNCHANGED vars
  BY <1>5 DEF Tick, vars, Serving
<1>6. CASE NewDay
  <2>1. Serving' = Serving /\ used' = 0
    BY <1>6 DEF NewDay, Serving
  <2>2. Cardinality(Serving) * MaxTokens <= MaxConcurrent * MaxTokens
    BY <1>0, TimesMonotone
  <2> QED
    BY <1>1, <2>1, <2>2
<1>7. ASSUME NEW r \in Requests
      PROVE  /\ ~AcquireFailsOpen(r) /\ ~QuotaFailsOpen(r) /\ ~ReleaseFallback(r)
             /\ ~ReleaseFails(r) /\ ~ReleaseReset(r) /\ ~SlotLost(r)
  BY DEF AcquireFailsOpen, QuotaFailsOpen, ReleaseFails, ReleaseFallback, ReleaseReset, SlotLost, CountInv, Trouble
<1> QED
  BY <1>2, <1>3, <1>4, <1>5, <1>6, <1>7 DEF Next, Step

(* The slot limit bounds by how much the quota, which is checked before a  *)
(* request and recorded after it, can be overrun.                          *)
THEOREM OvershootBounded == Spec => []QuotaOvershootBounded
<1> DEFINE Clean == past = "clean" => CountInv /\ QuotaInv
<1>1. Init => QuotaInv
  <2> SUFFICES ASSUME Init PROVE QuotaInv
    OBVIOUS
  <2>1. Serving = {} /\ used = 0
    BY DEF Init, Serving
  <2>2. MaxConcurrent * MaxTokens \in Nat
    BY TimesMonotone, LimiterAssumption DEF LimiterAssumption
  <2> QED
    BY <2>1, <2>2, FS_EmptySet, LimiterAssumption
       DEF QuotaInv, Allowance, LimiterAssumption
<1>2. Init => Clean
  BY <1>1, CountInitial
<1>3. ExpiryInv /\ Clean /\ [Next]_vars => Clean'
  BY CountStep, QuotaStep, WasClean
<1>4. ExpiryInv /\ Clean => QuotaOvershootBounded
  <2> SUFFICES ASSUME past = "clean", ExpiryInv, CountInv, QuotaInv PROVE QuotaOvershootBounded
    BY DEF QuotaOvershootBounded
  <2>1. Cardinality(Serving) * MaxTokens \in Nat /\ MaxConcurrent * MaxTokens \in Nat
    BY ServingBounded, TimesMonotone, LimiterAssumption DEF LimiterAssumption
  <2> QED
    BY <2>1, LimiterAssumption
       DEF LimiterAssumption, ExpiryInv, TypeOK, QuotaInv, Allowance, QuotaOvershootBounded
<1> HIDE DEF Clean
<1> QED
  BY ExpiryInitial, ExpiryStep, <1>2, <1>3, <1>4, PTL DEF Spec

-----------------------------------------------------------------------------
(* The request rate check that comes before: the theorems of TokenBucket,  *)
(* for every rate, burst, window and skew that the grace period of the key *)
(* covers.                                                                 *)

(* What the bucket can pay for at most, to a caller with the fastest       *)
(* clock: the units that RateBounded has to account for.                   *)
Ceiling == Capacity + MaxSkew * Rate

Worth == tokens + (clock + MaxSkew - last) * Rate

Potential == IF bucketTTL = 0 THEN Ceiling ELSE MinOf(Ceiling, Worth)

(* The key never expires before the bucket would have been full anyway:    *)
(* that is what Expiry + Grace is for.                                     *)
Unexpired == Expiry + Grace - bucketTTL

BucketInv ==
    /\ BucketTypeOK
    /\ bucketTTL > 0 => Worth >= Unexpired * Rate
    /\ admitted * Cost + Potential <= Capacity + (clock - start + MaxSkew) * Rate

LEMMA TimesNat ==
    ASSUME NEW a \in Nat, NEW b \in Nat, NEW m \in Nat, a <= b
    PROVE  a * m \in Nat /\ a * m <= b * m
  OBVIOUS

LEMMA BucketInitial == BucketInit => BucketInv
  BY BucketAssumption DEF BucketAssumption, BucketInit, BucketInv, BucketTypeOK, Potential, Ceiling

(* The bucket that a call leaves behind after taking `paid' units from it. *)
LEMMA WriteStep ==
    ASSUME BucketInv,
           NEW s \in 0 .. MaxSkew,
           NEW paid \in Nat,
           paid = 0 \/ NewTokens(clock + s) >= paid,
           Write(clock + s, NewTokens(clock + s) - paid),
           clock' = clock
    PROVE  /\ tokens' \in Int /\ tokens' <= Capacity
           /\ last' \in Nat
           /\ bucketTTL' \in 0 .. (Expiry + Grace)
           /\ bucketTTL' > 0 => Worth' >= Unexpired' * Rate
           /\ Potential' \in Int /\ Potential' <= Potential - paid
<1> USE BucketAssumption DEF BucketAssumption, BucketInv, BucketTypeOK
<1>0. Potential \in Int
  BY DEF Potential, Ceiling, Worth, MinOf
<1> DEFINE n == NewTokens(clock + s)
<1>1. n \in Int /\ n <= Capacity
  BY DEF NewTokens, MinOf
<1>2. tokens' = n - paid /\ last' = clock + s /\ bucketTTL' = Expiry + Grace
  BY DEF Write
<1>3. Expiry + Grace > 0
  <2>1. Expiry # 0
    OBVIOUS
  <2> QED
    BY <2>1
<1>4. Worth' = n - paid + (MaxSkew - s) * Rate
  BY <1>2 DEF Worth
<1>5. (MaxSkew - s) * Rate \in Nat /\ (MaxSkew - s) * Rate <= MaxSkew * Rate
  BY TimesNat
<1>6. n + (MaxSkew - s) * Rate <= Potential
  <2>1. CASE bucketTTL = 0
    BY <1>1, <1>5, <2>1 DEF Potential, Ceiling
  <2>2. CASE bucketTTL > 0
    BY <1>1, <1>5, <2>2 DEF Potential, Ceiling, Worth, NewTokens, MinOf
  <2> QED
    BY <2>1, <2>2
<1>7. n + (MaxSkew - s) * Rate >= 0
  <2>1. CASE bucketTTL = 0
    BY <1>5, <2>1 DEF NewTokens
  <2>2. CASE bucketTTL > 0
    <3>1. Unexpired * Rate \in Nat
      BY TimesNat DEF Unexpired
    <3> QED
      BY <1>5, <2>2, <3>1 DEF NewTokens, MinOf, Worth
  <2> QED
    BY <2>1, <2>2
<1>8. Worth' >= 0 /\ Unexpired' * Rate = 0
  BY <1>1, <1>2, <1>4, <1>5, <1>7 DEF Unexpired
<1>9. Potential' \in Int /\ Potential' <= n - paid + (MaxSkew - s) * Rate
  BY <1>1, <1>2, <1>3, <1>4, <1>5 DEF Potential, MinOf, Ceiling
<1>10. Potential' <= Potential - paid
  <2> HIDE DEF n
  <2> QED
    BY <1>0, <1>1, <1>5, <1>6, <1>9
<1>11. tokens' \in Int /\ tokens' <= Capacity /\ last' \in Nat
       /\ bucketTTL' \in 0 .. (Expiry + Grace)
  BY <1>1, <1>2
<1> QED
  BY <1>8, <1>9, <1>10, <1>11

LEMMA BucketStep == BucketInv /\ [BucketNext]_bucketVars => BucketInv'
<1> USE BucketAssumption DEF BucketAssumption
<1> SUFFICES ASSUME BucketInv, [BucketNext]_bucketVars
             PROVE  BucketInv'
  OBVIOUS
<1>0. Potential \in Int
  BY DEF BucketInv, BucketTypeOK, Potential, Ceiling, Worth, MinOf
<1>1. ASSUME NEW s \in 0 .. MaxSkew, AllowRequest(clock + s)
      PROVE  BucketInv'
  <2>1. /\ tokens' \in Int /\ tokens' <= Capacity
        /\ last' \in Nat
        /\ bucketTTL' \in 0 .. (Expiry + Grace)
        /\ bucketTTL' > 0 => Worth' >= Unexpired' * Rate
        /\ Potential' \in Int /\ Potential' <= Potential - Cost
    BY <1>1, WriteStep DEF AllowRequest
  <2>2. BucketTypeOK'
    BY <1>1, <2>1 DEF AllowRequest, BucketInv, BucketTypeOK
  <2>3. admitted' = admitted + 1 /\ clock' = clock /\ start' = start
    BY <1>1 DEF AllowRequest
  <2>4. (admitted + 1) * Cost = admitted * Cost + Cost /\ admitted * Cost \in Int
    BY DEF BucketInv, BucketTypeOK
  <2>5. (clock - start + MaxSkew) * Rate \in Int
    BY DEF BucketInv, BucketTypeOK
  <2>6. admitted' * Cost + Potential' <= Capacity + (clock' - start' + MaxSkew) * Rate
    BY <1>0, <2>1, <2>3, <2>4, <2>5 DEF BucketInv
  <2> QED
    BY <2>1, <2>2, <2>6 DEF BucketInv
<1>2. ASSUME NEW s \in 0 .. MaxSkew, RefuseRequest(clock + s)
      PROVE  BucketInv'
  <2>0. NewTokens(clock + s) - 0 = NewTokens(clock + s)
    BY DEF BucketInv, BucketTypeOK, NewTokens, MinOf
  <2>1. /\ tokens' \in Int /\ tokens' <= Capacity
        /\ last' \in Nat
        /\ bucketTTL' \in 0 .. (Expiry + Grace)
        /\ bucketTTL' > 0 => Worth' >= Unexpired' * Rate
        /\ Potential' \in Int /\ Potential' <= Potential - 0
    BY <1>2, <2>0, WriteStep DEF RefuseRequest
  <2>2. BucketTypeOK'
    BY <1>2, <2>1 DEF RefuseRequest, BucketInv, BucketTypeOK
  <2>3. admitted' = admitted /\ clock' = clock /\ start' = start
    BY <1>2 DEF RefuseRequest
  <2>4. admitted * Cost \in Int /\ (clock - start + MaxSkew) * Rate \in Int
    BY DEF BucketInv, BucketTypeOK
  <2>5. admitted' * Cost + Potential' <= Capacity + (clock' - start' + MaxSkew) * Rate
    BY <1>0, <2>1, <2>3, <2>4 DEF BucketInv
  <2> QED
    BY <2>1, <2>2, <2>5 DEF BucketInv
<1>3. CASE BucketTick
  <2> USE <1>3 DEF BucketTick, BucketInv, BucketTypeOK
  <2>1. BucketTypeOK'
    OBVIOUS
  <2>2. Worth' = Worth + Rate
    BY DEF Worth
  <2>3. bucketTTL' > 0 => Worth' >= Unexpired' * Rate
    BY <2>2 DEF Unexpired, Worth
  <2>4. Potential' <= Potential + Rate
    <3>1. CASE bucketTTL = 0
      BY <3>1 DEF Potential, Ceiling
    <3>2. CASE bucketTTL = 1
      <4>1. Worth + Rate >= (Expiry + Grace) * Rate
        BY <3>2 DEF Unexpired, Worth
      <4>2. (Expiry + Grace) * Rate >= Ceiling
        <5>1. MaxSkew * Rate <= Grace * Rate
          BY TimesNat
        <5> QED
          BY <5>1 DEF Ceiling
      <4> QED
        BY <3>2, <4>1, <4>2 DEF Potential, Ceiling, Worth, MinOf
    <3>3. CASE bucketTTL > 1
      BY <2>2, <3>3 DEF Potential, Ceiling, Worth, MinOf
    <3> QED
      BY <3>1, <3>2, <3>3
  <2>5. Potential' \in Int
    BY DEF Potential, Ceiling, Worth, MinOf
  <2>6. (clock' - start' + MaxSkew) * Rate = (clock - start + MaxSkew) * Rate + Rate
    OBVIOUS
  <2>7. admitted * Cost \in Int /\ (clock - start + MaxSkew) * Rate \in Int
    OBVIOUS
  <2>8. admitted' * Cost + Potential' <= Capacity + (clock' - start' + MaxSkew) * Rate
    <3>1. admitted' = admitted
      OBVIOUS
    <3>2. admitted * Cost + Potential <= Capacity + (clock - start + MaxSkew) * Rate
      OBVIOUS
    <3> HIDE <1>3 DEF BucketTick, BucketInv, BucketTypeOK
    <3> QED
      BY <1>0, <2>4, <2>5, <2>6, <2>7, <3>1, <3>2
  <2> QED
    BY <2>1, <2>3, <2>8
<1>4. CASE Observe
  <2>1. Potential' = Potential /\ Potential <= Ceiling
    BY <1>4 DEF Observe, Potential, Ceiling, Worth, MinOf, BucketInv, BucketTypeOK
  <2> QED
    BY <1>0, <1>4, <2>1 DEF Observe, Ceiling, BucketInv, BucketTypeOK, Worth, Unexpired
<1>5. CASE UNCHANGED bucketVars
  BY <1>5 DEF bucketVars, BucketInv, BucketTypeOK, Potential, Ceiling, Worth, Unexpired, MinOf
<1> QED
  BY <1>1, <1>2, <1>3, <1>4, <1>5 DEF BucketNext

(* The bucket's fields keep their types; it never holds more than the burst. *)
THEOREM BucketTypeCorrect == BucketSpec => []BucketTypeOK
<1>1. BucketInv => BucketTypeOK
  BY DEF BucketInv
<1> QED
  BY BucketInitial, BucketStep, <1>1, PTL DEF BucketSpec

(* The rate limit holds in every window, across expiries of the key and    *)
(* for gateways whose clocks disagree by up to the grace period.           *)
THEOREM RateLimitHolds == BucketSpec => []RateBounded
<1>1. BucketInv => RateBounded
  <2> SUFFICES ASSUME BucketInv PROVE RateBounded
    OBVIOUS
  <2>1. Potential \in Int /\ Potential >= 0
    <3>1. bucketTTL > 0 => Unexpired * Rate \in Nat
      BY TimesNat, BucketAssumption DEF BucketInv, BucketTypeOK, Unexpired, BucketAssumption
    <3>2. Ceiling \in Nat
      BY TimesNat, BucketAssumption DEF Ceiling, BucketAssumption
    <3> QED
      BY <3>1, <3>2, BucketAssumption
         DEF BucketInv, BucketTypeOK, Potential, Worth, MinOf, BucketAssumption
  <2> QED
    BY <2>1, BucketAssumption DEF BucketInv, BucketTypeOK, RateBounded, BucketAssumption
<1> QED
  BY BucketInitial, BucketStep, <1>1, PTL DEF BucketSpec
=============================================================================
