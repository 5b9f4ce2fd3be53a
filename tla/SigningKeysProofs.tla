------------------------- MODULE SigningKeysProofs --------------------------
(***************************************************************************)
(* The bound on the time for which a withdrawn signing key is honoured,    *)
(* for any number of keys and of requests that queue for refreshMu, and    *)
(* whatever the provider answers.                                          *)
(***************************************************************************)
EXTENDS SigningKeys, FiniteSetTheorems, SequenceTheorems, TLAPS

TypeOK ==
    /\ published \subseteq Kids
    /\ gone \in Nat
    /\ keys \subseteq Kids
    /\ fetchedAge \in Nat
    /\ queue \in Seq(Validators)
    /\ fetch \in [Fetchers -> {"none", "asked", "answered"}]
    /\ snap \in [Fetchers -> SUBSET Kids]
    /\ dur \in [Fetchers -> Nat]
    /\ pc \in [Validators -> {"idle", "forced", "lookup", "unknown", "relookup",
                              "accepted", "rejected"}]
    /\ kid \in [Validators -> Kids \cup {NoKid}]

(* A key that is served is not gone, and one in an answer on its way to    *)
(* the cache was served when that answer was given.                        *)
FetchInv ==
    /\ Watched \in published => gone = 0
    /\ \A p \in Fetchers :
         /\ dur[p] <= FetchTime
         /\ fetch[p] = "none" => dur[p] = 0
         /\ fetch[p] = "answered" /\ Watched \in snap[p] => gone <= dur[p]

(* Who waits for refreshMu does so once, and only the first one fetches. *)
QueueInv ==
    /\ \A i, j \in 1 .. Len(queue) : queue[i] = queue[j] => i = j
    /\ \A i \in 1 .. Len(queue) : pc[queue[i]] \in {"forced", "unknown"}
    /\ \A v \in Validators : fetch[v] # "none" => HoldsRefreshMu(v)

(* The longest time that those ahead of position i of the queue, and those *)
(* who were ahead of it when it came last, can have taken.                 *)
Waited(i) == (Cardinality(Validators) - i) * FetchTime

(* A request that found no key can find one only in a set that was         *)
(* installed while it waited.                                              *)
WaitInv ==
    Watched \in keys =>
      \A i \in 1 .. Len(queue) :
        pc[queue[i]] = "unknown" /\ kid[queue[i]] = Watched =>
          fetchedAge <= Waited(i) + dur[queue[1]]

(* When a request looks for its key, the set is within its window. *)
LookupInv ==
    \A v \in Validators :
      /\ pc[v] = "lookup" => fetchedAge <= StaleTTL
      /\ pc[v] = "relookup" /\ kid[v] = Watched /\ Watched \in keys =>
           fetchedAge <= MaxAge

(* The key set of the cache was served when it was fetched. *)
CacheInv ==
    Watched \in keys /\ fetchedAge <= MaxAge => gone <= fetchedAge + FetchTime

WindowInv == StaleTTL > 0 => WaitInv /\ LookupInv /\ CacheInv /\ WithdrawnKeyRejected

StateInv == TypeOK /\ FetchInv /\ QueueInv

-----------------------------------------------------------------------------
(* A queue without repetitions is no longer than there are requests. *)
LEMMA QueueBound ==
    ASSUME NEW q \in Seq(Validators),
           \A i, j \in 1 .. Len(q) : q[i] = q[j] => i = j
    PROVE  /\ Cardinality(Validators) \in Nat /\ Len(q) \in Nat
           /\ Len(q) <= Cardinality(Validators)
<1>1. IsFiniteSet(Validators) /\ Cardinality(Validators) \in Nat
  BY ConstantsAssumption, FS_CardinalityType DEF ConstantsAssumption
<1>2. Len(q) \in Nat /\ q \in [1 .. Len(q) -> Validators]
  BY LenProperties
<1>3. IsFiniteSet(1 .. Len(q)) /\ Cardinality(1 .. Len(q)) = Len(q)
  BY <1>2, FS_Interval
<1>4. CASE Cardinality(Validators) < Len(q)
  <2>1. \E i, j \in 1 .. Len(q) : i # j /\ q[i] = q[j]
    BY <1>1, <1>2, <1>3, <1>4, FS_PigeonHole
  <2> QED
    BY <2>1
<1> QED
  BY <1>1, <1>2, <1>4

(* The window and the length of the queue bound the age of a key set.      *)
LEMMA MaxAgeBounds ==
    MaxAge \in Nat /\ StaleTTL <= MaxAge /\ QueueTime \in Nat /\ QueueTime <= MaxAge
<1>1. Cardinality(Validators) \in Nat /\ FetchTime \in Nat /\ StaleTTL \in Nat
  BY ConstantsAssumption, FS_CardinalityType DEF ConstantsAssumption
<1>2. QueueTime \in Nat
  BY <1>1 DEF QueueTime
<1> QED
  BY <1>1, <1>2 DEF MaxAge

(* Each place in the queue is worth one fetch.                             *)
LEMMA WaitedPlaces ==
    ASSUME StaleTTL > 0
    PROVE  /\ \A i \in 1 .. Cardinality(Validators) :
                Waited(i) \in Nat /\ Waited(i) + FetchTime <= MaxAge
           /\ \A i \in 2 .. Cardinality(Validators) :
                Waited(i) + FetchTime = Waited(i - 1)
<1>1. Cardinality(Validators) \in Nat /\ FetchTime \in Nat /\ MaxAge \in Nat
  BY ConstantsAssumption, MaxAgeBounds, FS_CardinalityType DEF ConstantsAssumption
<1> DEFINE n == Cardinality(Validators)
<1>2. n * FetchTime <= MaxAge
  BY MaxAgeBounds DEF QueueTime
<1> HIDE DEF n
<1>3. ASSUME NEW i \in 1 .. n
      PROVE  (n - i) * FetchTime \in Nat /\ (n - i) * FetchTime + FetchTime <= MaxAge
             /\ (n - i) * FetchTime + FetchTime = (n - (i - 1)) * FetchTime
  <2>1. n \in Nat /\ i \in Nat /\ n - i \in Nat /\ 1 <= i
    BY <1>1 DEF n
  <2>2. (n - i) * FetchTime \in Nat
    BY <1>1, <2>1
  <2>3. (n - i) * FetchTime + FetchTime = (n - i + 1) * FetchTime
    BY <1>1, <2>1
  <2>4. (n - i + 1) * FetchTime <= n * FetchTime
    BY <1>1, <2>1
  <2>5. n - i + 1 = n - (i - 1)
    BY <2>1
  <2> QED
    BY <1>1, <1>2, <2>1, <2>2, <2>3, <2>4, <2>5
<1> QED
  BY <1>1, <1>3 DEF Waited, n

(* A request joins the queue. *)
LEMMA QueueJoins ==
    ASSUME TypeOK, NEW v \in Validators
    PROVE  /\ Append(queue, v) \in Seq(Validators)
           /\ Len(Append(queue, v)) = Len(queue) + 1
           /\ \A i \in 1 .. Len(queue) : Append(queue, v)[i] = queue[i]
           /\ Append(queue, v)[Len(queue) + 1] = v
  BY AppendProperties DEF TypeOK

(* The first request leaves the queue. *)
LEMMA QueueLeaves ==
    ASSUME TypeOK, queue # <<>>
    PROVE  /\ Tail(queue) \in Seq(Validators)
           /\ Len(Tail(queue)) = Len(queue) - 1
           /\ Len(queue) \in Nat /\ 1 \in 1 .. Len(queue) /\ Head(queue) = queue[1]
           /\ \A i \in 1 .. Len(Tail(queue)) :
                i + 1 \in 1 .. Len(queue) /\ Tail(queue)[i] = queue[i + 1]
<1>1. queue \in Seq(Validators) /\ Len(queue) \in Nat /\ Len(queue) # 0
  BY LenProperties, EmptySeq DEF TypeOK
<1> QED
  BY <1>1, HeadTailProperties

(* A request that was not in the queue goes on, or joins it. *)
LEMMA QueueGrows ==
    ASSUME TypeOK, QueueInv, NEW v \in Validators, NEW l,
           pc[v] \notin {"forced", "unknown"},
           pc' = [pc EXCEPT ![v] = l],
           queue' = IF l \in {"forced", "unknown"} THEN Append(queue, v) ELSE queue,
           fetch' = fetch
    PROVE  QueueInv'
<1>1. Len(queue) \in Nat /\ \A i \in 1 .. Len(queue) : queue[i] \in Validators
  BY LenProperties, ElementOfSeq DEF TypeOK
<1>2. \A i \in 1 .. Len(queue) : queue[i] # v /\ pc'[queue[i]] = pc[queue[i]]
  BY <1>1 DEF TypeOK, QueueInv
<1>3. pc'[v] = l
  BY DEF TypeOK
<1>4. CASE l \in {"forced", "unknown"}
  <2>1. /\ Len(queue') = Len(queue) + 1
        /\ \A i \in 1 .. Len(queue) : queue'[i] = queue[i]
        /\ queue'[Len(queue) + 1] = v
        /\ queue' # <<>>
    BY <1>1, <1>4, QueueJoins
  <2>2. \A i \in 1 .. Len(queue') : i \in 1 .. Len(queue) \/ i = Len(queue) + 1
    BY <1>1, <2>1
  <2>3. \A i, n \in 1 .. Len(queue') : queue'[i] = queue'[n] => i = n
    BY <1>2, <2>1, <2>2 DEF QueueInv
  <2>4. \A i \in 1 .. Len(queue') : pc'[queue'[i]] \in {"forced", "unknown"}
    BY <1>2, <1>3, <1>4, <2>1, <2>2 DEF QueueInv
  <2>5. ASSUME NEW x \in Validators, fetch'[x] # "none"
        PROVE  queue' # <<>> /\ Head(queue') = x
    <3>1. queue # <<>> /\ Head(queue) = x
      BY <2>5 DEF QueueInv, HoldsRefreshMu
    <3>2. 1 \in 1 .. Len(queue) /\ queue[1] = x
      BY <3>1, QueueLeaves
    <3>3. queue' \in Seq(Validators) /\ queue'[1] = x
      BY <1>4, <2>1, <3>2, QueueJoins
    <3> QED
      BY <2>1, <3>3
  <2> QED
    BY <2>3, <2>4, <2>5 DEF QueueInv, HoldsRefreshMu
<1>5. CASE l \notin {"forced", "unknown"}
  BY <1>2, <1>5 DEF QueueInv, HoldsRefreshMu
<1> QED
  BY <1>4, <1>5

(* The first of the queue unlocks refreshMu. *)
LEMMA QueueShrinks ==
    ASSUME TypeOK, QueueInv, NEW v \in Validators, NEW l, HoldsRefreshMu(v),
           pc' = [pc EXCEPT ![v] = l],
           queue' = Tail(queue),
           fetch' = [fetch EXCEPT ![v] = "none"]
    PROVE  QueueInv'
<1>1. /\ queue # <<>> /\ Len(queue) \in Nat /\ 1 \in 1 .. Len(queue) /\ queue[1] = v
      /\ Len(queue') = Len(queue) - 1
      /\ \A i \in 1 .. Len(queue') : i + 1 \in 1 .. Len(queue) /\ queue'[i] = queue[i + 1]
  BY QueueLeaves DEF HoldsRefreshMu
<1>2. \A i \in 1 .. Len(queue') : queue'[i] \in Validators /\ queue'[i] # v
  BY <1>1, ElementOfSeq DEF TypeOK, QueueInv
<1>3. \A i \in 1 .. Len(queue') : pc'[queue'[i]] \in {"forced", "unknown"}
  BY <1>1, <1>2 DEF TypeOK, QueueInv
<1>4. \A i, n \in 1 .. Len(queue') : queue'[i] = queue'[n] => i = n
  BY <1>1 DEF QueueInv
<1>5. \A x \in Validators : fetch'[x] = "none"
  BY <1>1 DEF TypeOK, QueueInv, HoldsRefreshMu, Fetchers
<1> QED
  BY <1>3, <1>4, <1>5 DEF QueueInv

(* The types, the ages of the fetches and the order of the queue are kept. *)
LEMMA StateStep == StateInv /\ [Next]_vars => StateInv'
<1> SUFFICES ASSUME StateInv, [Next]_vars PROVE StateInv'
  OBVIOUS
<1> USE ConstantsAssumption DEF ConstantsAssumption, Fetchers, cache, throttle, schedule
<1>0. TypeOK /\ FetchInv /\ QueueInv
  BY DEF StateInv
<1>l. Len(queue) \in Nat
  BY <1>0, LenProperties DEF TypeOK
<1>1. ASSUME NEW k \in Kids, Publish(k) \/ Withdraw(k)
      PROVE  StateInv'
  <2>1. TypeOK'
    BY <1>0, <1>1 DEF Publish, Withdraw, Rotate, fetches, requests, TypeOK
  <2>2. FetchInv'
    BY <1>0, <1>1 DEF Publish, Withdraw, Rotate, fetches, requests, TypeOK, FetchInv
  <2>3. QueueInv'
    BY <1>0, <1>l, <1>1 DEF Publish, Withdraw, Rotate, fetches, requests, TypeOK, QueueInv, HoldsRefreshMu
  <2> QED
    BY <2>1, <2>2, <2>3 DEF StateInv
<1>2. ASSUME NEW p \in Fetchers, Answer(p)
      PROVE  StateInv'
  <2>1. TypeOK'
    BY <1>0, <1>2 DEF Answer, idp, requests, TypeOK
  <2>2. FetchInv'
    BY <1>0, <1>2 DEF Answer, idp, requests, TypeOK, FetchInv
  <2>3. QueueInv'
    BY <1>0, <1>l, <1>2 DEF Answer, idp, requests, TypeOK, QueueInv, HoldsRefreshMu
  <2> QED
    BY <2>1, <2>2, <2>3 DEF StateInv
<1>3. ASSUME NEW v \in Validators, NEW k \in Kids, Arrive(v, k)
      PROVE  StateInv'
  <2> DEFINE l == IF TooOld THEN "forced" ELSE "lookup"
  <2>a. /\ pc[v] = "idle"
        /\ pc' = [pc EXCEPT ![v] = l] /\ kid' = [kid EXCEPT ![v] = k]
        /\ queue' = IF l \in {"forced", "unknown"} THEN Append(queue, v) ELSE queue
        /\ fetch' = fetch /\ UNCHANGED <<published, gone, keys, fetchedAge, snap, dur>>
    BY <1>3 DEF Arrive, idp, fetches
  <2>b. l \in {"forced", "lookup"} /\ Append(queue, v) \in Seq(Validators)
    BY <1>0, QueueJoins
  <2> HIDE DEF l
  <2>1. TypeOK'
    BY <1>0, <2>a, <2>b DEF TypeOK
  <2>2. FetchInv'
    BY <1>0, <2>a, <2>b DEF TypeOK, FetchInv
  <2>3. QueueInv'
    BY <1>0, <2>a, QueueGrows
  <2> QED
    BY <2>1, <2>2, <2>3 DEF StateInv
<1>4. ASSUME NEW v \in Validators, Lookup(v)
      PROVE  StateInv'
  <2> DEFINE l == IF kid[v] \in keys THEN "accepted" ELSE "unknown"
  <2>a. /\ pc[v] = "lookup"
        /\ pc' = [pc EXCEPT ![v] = l] /\ kid' = kid
        /\ queue' = IF l \in {"forced", "unknown"} THEN Append(queue, v) ELSE queue
        /\ fetch' = fetch /\ UNCHANGED <<published, gone, keys, fetchedAge, snap, dur>>
    BY <1>4 DEF Lookup, idp, fetches
  <2>b. l \in {"accepted", "unknown"} /\ Append(queue, v) \in Seq(Validators)
    BY <1>0, QueueJoins
  <2> HIDE DEF l
  <2>1. TypeOK'
    BY <1>0, <2>a, <2>b DEF TypeOK
  <2>2. FetchInv'
    BY <1>0, <2>a, <2>b DEF TypeOK, FetchInv
  <2>3. QueueInv'
    BY <1>0, <2>a, QueueGrows
  <2> QED
    BY <2>1, <2>2, <2>3 DEF StateInv
<1>5. ASSUME NEW v \in Validators, BadToken(v) \/ Relookup(v)
      PROVE  StateInv'
  <2>a. PICK l \in {"accepted", "rejected"} : pc' = [pc EXCEPT ![v] = l]
    BY <1>5 DEF BadToken, Relookup
  <2>b. /\ pc[v] \in {"lookup", "relookup"} /\ kid' = kid
        /\ queue' = queue
        /\ fetch' = fetch /\ UNCHANGED <<published, gone, keys, fetchedAge, snap, dur>>
    BY <1>5 DEF BadToken, Relookup, idp, fetches
  <2>1. TypeOK'
    BY <1>0, <2>a, <2>b DEF TypeOK
  <2>2. FetchInv'
    BY <1>0, <2>a, <2>b DEF TypeOK, FetchInv
  <2>3. QueueInv'
    BY <1>0, <2>a, <2>b, QueueGrows
  <2> QED
    BY <2>1, <2>2, <2>3 DEF StateInv
<1>6. ASSUME NEW v \in Validators, ForceRefresh(v)
      PROVE  StateInv'
  <2>1. TypeOK'
    BY <1>0, <1>6 DEF ForceRefresh, Ask, idp, requests, TypeOK
  <2>2. FetchInv'
    BY <1>0, <1>6 DEF ForceRefresh, Ask, idp, requests, TypeOK, FetchInv
  <2>3. QueueInv'
    BY <1>0, <1>l, <1>6 DEF ForceRefresh, Ask, idp, requests, TypeOK, QueueInv, HoldsRefreshMu
  <2> QED
    BY <2>1, <2>2, <2>3 DEF StateInv
<1>7. ASSUME NEW v \in Validators, RefreshIfCooledDown(v)
      PROVE  StateInv'
  <2>a. /\ HoldsRefreshMu(v) /\ fetch[v] = "none"
        /\ UNCHANGED <<published, gone, keys, fetchedAge, snap, dur, kid>>
    BY <1>7 DEF RefreshIfCooledDown, idp
  <2>1. CASE Ask(v) /\ UNCHANGED <<queue, pc>>
    BY <1>0, <2>a, <2>1 DEF Ask, TypeOK, FetchInv, QueueInv, HoldsRefreshMu, StateInv
  <2>2. CASE queue' = Tail(queue) /\ pc' = [pc EXCEPT ![v] = "relookup"] /\ UNCHANGED fetch
    <3>1. Tail(queue) \in Seq(Validators)
      BY <1>0, <2>a, QueueLeaves DEF HoldsRefreshMu
    <3>2. TypeOK' /\ FetchInv'
      BY <1>0, <2>a, <2>2, <3>1 DEF TypeOK, FetchInv
    <3>3. fetch' = [fetch EXCEPT ![v] = "none"]
      BY <1>0, <2>a, <2>2 DEF TypeOK
    <3>4. QueueInv'
      BY <1>0, <2>a, <2>2, <3>3, QueueShrinks
    <3> QED
      BY <3>2, <3>4 DEF StateInv
  <2> QED
    BY <1>7, <2>1, <2>2 DEF RefreshIfCooledDown
<1>8. ASSUME NEW v \in Validators, Refreshed(v) \/ RefreshFailed(v)
      PROVE  StateInv'
  <2>a. PICK l \in {"lookup", "relookup", "rejected"} : pc' = [pc EXCEPT ![v] = l]
    BY <1>8 DEF Refreshed, RefreshFailed
  <2>b. /\ fetch' = [fetch EXCEPT ![v] = "none"]
        /\ snap' = [snap EXCEPT ![v] = {}]
        /\ dur' = [dur EXCEPT ![v] = 0]
        /\ UNCHANGED <<published, gone, kid>>
    BY <1>8 DEF Refreshed, RefreshFailed, FetchEnds, idp, requests
  <2>c. keys' \subseteq Kids /\ fetchedAge' \in Nat
    BY <1>0, <1>8 DEF Refreshed, RefreshFailed, InstallKeys, KeepKeys, TypeOK
  <2>d. /\ HoldsRefreshMu(v) /\ queue' = Tail(queue) /\ Tail(queue) \in Seq(Validators)
    <3>1. fetch[v] # "none"
      BY <1>8 DEF Refreshed, RefreshFailed, Usable
    <3>2. HoldsRefreshMu(v)
      BY <1>0, <3>1 DEF QueueInv
    <3>3. queue' = Tail(queue)
      BY <1>8 DEF Refreshed, RefreshFailed, ReleaseRefreshMu
    <3> QED
      BY <1>0, <3>2, <3>3, QueueLeaves DEF HoldsRefreshMu
  <2>1. TypeOK'
    BY <1>0, <2>a, <2>b, <2>c, <2>d DEF TypeOK
  <2>2. FetchInv'
    BY <1>0, <2>b DEF TypeOK, FetchInv
  <2>3. QueueInv'
    BY <1>0, <2>a, <2>b, <2>d, QueueShrinks
  <2> QED
    BY <2>1, <2>2, <2>3 DEF StateInv
<1>9. ASSUME TimerFires
      PROVE  StateInv'
  BY <1>0, <1>9 DEF TimerFires, Ask, idp, requests, TypeOK, FetchInv, QueueInv,
                    HoldsRefreshMu, StateInv
<1>12. ASSUME PeriodicRefreshed \/ PeriodicFailed
      PROVE  StateInv'
  <2>a. UNCHANGED <<queue, pc>>
    BY <1>12 DEF PeriodicRefreshed, PeriodicFailed, requests
  <2>b. /\ fetch' = [fetch EXCEPT ![Periodic] = "none"]
        /\ snap' = [snap EXCEPT ![Periodic] = {}]
        /\ dur' = [dur EXCEPT ![Periodic] = 0]
        /\ UNCHANGED <<published, gone, kid>>
    BY <1>12 DEF PeriodicRefreshed, PeriodicFailed, FetchEnds, idp, requests
  <2>c. keys' \subseteq Kids /\ fetchedAge' \in Nat
    <3>1. snap[Periodic] \subseteq Kids /\ keys \subseteq Kids /\ fetchedAge \in Nat
      BY <1>0 DEF TypeOK
    <3>2. \/ keys' = snap[Periodic] /\ fetchedAge' = 0
          \/ keys' = keys /\ fetchedAge' = fetchedAge
      BY <1>12 DEF PeriodicRefreshed, PeriodicFailed, InstallKeys, KeepKeys
    <3> QED
      BY <3>1, <3>2
  <2>1. TypeOK'
    BY <1>0, <2>a, <2>b, <2>c DEF TypeOK
  <2>2. FetchInv'
    BY <1>0, <2>b DEF TypeOK, FetchInv
  <2>d. \A v \in Validators : fetch'[v] = fetch[v]
    BY <1>0, <2>b DEF TypeOK
  <2>3. QueueInv'
    BY <1>0, <2>a, <2>d DEF QueueInv, HoldsRefreshMu
  <2> QED
    BY <2>1, <2>2, <2>3 DEF StateInv
<1>10. ASSUME Tick
      PROVE  StateInv'
  <2>1. TypeOK'
    BY <1>0, <1>10, MaxAgeBounds DEF Tick, UpTo, GoneCap, Window, LocalSteps, TypeOK
  <2>2. FetchInv'
    BY <1>0, <1>10, SMTT(30), MaxAgeBounds DEF Tick, UpTo, GoneCap, Window, LocalSteps, TypeOK, FetchInv
  <2>3. QueueInv'
    BY <1>0, <1>l, <1>10, SMTT(30) DEF Tick, UpTo, GoneCap, Window, LocalSteps, TypeOK, QueueInv, HoldsRefreshMu
  <2> QED
    BY <2>1, <2>2, <2>3 DEF StateInv
<1>11. ASSUME UNCHANGED vars
      PROVE  StateInv'
  <2>1. TypeOK'
    BY <1>0, <1>11 DEF vars, TypeOK
  <2>2. FetchInv'
    BY <1>0, <1>11 DEF vars, TypeOK, FetchInv
  <2>3. QueueInv'
    BY <1>0, <1>l, <1>11 DEF vars, TypeOK, QueueInv, HoldsRefreshMu
  <2> QED
    BY <2>1, <2>2, <2>3 DEF StateInv
<1> QED
  BY <1>1, <1>2, <1>3, <1>4, <1>5, <1>6, <1>7, <1>8, <1>9, <1>10, <1>11, <1>12
     DEF Next, ValidateStep

(* The gateway starts with the keys it has just fetched. *)
LEMMA WindowInitial == Init => StateInv /\ WindowInv
<1> SUFFICES ASSUME Init PROVE StateInv /\ WindowInv
  OBVIOUS
<1> USE ConstantsAssumption DEF ConstantsAssumption, Fetchers
<1>1. TypeOK
  BY MaxAgeBounds DEF Init, TypeOK, GoneCap, Window
<1>2. FetchInv
  BY DEF Init, FetchInv
<1>3. Len(queue) = 0 /\ \A i \in 1 .. Len(queue) : FALSE
  BY DEF Init
<1>4. QueueInv
  BY <1>3 DEF Init, QueueInv
<1>5. WaitInv
  BY <1>3 DEF WaitInv
<1>6. LookupInv /\ CacheInv /\ WithdrawnKeyRejected
  BY MaxAgeBounds DEF Init, LookupInv, CacheInv, WithdrawnKeyRejected, GoneCap, Window
<1> QED
  BY <1>1, <1>2, <1>4, <1>5, <1>6 DEF StateInv, WindowInv

(* The places of the queue are requests, and the first one has the lock. *)
LEMMA QueuePlaces ==
    ASSUME NEW q \in Seq(Validators)
    PROVE  /\ Len(q) \in Nat
           /\ \A i \in 1 .. Len(q) :
                /\ q[i] \in Validators /\ q[1] \in Validators
                /\ q # <<>> /\ Head(q) = q[1]
<1>1. Len(q) \in Nat /\ \A i \in 1 .. Len(q) : q[i] \in Validators
  BY LenProperties, ElementOfSeq
<1>2. ASSUME NEW i \in 1 .. Len(q)
      PROVE  1 \in 1 .. Len(q) /\ q # <<>> /\ Head(q) = q[1]
  BY <1>1
<1> QED
  BY <1>1, <1>2

(* The first of the queue gives up the lock without new keys: the others   *)
(* have waited for one fetch more and are one place further.               *)
LEMMA HeadLeaves ==
    ASSUME StateInv, WindowInv, StaleTTL > 0, NEW v \in Validators,
           HoldsRefreshMu(v), TypeOK',
           pc' = [pc EXCEPT ![v] = IF pc[v] = "forced" THEN "rejected" ELSE "relookup"],
           queue' = Tail(queue),
           UNCHANGED <<gone, keys, fetchedAge, kid>>
    PROVE  WindowInv'
<1> USE ConstantsAssumption DEF ConstantsAssumption, Fetchers
<1>0. TypeOK /\ FetchInv /\ QueueInv /\ WaitInv /\ LookupInv /\ CacheInv /\ WithdrawnKeyRejected
  BY DEF StateInv, WindowInv
<1>1. /\ Len(queue) \in Nat /\ 1 \in 1 .. Len(queue) /\ queue[1] = v
      /\ \A i \in 1 .. Len(queue') :
           i + 1 \in 1 .. Len(queue) /\ queue'[i] = queue[i + 1]
      /\ Len(queue') = Len(queue) - 1
  BY <1>0, QueueLeaves DEF HoldsRefreshMu
<1>2. Cardinality(Validators) \in Nat /\ Len(queue) <= Cardinality(Validators)
  BY <1>0, QueueBound DEF TypeOK, QueueInv
<1>3. dur[v] \in Nat /\ dur[v] <= FetchTime /\ fetchedAge \in Nat
  BY <1>0 DEF TypeOK, FetchInv
<1>4. ASSUME NEW i \in 1 .. Len(queue'), Watched \in keys,
             pc'[queue'[i]] = "unknown", kid[queue'[i]] = Watched
      PROVE  fetchedAge <= Waited(i) + dur'[queue'[1]]
  <2>1. i \in Nat /\ i + 1 \in 1 .. Len(queue) /\ queue'[i] = queue[i + 1] /\ i + 1 # 1
    BY <1>1
  <2>2. queue'[i] # v /\ queue'[i] \in Validators
    BY <1>0, <1>1, <2>1, QueuePlaces DEF TypeOK, QueueInv
  <2>3. pc[queue[i + 1]] = "unknown" /\ kid[queue[i + 1]] = Watched
    BY <1>0, <1>4, <2>1, <2>2 DEF TypeOK
  <2>4. fetchedAge <= Waited(i + 1) + dur[v]
    BY <1>0, <1>1, <1>4, <2>1, <2>3 DEF WaitInv
  <2>5. i \in 1 .. Cardinality(Validators) /\ i + 1 \in 2 .. Cardinality(Validators)
    BY <1>1, <1>2, <2>1
  <2>6. /\ Waited(i) \in Nat /\ Waited(i + 1) \in Nat
        /\ Waited(i + 1) + FetchTime = Waited((i + 1) - 1)
    BY <2>5, WaitedPlaces
  <2>7. Waited(i + 1) + FetchTime = Waited(i) /\ FetchTime \in Nat
    <3>1. (i + 1) - 1 = i
      BY <2>1
    <3> QED
      BY <2>6, <3>1
  <2>8. queue'[1] \in Validators
    BY <1>4, QueuePlaces DEF TypeOK
  <2>9. dur'[queue'[1]] \in Nat
    BY <2>8 DEF TypeOK
  <2> QED
    <3> DEFINE d == dur[v]  e == dur'[queue'[1]]  w == Waited(i)  x == Waited(i + 1)
    <3>1. d \in Nat /\ e \in Nat /\ w \in Nat /\ x \in Nat /\ d <= FetchTime
          /\ x + FetchTime = w /\ fetchedAge <= x + d
      BY <1>3, <2>4, <2>6, <2>7, <2>9
    <3> HIDE DEF d, e, w, x
    <3>2. fetchedAge <= w + e
      BY <1>3, <2>7, <3>1
    <3> QED
      BY <3>2 DEF w, e
<1>5. WaitInv'
  BY <1>4 DEF WaitInv
<1>6. ASSUME pc[v] = "unknown", kid[v] = Watched, Watched \in keys
      PROVE  fetchedAge <= MaxAge
  <2>1. fetchedAge <= Waited(1) + dur[v]
    BY <1>0, <1>1, <1>6 DEF WaitInv
  <2>2. 1 \in 1 .. Cardinality(Validators)
    BY <1>1, <1>2
  <2>3. Waited(1) \in Nat /\ Waited(1) + FetchTime <= MaxAge
    BY <2>2, WaitedPlaces
  <2> QED
    BY <1>3, <2>1, <2>3, MaxAgeBounds
<1>7. pc[v] \in {"forced", "unknown"}
  BY <1>0, <1>1 DEF QueueInv
<1>8. LookupInv'
  BY <1>0, <1>6, <1>7 DEF TypeOK, LookupInv
<1>9. CacheInv'
  BY <1>0 DEF CacheInv
<1>10. WithdrawnKeyRejected'
  BY <1>0 DEF TypeOK, WithdrawnKeyRejected
<1> QED
  BY <1>5, <1>8, <1>9, <1>10 DEF WindowInv

(* The answer of p is installed. *)
LEMMA KeysInstalled ==
    ASSUME StateInv, WindowInv, StaleTTL > 0, NEW p \in Fetchers,
           Usable(p), InstallKeys(p), StateInv',
           \A v \in Validators : pc'[v] = "accepted" => pc[v] = "accepted",
           UNCHANGED <<gone, kid>>
    PROVE  WindowInv'
<1> USE ConstantsAssumption DEF ConstantsAssumption
<1>0. TypeOK' /\ QueueInv' /\ FetchInv /\ TypeOK /\ WithdrawnKeyRejected
  BY DEF StateInv, WindowInv
<1>1. fetchedAge' = 0 /\ keys' = snap[p] /\ fetch[p] = "answered"
  BY DEF InstallKeys, Usable
<1>2. ASSUME NEW i \in 1 .. Len(queue') PROVE 0 <= Waited(i) + dur'[queue'[1]]
  <2>1. dur'[queue'[1]] \in Nat
    BY <1>0, QueuePlaces DEF TypeOK, Fetchers
  <2>2. Cardinality(Validators) \in Nat /\ Len(queue') \in Nat /\ Len(queue') <= Cardinality(Validators)
    BY <1>0, QueueBound DEF TypeOK, QueueInv
  <2>3. i \in 1 .. Cardinality(Validators)
    BY <2>2
  <2>4. Waited(i) \in Nat
    BY <2>3, WaitedPlaces
  <2> QED
    BY <2>1, <2>4
<1>3. WaitInv'
  BY <1>1, <1>2 DEF WaitInv
<1>4. LookupInv'
  BY <1>1, MaxAgeBounds DEF LookupInv
<1>5. CacheInv'
  BY <1>0, <1>1 DEF CacheInv, FetchInv, TypeOK
<1>6. WithdrawnKeyRejected'
  BY <1>0 DEF WithdrawnKeyRejected
<1> QED
  BY <1>3, <1>4, <1>5, <1>6 DEF WindowInv

(* Every step keeps the window. *)
LEMMA WindowStep == StateInv /\ StateInv' /\ WindowInv /\ [Next]_vars => WindowInv'
<1> SUFFICES ASSUME StateInv, StateInv', WindowInv, [Next]_vars, StaleTTL > 0
             PROVE  WindowInv'
  BY DEF WindowInv
<1> USE ConstantsAssumption DEF ConstantsAssumption, Fetchers
<1>0. TypeOK /\ FetchInv /\ QueueInv /\ WaitInv /\ LookupInv /\ CacheInv /\ WithdrawnKeyRejected
  BY DEF StateInv, WindowInv
<1>t. TypeOK'
  BY DEF StateInv
<1>q. /\ Len(queue) \in Nat
      /\ \A i \in 1 .. Len(queue) :
           queue[i] \in Validators /\ queue[1] \in Validators /\ HoldsRefreshMu(queue[1])
  BY <1>0, QueuePlaces DEF TypeOK, HoldsRefreshMu
\* Steps that leave the cache, the queue and the requests as they are.
<1>u. ASSUME UNCHANGED <<keys, fetchedAge, queue, dur, pc, kid>>, gone' = gone \/ gone' = 0
      PROVE  WindowInv'
  <2>1. WaitInv'
    BY <1>0, <1>u DEF WaitInv
  <2>2. LookupInv'
    BY <1>0, <1>u DEF LookupInv
  <2>3. CacheInv'
    BY <1>0, <1>u DEF TypeOK, CacheInv
  <2>4. WithdrawnKeyRejected'
    BY <1>0, <1>u, MaxAgeBounds DEF TypeOK, WithdrawnKeyRejected, Window
  <2> QED
    BY <2>1, <2>2, <2>3, <2>4 DEF WindowInv
\* A request that was not in the queue goes on, or joins it.
<1>g. ASSUME NEW v \in Validators, NEW l, NEW k,
             pc[v] \notin {"forced", "unknown"},
             pc' = [pc EXCEPT ![v] = l], kid' = [kid EXCEPT ![v] = k],
             queue' = IF l \in {"forced", "unknown"} THEN Append(queue, v) ELSE queue,
             UNCHANGED <<gone, keys, fetchedAge, dur>>,
             l = "lookup" => fetchedAge <= StaleTTL,
             l = "unknown" /\ k = Watched => Watched \notin keys,
             l = "accepted" /\ k = Watched => gone <= Window,
             l # "relookup"
      PROVE  WindowInv'
  <2>1. \A x \in Validators : /\ x # v => pc'[x] = pc[x] /\ kid'[x] = kid[x]
                              /\ x = v => pc'[x] = l /\ kid'[x] = k
    BY <1>0, <1>g DEF TypeOK
  <2>2. \A i \in 1 .. Len(queue) : queue[i] # v
    BY <1>0, <1>g, <1>q DEF QueueInv
  <2>3. ASSUME NEW i \in 1 .. Len(queue'), Watched \in keys,
               pc'[queue'[i]] = "unknown", kid'[queue'[i]] = Watched
        PROVE  fetchedAge <= Waited(i) + dur[queue'[1]]
    <3>1. CASE i \in 1 .. Len(queue)
      <4>1. 1 \in 1 .. Len(queue)
        BY <1>q, <3>1
      <4>2. queue'[i] = queue[i] /\ queue'[1] = queue[1]
        BY <1>0, <1>g, <3>1, <4>1, QueueJoins
      <4>3. pc[queue[i]] = "unknown" /\ kid[queue[i]] = Watched
        BY <1>q, <2>1, <2>2, <2>3, <3>1, <4>2
      <4> QED
        BY <1>0, <2>3, <3>1, <4>2, <4>3 DEF WaitInv
    <3>2. CASE i \notin 1 .. Len(queue)
      <4>1. l \in {"forced", "unknown"}
        BY <1>g, <3>2
      <4>2. i = Len(queue) + 1 /\ queue'[i] = v
        BY <1>0, <1>g, <1>q, <3>2, <4>1, QueueJoins
      <4> QED
        BY <1>g, <2>1, <2>3, <4>2
    <3> QED
      BY <3>1, <3>2
  <2>4. WaitInv'
    BY <1>g, <2>3 DEF WaitInv
  <2>5. LookupInv'
    BY <1>0, <1>g, <2>1 DEF LookupInv
  <2>6. CacheInv'
    BY <1>0, <1>g DEF CacheInv
  <2>7. WithdrawnKeyRejected'
    BY <1>0, <1>g, <2>1 DEF WithdrawnKeyRejected
  <2> QED
    BY <2>4, <2>5, <2>6, <2>7 DEF WindowInv
\* A key that is found in a set of no more than MaxAge was served within Window.
<1>m. MaxAge \in Nat /\ StaleTTL <= MaxAge
  BY MaxAgeBounds
<1>c. Watched \in keys /\ fetchedAge <= MaxAge => gone <= Window
  BY <1>0, <1>m DEF TypeOK, CacheInv, Window
<1>k. \A v \in Validators : [kid EXCEPT ![v] = kid[v]] = kid
  BY <1>0 DEF TypeOK
<1>1. ASSUME NEW k \in Kids, Publish(k) \/ Withdraw(k)
      PROVE  WindowInv'
  BY <1>1, <1>u DEF Publish, Withdraw, cache, throttle, fetches, requests
<1>2. ASSUME NEW p \in Fetchers, Answer(p)
      PROVE  WindowInv'
  BY <1>2, <1>u DEF Answer, idp, cache, throttle, requests
<1>3. ASSUME NEW v \in Validators, NEW k \in Kids, Arrive(v, k)
      PROVE  WindowInv'
  <2> DEFINE l == IF TooOld THEN "forced" ELSE "lookup"
  <2>1. /\ pc[v] = "idle"
        /\ pc' = [pc EXCEPT ![v] = l] /\ kid' = [kid EXCEPT ![v] = k]
        /\ queue' = IF l \in {"forced", "unknown"} THEN Append(queue, v) ELSE queue
        /\ UNCHANGED <<gone, keys, fetchedAge, dur>>
    BY <1>3 DEF Arrive, idp, cache, fetches
  <2>2. l \in {"forced", "lookup"} /\ (l = "lookup" => fetchedAge <= StaleTTL)
    BY <1>0 DEF TooOld, TypeOK
  <2> HIDE DEF l
  <2> QED
    BY <1>g, <2>1, <2>2
<1>4. ASSUME NEW v \in Validators, Lookup(v)
      PROVE  WindowInv'
  <2> DEFINE l == IF kid[v] \in keys THEN "accepted" ELSE "unknown"
  <2>1. /\ pc[v] = "lookup"
        /\ pc' = [pc EXCEPT ![v] = l] /\ kid' = kid
        /\ queue' = IF l \in {"forced", "unknown"} THEN Append(queue, v) ELSE queue
        /\ UNCHANGED <<gone, keys, fetchedAge, dur>>
    BY <1>4 DEF Lookup, idp, cache, fetches
  <2>2. fetchedAge <= MaxAge
    BY <1>0, <1>m, <2>1 DEF TypeOK, LookupInv
  <2>3. /\ l \in {"accepted", "unknown"}
        /\ l = "accepted" /\ kid[v] = Watched => gone <= Window
        /\ l = "unknown" /\ kid[v] = Watched => Watched \notin keys
    BY <1>c, <2>2
  <2> HIDE DEF l
  <2> QED
    BY <1>g, <1>k, <2>1, <2>3
<1>5. ASSUME NEW v \in Validators, BadToken(v) \/ Relookup(v)
      PROVE  WindowInv'
  <2>1. /\ pc[v] \in {"lookup", "relookup"} /\ kid' = kid /\ queue' = queue
        /\ UNCHANGED <<gone, keys, fetchedAge, dur>>
    BY <1>5 DEF BadToken, Relookup, idp, cache, throttle, fetches
  <2>2. PICK l \in {"accepted", "rejected"} :
          pc' = [pc EXCEPT ![v] = l] /\ (l = "accepted" => pc[v] = "relookup" /\ kid[v] \in keys)
    BY <1>5 DEF BadToken, Relookup
  <2>3. l = "accepted" /\ kid[v] = Watched => gone <= Window
    BY <1>0, <1>c, <2>2 DEF LookupInv
  <2> QED
    BY <1>g, <1>k, <2>1, <2>2, <2>3
<1>6. ASSUME NEW v \in Validators, ForceRefresh(v)
      PROVE  WindowInv'
  BY <1>6, <1>u DEF ForceRefresh, idp, cache, requests
<1>7. ASSUME NEW v \in Validators, RefreshIfCooledDown(v)
      PROVE  WindowInv'
  <2>1. /\ HoldsRefreshMu(v) /\ pc[v] = "unknown"
        /\ UNCHANGED <<gone, keys, fetchedAge, dur, kid>>
    BY <1>7 DEF RefreshIfCooledDown, idp, cache
  <2>2. CASE UNCHANGED <<queue, pc>>
    BY <1>u, <2>1, <2>2
  <2>3. CASE queue' = Tail(queue) /\ pc' = [pc EXCEPT ![v] = "relookup"]
    BY <1>t, <2>1, <2>3, HeadLeaves
  <2> QED
    BY <1>7, <2>2, <2>3 DEF RefreshIfCooledDown
<1>8. ASSUME NEW v \in Validators, Refreshed(v)
      PROVE  WindowInv'
  <2>1. Usable(v) /\ InstallKeys(v) /\ UNCHANGED <<gone, kid>>
    BY <1>8 DEF Refreshed, idp
  <2>2. \A x \in Validators : pc'[x] = "accepted" => pc[x] = "accepted"
    BY <1>0, <1>8 DEF Refreshed, TypeOK
  <2> QED
    BY <2>1, <2>2, KeysInstalled
<1>9. ASSUME NEW v \in Validators, RefreshFailed(v)
      PROVE  WindowInv'
  <2>1. HoldsRefreshMu(v)
    BY <1>0, <1>9 DEF RefreshFailed, QueueInv
  <2>2. /\ pc' = [pc EXCEPT ![v] = IF pc[v] = "forced" THEN "rejected" ELSE "relookup"]
        /\ queue' = Tail(queue) /\ UNCHANGED <<gone, keys, fetchedAge, kid>>
    BY <1>9 DEF RefreshFailed, ReleaseRefreshMu, KeepKeys, cache, idp
  <2> QED
    BY <1>t, <2>1, <2>2, HeadLeaves
<1>10. ASSUME TimerFires
       PROVE  WindowInv'
  BY <1>10, <1>u DEF TimerFires, idp, cache, throttle, requests
<1>11. ASSUME PeriodicRefreshed
       PROVE  WindowInv'
  <2>1. Usable(Periodic) /\ InstallKeys(Periodic) /\ UNCHANGED <<gone, pc, kid>>
    BY <1>11 DEF PeriodicRefreshed, idp, requests
  <2> QED
    BY <2>1, KeysInstalled
<1>12. ASSUME PeriodicFailed
       PROVE  WindowInv'
  <2>1. UNCHANGED <<gone, keys, fetchedAge, queue, pc, kid>>
    BY <1>12 DEF PeriodicFailed, KeepKeys, idp, cache, throttle, requests
  <2>2. \A v \in Validators : dur'[v] = dur[v]
    BY <1>0, <1>12 DEF PeriodicFailed, FetchEnds, TypeOK
  <2>3. WaitInv'
    BY <1>0, <1>q, <2>1, <2>2 DEF WaitInv
  <2>4. LookupInv' /\ CacheInv' /\ WithdrawnKeyRejected'
    BY <1>0, <2>1 DEF LookupInv, CacheInv, WithdrawnKeyRejected
  <2> QED
    BY <2>3, <2>4 DEF WindowInv
<1>13. ASSUME Tick
       PROVE  WindowInv'
  <2>1. /\ \A v \in Validators : pc[v] \notin {"lookup", "relookup"}
        /\ \A v \in Validators : HoldsRefreshMu(v) => dur'[v] = dur[v] + 1
        /\ UNCHANGED <<keys, queue>>
    BY <1>13 DEF Tick, LocalSteps
  <2>2. \A v \in Validators :
          /\ pc'[v] \notin {"lookup", "relookup", "accepted"}
          /\ pc'[v] = "unknown" => pc[v] = "unknown" /\ kid'[v] = kid[v]
    BY <1>0, <1>13, <2>1 DEF Tick, TypeOK
  <2>3. /\ fetchedAge' <= fetchedAge + 1
        /\ fetchedAge' <= MaxAge => fetchedAge' = fetchedAge + 1
        /\ gone' <= gone + 1
    BY <1>0, <1>m, <1>13 DEF Tick, UpTo, GoneCap, Window, TypeOK
  <2>4. ASSUME NEW i \in 1 .. Len(queue), Watched \in keys,
               pc'[queue[i]] = "unknown", kid'[queue[i]] = Watched
        PROVE  fetchedAge' <= Waited(i) + dur'[queue[1]]
    <3>1. fetchedAge <= Waited(i) + dur[queue[1]]
      BY <1>0, <1>q, <2>2, <2>4 DEF WaitInv
    <3>2. dur'[queue[1]] = dur[queue[1]] + 1
      BY <1>q, <2>1, <2>4
    <3>3. i \in 1 .. Cardinality(Validators)
      <4>1. Cardinality(Validators) \in Nat /\ Len(queue) <= Cardinality(Validators)
        BY <1>0, QueueBound DEF TypeOK, QueueInv
      <4> QED
        BY <1>q, <4>1
    <3>4. Waited(i) \in Nat /\ dur[queue[1]] \in Nat /\ fetchedAge \in Nat /\ fetchedAge' \in Nat
      BY <1>0, <1>t, <1>q, <3>3, WaitedPlaces DEF TypeOK
    <3> QED
      BY <2>3, <3>1, <3>2, <3>4, SMTT(30)
  <2>5. WaitInv'
    BY <2>1, <2>4 DEF WaitInv
  <2>6. LookupInv' /\ WithdrawnKeyRejected'
    BY <2>2 DEF LookupInv, WithdrawnKeyRejected
  <2>7. CacheInv'
    BY <1>0, <1>t, <2>1, <2>3, MaxAgeBounds DEF CacheInv, TypeOK
  <2> QED
    BY <2>5, <2>6, <2>7 DEF WindowInv
<1>14. ASSUME UNCHANGED vars
       PROVE  WindowInv'
  BY <1>14, <1>u DEF vars
<1> QED
  BY <1>1, <1>2, <1>3, <1>4, <1>5, <1>6, <1>7, <1>8, <1>9, <1>10, <1>11, <1>12, <1>13, <1>14
     DEF Next, ValidateStep

-----------------------------------------------------------------------------
(* Whatever requests, refreshes and the provider do, refreshMu has one     *)
(* holder at a time, only the holder fetches, and an answer on its way to  *)
(* the cache is no older than its fetch.                                   *)
THEOREM RefreshesSerialised == Spec => []StateInv
<1>1. Init => StateInv
  BY WindowInitial
<1> QED
  BY <1>1, StateStep, PTL DEF Spec

(* A token is accepted only if its key was served at most the stale window *)
(* (or the time that all requests together need for refreshMu, if that is  *)
(* longer) and one fetch ago: for every StaleTTL, number of requests,      *)
(* fetch timeout, cooldown and retry interval, and every order of          *)
(* rotations, failed fetches and late answers.                             *)
THEOREM WithdrawnRejected == Spec => []WithdrawnKeyRejected
<1>1. Init => StateInv /\ WindowInv
  BY WindowInitial
<1>2. StateInv /\ WindowInv /\ [Next]_vars => StateInv' /\ WindowInv'
  BY StateStep, WindowStep
<1>3. WindowInv => WithdrawnKeyRejected
  BY DEF WindowInv, WithdrawnKeyRejected
<1> QED
  BY <1>1, <1>2, <1>3, PTL DEF Spec

=============================================================================
