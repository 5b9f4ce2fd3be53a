------------------------ MODULE CircuitBreakerProofs ------------------------
(***************************************************************************)
(* Proofs about the circuit breaker, for any number of calls and any       *)
(* configuration, and at the end about the rows its registry is built from *)
(* (ConfigReload).                                                         *)
(***************************************************************************)
EXTENDS CircuitBreaker, ConfigReload, FiniteSetTheorems, TLAPS

Status == {"idle", "current", "stale", "lost"}

Current(f) == {c \in Calls : f[c] \in {"current", "lost"}}

(* The counts of a generation agree with the calls it has in flight, and   *)
(* the half-open and open states with what they may admit.                 *)
Sound(s, r, o, f, k, cl) ==
    /\ s \in {"closed", "open", "half"}
    /\ r \in Nat /\ o \in Nat /\ f \in Nat /\ k \in Nat
    /\ cl \in [Calls -> Status]
    /\ r = o + f + Cardinality(Current(cl))
    /\ k <= o
    /\ s = "half" => r <= MaxRequests
    /\ s = "open" => Current(cl) = {}

BreakerInv ==
    /\ Sound(state, req, ok, fail, consec, call)
    /\ left \in Nat
    /\ since \in 0 .. Timeout
    /\ registry \in {"first", "reloaded"}

LEMMA CurrentFinite ==
    ASSUME NEW f
    PROVE  IsFiniteSet(Current(f)) /\ Cardinality(Current(f)) \in Nat
  BY BreakerAssumption, FS_Subset, FS_CardinalityType DEF BreakerAssumption, Current

LEMMA OutdateAll ==
    ASSUME NEW f \in [Calls -> Status]
    PROVE  /\ Outdate(f) \in [Calls -> Status]
           /\ Current(Outdate(f)) = {}
  BY DEF Outdate, Current, Status

(* A generation without calls in flight and with cleared counts is sound. *)
LEMMA FreshIsSound ==
    ASSUME NEW s \in {"closed", "open", "half"}, NEW f \in [Calls -> Status],
           Current(f) = {}
    PROVE  Sound(s, 0, 0, 0, 0, f)
  BY FS_EmptySet, BreakerAssumption DEF Sound, BreakerAssumption

(* What currentState makes of a sound breaker is sound. *)
LEMMA NowIsSound ==
    ASSUME BreakerInv
    PROVE  /\ Sound(NowState, NowCount(req), NowCount(ok), NowCount(fail),
                    NowCount(consec), NowCall)
           /\ NowLeft \in Nat
<1> USE DEF BreakerInv
<1>1. CASE ~Expired
  BY <1>1 DEF NowState, NowCount, NowCall, NowLeft
<1>2. CASE Expired
  <2>1. call \in [Calls -> Status] /\ state \in {"closed", "open", "half"}
    BY DEF Sound
  <2>2. Outdate(call) \in [Calls -> Status] /\ Current(Outdate(call)) = {}
    BY <2>1, OutdateAll
  <2>3. NowState \in {"closed", "open", "half"}
    BY <2>1 DEF NowState
  <2>4. Sound(NowState, 0, 0, 0, 0, Outdate(call))
    BY <2>2, <2>3, FreshIsSound
  <2>5. NowLeft \in Nat
    BY <1>2, <2>3, BreakerAssumption DEF NowLeft, Lifetime, BreakerAssumption
  <2> QED
    BY <1>2, <2>4, <2>5 DEF NowCount, NowCall
<1> QED
  BY <1>1, <1>2

(* One call more in flight, or one less. *)
LEMMA CurrentAdd ==
    ASSUME NEW f \in [Calls -> Status], NEW c \in Calls, c \notin Current(f)
    PROVE  /\ [f EXCEPT ![c] = "current"] \in [Calls -> Status]
           /\ Cardinality(Current([f EXCEPT ![c] = "current"])) = Cardinality(Current(f)) + 1
<1>1. Current([f EXCEPT ![c] = "current"]) = Current(f) \cup {c}
  BY DEF Current
<1> QED
  BY <1>1, CurrentFinite, FS_AddElement DEF Status

LEMMA CurrentRemove ==
    ASSUME NEW f \in [Calls -> Status], NEW c \in Calls
    PROVE  /\ [f EXCEPT ![c] = "idle"] \in [Calls -> Status]
           /\ Current([f EXCEPT ![c] = "idle"]) = Current(f) \ {c}
           /\ c \in Current(f) =>
                Cardinality(Current([f EXCEPT ![c] = "idle"])) = Cardinality(Current(f)) - 1
           /\ c \notin Current(f) =>
                Current([f EXCEPT ![c] = "idle"]) = Current(f)
<1>1. Current([f EXCEPT ![c] = "idle"]) = Current(f) \ {c}
  BY DEF Current
<1>2. c \in Current(f) =>
        Cardinality(Current([f EXCEPT ![c] = "idle"])) = Cardinality(Current(f)) - 1
  BY <1>1, CurrentFinite, FS_RemoveElement
<1> QED
  BY <1>1, <1>2 DEF Status

LEMMA BreakerInitial == Init => BreakerInv
<1> SUFFICES ASSUME Init PROVE BreakerInv
  OBVIOUS
<1>1. call \in [Calls -> Status] /\ Current(call) = {}
  BY DEF Init, Current, Status
<1>2. Sound(state, req, ok, fail, consec, call)
  BY <1>1, FreshIsSound DEF Init
<1> QED
  BY <1>2, BreakerAssumption DEF Init, BreakerInv, BreakerAssumption

LEMMA BreakerStep == BreakerInv /\ [Next]_vars => BreakerInv'
<1> SUFFICES ASSUME BreakerInv, [Next]_vars PROVE BreakerInv'
  OBVIOUS
<1> USE BreakerAssumption DEF BreakerAssumption
<1> DEFINE r == NowCount(req)
           o == NowCount(ok)
           f == NowCount(fail)
           k == NowCount(consec)
<1>0. /\ Sound(NowState, r, o, f, k, NowCall)
      /\ NowLeft \in Nat
      /\ left \in Nat /\ since \in 0 .. Timeout
      /\ registry \in {"first", "reloaded"}
      /\ call \in [Calls -> Status]
  BY NowIsSound DEF BreakerInv, Sound
<1>0a. IsFiniteSet(Current(NowCall)) /\ Cardinality(Current(NowCall)) \in Nat
  BY CurrentFinite
<1> HIDE DEF r, o, f, k
<1>1. ASSUME NEW c \in Calls, Allow(c) PROVE BreakerInv'
  <2>1. /\ state' = NowState /\ left' = NowLeft /\ UNCHANGED <<since, registry>>
        /\ req' = r + 1 /\ ok' = o /\ fail' = f /\ consec' = k
        /\ call' = [NowCall EXCEPT ![c] = "current"]
        /\ NowState = "closed" \/ (NowState = "half" /\ r < MaxRequests)
    BY <1>1 DEF Allow, Count, Admits, r, o, f, k
  <2>2. c \notin Current(NowCall)
    BY <1>0, <1>1 DEF Allow, NowCall, Outdate, Current
  <2>3. /\ call' \in [Calls -> Status]
        /\ Cardinality(Current(call')) = Cardinality(Current(NowCall)) + 1
    BY <1>0, <2>1, <2>2, CurrentAdd DEF Sound
  <2>4. Sound(state', req', ok', fail', consec', call')
    BY <1>0, <1>0a, <2>1, <2>3 DEF Sound
  <2> QED
    BY <1>0, <2>1, <2>4 DEF BreakerInv
<1>2. CASE Reject
  <2>1. /\ state' = NowState /\ left' = NowLeft /\ UNCHANGED <<since, registry>>
        /\ req' = r /\ ok' = o /\ fail' = f /\ consec' = k
        /\ call' = NowCall
    BY <1>2 DEF Reject, Count, r, o, f, k
  <2> QED
    BY <1>0, <2>1 DEF BreakerInv
<1>3. ASSUME NEW c \in Calls, DoneOutdated(c) PROVE BreakerInv'
  <2>1. /\ state' = NowState /\ left' = NowLeft /\ UNCHANGED <<since, registry>>
        /\ req' = r /\ ok' = o /\ fail' = f /\ consec' = k
        /\ call' = [NowCall EXCEPT ![c] = "idle"]
        /\ c \notin Current(NowCall)
    BY <1>3 DEF DoneOutdated, Count, Current, r, o, f, k
  <2>2. call' \in [Calls -> Status] /\ Current(call') = Current(NowCall)
    BY <1>0, <2>1, CurrentRemove DEF Sound
  <2>3. Sound(state', req', ok', fail', consec', call')
    BY <1>0, <2>1, <2>2 DEF Sound
  <2> QED
    BY <1>0, <2>1, <2>3 DEF BreakerInv
<1>4. ASSUME NEW c \in Calls, Succeed(c) \/ Fail(c) PROVE BreakerInv'
  <2>1. /\ state' = NowState /\ left' = NowLeft /\ UNCHANGED <<since, registry>>
        /\ req' = r
        /\ \/ ok' = o + 1 /\ fail' = f /\ consec' = k + 1
           \/ ok' = o /\ fail' = f + 1 /\ consec' = 0
        /\ call' = [NowCall EXCEPT ![c] = "idle"]
        /\ c \in Current(NowCall)
    BY <1>4 DEF Succeed, Fail, Count, Current, r, o, f, k
  <2>2. /\ call' \in [Calls -> Status]
        /\ Cardinality(Current(call')) = Cardinality(Current(NowCall)) - 1
        /\ Cardinality(Current(call')) \in Nat
    BY <1>0, <2>1, CurrentRemove, CurrentFinite DEF Sound
  <2>3. NowState # "open"
    BY <1>0, <2>1 DEF Sound, Current
  <2>4. ok' \in Nat /\ fail' \in Nat /\ consec' \in Nat /\ consec' <= ok'
    BY <1>0, <2>1 DEF Sound
  <2>5. r = ok' + fail' + Cardinality(Current(call'))
    BY <1>0, <1>0a, <2>1, <2>2 DEF Sound
  <2>6. Sound(state', req', ok', fail', consec', call')
    BY <1>0, <2>1, <2>2, <2>3, <2>4, <2>5 DEF Sound
  <2> QED
    BY <1>0, <2>1, <2>6 DEF BreakerInv
<1>5. ASSUME NEW s \in {"closed", "open"}, NEW g \in [Calls -> Status],
             SetState(s), Current(g) = {}, call' = g, since' \in 0 .. Timeout,
             registry' \in {"first", "reloaded"}
      PROVE  BreakerInv'
  <2>1. Sound(state', req', ok', fail', consec', call')
    BY <1>5, FreshIsSound DEF SetState
  <2> QED
    BY <1>5, <2>1 DEF BreakerInv, SetState, Lifetime
<1>6. ASSUME NEW c \in Calls, Recover(c) \/ Trip(c) PROVE BreakerInv'
  <2> DEFINE g == [Outdate(NowCall) EXCEPT ![c] = "idle"]
  <2>1. Outdate(NowCall) \in [Calls -> Status] /\ Current(Outdate(NowCall)) = {}
    BY <1>0, OutdateAll DEF Sound
  <2>2. g \in [Calls -> Status] /\ Current(g) = {}
    BY <2>1, CurrentRemove
  <2>3. call' = g /\ since' \in 0 .. Timeout /\ registry' \in {"first", "reloaded"}
    BY <1>0, <1>6 DEF Recover, Trip
  <2>4. SetState("closed") \/ SetState("open")
    BY <1>6 DEF Recover, Trip
  <2> QED
    BY <1>5, <2>2, <2>3, <2>4
<1>7. CASE Swap
  BY <1>0, <1>5, <1>7, OutdateAll DEF Swap
<1>8. ASSUME NEW c \in Calls, AllowReplaced(c) PROVE BreakerInv'
  <2>1. call' = [call EXCEPT ![c] = "stale"] /\ call[c] = "idle"
    BY <1>8 DEF AllowReplaced
  <2>2. call' \in [Calls -> Status] /\ Current(call') = Current(call)
    BY <1>0, <2>1 DEF Current, Status
  <2> QED
    BY <1>8, <2>2 DEF AllowReplaced, BreakerInv, Sound
<1>9. CASE Tick
  BY <1>9 DEF Tick, BreakerInv, Sound
<1>10. CASE UNCHANGED vars
  BY <1>10 DEF vars, BreakerInv
<1>11. ASSUME NEW c \in Calls, Panic(c) PROVE BreakerInv'
  <2>1. call' = [call EXCEPT ![c] = IF @ = "current" THEN "lost" ELSE "idle"]
    BY <1>11 DEF Panic
  <2>2. call' \in [Calls -> Status] /\ Current(call') = Current(call)
    BY <1>0, <1>11, <2>1 DEF Panic, Current, Status
  <2> QED
    BY <1>11, <2>2 DEF Panic, BreakerInv, Sound
<1> QED
  BY <1>1, <1>2, <1>3, <1>4, <1>6, <1>7, <1>8, <1>9, <1>10, <1>11 DEF Next, Done

(* The state of the breaker keeps its type. *)
THEOREM TypeCorrect == Spec => []TypeOK
<1>1. BreakerInv => TypeOK
  BY DEF BreakerInv, Sound, Status, TypeOK
<1> QED
  BY BreakerInitial, BreakerStep, <1>1, PTL DEF Spec

(* Every admitted call of the present generation is counted exactly once, *)
(* with outdated outcomes and registry swaps at any time.                 *)
THEOREM CountsSound == Spec => []CountsConsistent
<1>1. BreakerInv => CountsConsistent
  BY DEF BreakerInv, Sound, CountsConsistent, InFlight, Current
<1> QED
  BY BreakerInitial, BreakerStep, <1>1, PTL DEF Spec

(* A recovering provider sees at most MaxRequests probes at a time. *)
THEOREM HalfOpenSafe == Spec => []HalfOpenBounded
<1>1. BreakerInv => HalfOpenBounded
  <2> SUFFICES ASSUME BreakerInv PROVE HalfOpenBounded
    OBVIOUS
  <2>1. Cardinality(Current(call)) \in Nat
    BY CurrentFinite
  <2>2. Current(call) = InFlight
    BY DEF Current, InFlight
  <2> QED
    BY <2>1, <2>2, BreakerAssumption DEF BreakerAssumption, BreakerInv, Sound, HalfOpenBounded
<1> QED
  BY BreakerInitial, BreakerStep, <1>1, PTL DEF Spec

(***************************************************************************)
(* Until the first reload the breaker is open, with the rest of its period *)
(* left, as long as less than Timeout has passed since it tripped.         *)
(***************************************************************************)
OpenInv ==
    registry = "first" /\ since < Timeout => state = "open" /\ left = Timeout - since

Kept(c) ==
    call[c] = "idle" /\ call'[c] = "current" => since = Timeout \/ registry = "reloaded"

LEMMA OpenStep ==
    ASSUME BreakerInv, OpenInv, [Next]_vars
    PROVE  OpenInv' /\ \A c \in Calls : Kept(c)
<1> USE BreakerAssumption DEF BreakerAssumption, OpenInv
<1> DEFINE Quiet == \A x \in Calls : call[x] = "idle" => call'[x] # "current"
<1>0. /\ left \in Nat /\ since \in 0 .. Timeout
      /\ call \in [Calls -> Status]
      /\ registry \in {"first", "reloaded"}
      /\ state = "open" => \A c \in Calls : call[c] # "current"
  BY DEF BreakerInv, Sound, Current
<1>1. /\ \A x \in Calls : call[x] = "idle" => NowCall[x] = "idle"
      /\ NowCall \in [Calls -> Status]
  BY <1>0 DEF NowCall, Outdate, Status
<1>2. registry = "first" /\ since < Timeout =>
                         /\ NowState = "open" /\ NowLeft = left /\ NowCall = call
                         /\ ~Admits
  BY <1>0 DEF Expired, NowState, NowLeft, NowCall, Admits
<1>3. ASSUME NEW c \in Calls, Allow(c) PROVE OpenInv' /\ \A x \in Calls : Kept(x)
  <2>1. since = Timeout \/ registry = "reloaded"
    BY <1>0, <1>2, <1>3 DEF Allow
  <2> QED
    BY <1>0, <1>3, <2>1 DEF Allow, Kept
<1>4. ASSUME Reject PROVE OpenInv' /\ Quiet
  <2>1. OpenInv'
    BY <1>0, <1>2, <1>4 DEF Reject, Count
  <2>2. Quiet
    BY <1>1, <1>4 DEF Reject
  <2> QED
    BY <2>1, <2>2
<1>5. ASSUME NEW c \in Calls, DoneOutdated(c) \/ Succeed(c) \/ Fail(c)
      PROVE  OpenInv' /\ Quiet
  <2>1. OpenInv'
    BY <1>0, <1>2, <1>5 DEF DoneOutdated, Succeed, Fail, Count
  <2>2. call' = [NowCall EXCEPT ![c] = "idle"]
    BY <1>5 DEF DoneOutdated, Succeed, Fail
  <2> QED
    BY <1>1, <2>1, <2>2
<1>6. ASSUME NEW c \in Calls, Recover(c) \/ Trip(c) PROVE OpenInv' /\ Quiet
  <2>1. ASSUME Recover(c) PROVE OpenInv'
    BY <1>0, <1>2, <2>1 DEF Recover, SetState
  <2>2. ASSUME Trip(c) PROVE OpenInv'
    BY <1>0, <2>2 DEF Trip, SetState, Lifetime
  <2>3. call' = [Outdate(NowCall) EXCEPT ![c] = "idle"]
    BY <1>6 DEF Recover, Trip
  <2>4. Quiet
    BY <1>1, <2>3 DEF Outdate
  <2> QED
    BY <1>6, <2>1, <2>2, <2>4
<1>7. ASSUME NEW c \in Calls, AllowReplaced(c) PROVE OpenInv' /\ Quiet
  BY <1>0, <1>7 DEF AllowReplaced
<1>8. ASSUME Tick PROVE OpenInv' /\ Quiet
  BY <1>0, <1>8 DEF Tick
<1>9. ASSUME UNCHANGED vars PROVE OpenInv' /\ Quiet
  BY <1>9 DEF vars
<1>10. ASSUME Swap PROVE OpenInv' /\ Quiet
  BY <1>0, <1>10 DEF Swap, Outdate
<1>11. ASSUME NEW c \in Calls, Panic(c) PROVE OpenInv' /\ Quiet
  BY <1>0, <1>11 DEF Panic
<1>12. Quiet => \A c \in Calls : Kept(c)
  BY DEF Kept
<1> HIDE DEF Quiet, OpenInv
<1> QED
  BY <1>3, <1>4, <1>5, <1>6, <1>7, <1>8, <1>9, <1>10, <1>11, <1>12 DEF Next, Done

(* Until the registry is reloaded for the first time, no call is admitted  *)
(* before Timeout has passed since the breaker tripped.                    *)
THEOREM OpenPeriodKept == Spec => TimeoutKeptUntilReload
<1>1. Init => OpenInv
  BY BreakerAssumption DEF Init, OpenInv, BreakerAssumption
<1>2. BreakerInv /\ OpenInv /\ [Next]_vars => OpenInv'
  BY OpenStep
<1>3. BreakerInv /\ OpenInv /\ [Next]_vars => [\A c \in Calls : Kept(c)]_vars
  BY OpenStep
<1> QED
  BY BreakerInitial, BreakerStep, <1>1, <1>2, <1>3, PTL
     DEF Spec, TimeoutKeptUntilReload, Kept

-----------------------------------------------------------------------------
(* Where the registry's entries come from: the seeding of the database by  *)
(* pods that start together (ConfigReload).                                *)

(* A pod between LOCK TABLE and its commit holds the lock, and one that    *)
(* has found the table empty under it still finds it empty.                *)
SeedInv ==
    /\ pc \in [Pods -> Starting \cup Serving \cup {"down"}]
    /\ \A p \in Pods : pc[p] \in {"locked", "seed"} => lock = p
    /\ \A p \in Pods : pc[p] = "seed" => provRows = NoProviders

(* No step of a pod touches a row that exists. *)
RowsKept ==
    pc' # pc => \A n \in Providers : provRows[n] # Absent => provRows'[n] = provRows[n]

(* The pod p goes where it neither holds the lock nor seeds, and leaves    *)
(* the rows and the lock, unless it is its own, alone.                     *)
LEMMA PodMoves ==
    ASSUME SeedInv, NEW p \in Pods, NEW l,
           l \in (Starting \cup Serving \cup {"down"}) \ {"locked", "seed"},
           Goto(p, l), provRows' = provRows,
           lock' = lock \/ (lock = p /\ lock' = NoPod)
    PROVE  SeedInv' /\ RowsKept
  BY DEF SeedInv, RowsKept, Goto

(* Every step of every pod and administrator keeps what seeding relies on. *)
LEMMA SeedStep == SeedInv /\ [ConfigNext]_configVars => SeedInv' /\ RowsKept
<1> SUFFICES ASSUME SeedInv, [ConfigNext]_configVars PROVE SeedInv' /\ RowsKept
  OBVIOUS
<1> USE DEF tables, Starting, Serving
<1>n. NoPod \notin Pods
  BY ConstantsAssumption DEF ConstantsAssumption
<1>1. ASSUME NEW p \in Pods, ReadApplied(p) \/ Migrated(p) \/ Restart(p)
      PROVE  SeedInv' /\ RowsKept
  BY <1>1, PodMoves DEF ReadApplied, Migrated, Restart
<1>2. ASSUME NEW p \in Pods, ApplyRefused(p)
      PROVE  SeedInv' /\ RowsKept
  BY <1>2, PodMoves DEF ApplyRefused, Exit
<1>3. ASSUME NEW p \in Pods, ApplyMigration(p)
      PROVE  SeedInv' /\ RowsKept
  BY <1>3 DEF ApplyMigration, SeedInv, RowsKept
<1>4. ASSUME NEW p \in Pods, IsSeeded(p)
      PROVE  SeedInv' /\ RowsKept
  BY <1>4, PodMoves DEF IsSeeded
<1>5. ASSUME NEW p \in Pods, LockProviders(p)
      PROVE  SeedInv' /\ RowsKept
  BY <1>5, <1>n DEF LockProviders, Goto, SeedInv, RowsKept
<1>6. ASSUME NEW p \in Pods, CheckUnderLock(p)
      PROVE  SeedInv' /\ RowsKept
  <2>1. pc[p] = "locked" /\ lock = p /\ provRows' = provRows
    BY <1>6 DEF CheckUnderLock, SeedInv
  <2>2. CASE Goto(p, "list") /\ lock' = NoPod
    BY <2>1, <2>2, PodMoves
  <2>3. CASE provRows = NoProviders /\ Goto(p, "seed") /\ lock' = lock
    BY <2>1, <2>3 DEF Goto, SeedInv, RowsKept
  <2> QED
    BY <1>6, <2>2, <2>3 DEF CheckUnderLock
<1>7. ASSUME NEW p \in Pods, SeedCommit(p)
      PROVE  SeedInv' /\ RowsKept
  <2>1. /\ pc[p] = "seed" /\ lock = p /\ provRows = NoProviders
        /\ pc' = [pc EXCEPT ![p] = "list"]
    BY <1>7 DEF SeedCommit, Goto, SeedInv
  <2>2. \A q \in Pods : pc'[q] \notin {"locked", "seed"}
    BY <2>1 DEF SeedInv
  <2>3. SeedInv'
    BY <2>1, <2>2 DEF SeedInv
  <2>4. RowsKept
    BY <2>1 DEF RowsKept, NoProviders
  <2> QED
    BY <2>3, <2>4
<1>8. ASSUME NEW p \in Pods, ListProviders(p)
      PROVE  SeedInv' /\ RowsKept
  BY <1>8, PodMoves DEF ListProviders
<1>9. ASSUME NEW p \in Pods,
             Start(p) \/ Poll(p) \/ PollQueryFails(p)
      PROVE  SeedInv' /\ RowsKept
  <2>1. provRows' = provRows /\ lock' = lock
    BY <1>9 DEF Start, Poll, PollQueryFails
  <2>2. Goto(p, "running") \/ Goto(p, "down")
    BY <1>9 DEF Start, Poll, PollQueryFails, SetRegistry,
                KeepRegistry, Exit
  <2> QED
    BY <2>1, <2>2, PodMoves
<1>10. ASSUME NEW p \in Pods, Crash(p)
       PROVE  SeedInv' /\ RowsKept
  BY <1>10, PodMoves DEF Crash, Exit
<1>11. ASSUME Admin
       PROVE  SeedInv' /\ RowsKept
  <2>1. pc' = pc /\ lock' = lock /\ (lock = NoPod \/ provRows' = provRows)
    BY <1>11 DEF Admin, UpsertProvider, DeleteProvider,
                 UpsertModel, DeleteModel, Edit
  <2> QED
    BY <1>n, <2>1 DEF SeedInv, RowsKept
<1>12. ASSUME UNCHANGED configVars
       PROVE  SeedInv' /\ RowsKept
  BY <1>12 DEF configVars, SeedInv, RowsKept
<1> QED
  BY <1>1, <1>2, <1>3, <1>4, <1>5, <1>6, <1>7, <1>8, <1>9, <1>10, <1>11, <1>12
     DEF ConfigNext, PodStep

(* SeedIfEmpty seeds an empty table only, whatever pods start, crash and   *)
(* poll at the same time and whatever administrators write since IsSeeded: *)
(* for any number of pods, providers, edits and crashes.                   *)
THEOREM SeedingKeepsRows == ConfigSpec => RowsSurviveSeeding
<1>1. ConfigInit => SeedInv
  BY DEF ConfigInit, Starting, SeedInv
<1>2. SeedInv /\ [ConfigNext]_configVars => SeedInv' /\ RowsKept
  BY SeedStep
<1>3. SeedInv /\ [ConfigNext]_configVars =>
        [pc' # pc => \A n \in Providers :
            provRows[n] # Absent => provRows'[n] = provRows[n]]_configVars
  BY <1>2 DEF RowsKept
<1> QED
  BY <1>1, <1>2, <1>3, PTL DEF ConfigSpec, RowsSurviveSeeding

=============================================================================
