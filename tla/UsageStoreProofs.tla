-------------------------- MODULE UsageStoreProofs --------------------------
(***************************************************************************)
(* Proofs about the usage store, for any number of events and any sizes of *)
(* the channel and the batch.                                              *)
(***************************************************************************)
EXTENDS UsageStore, FiniteSetTheorems, TLAPS

(***************************************************************************)
(* Types and the places of an event                                        *)
(***************************************************************************)
PlaceInv == TypeOK /\ ExactlyOnePlace

LEMMA PlaceInitial == Init => PlaceInv
<1> SUFFICES ASSUME Init PROVE PlaceInv
  OBVIOUS
<1>1. Cardinality(buffer) <= BufferSize
  BY FS_EmptySet, UsageAssumption DEF Init, UsageAssumption
<1> QED
  BY <1>1 DEF Init, PlaceInv, TypeOK, ExactlyOnePlace, Copies, In

LEMMA FiniteEvents ==
    ASSUME NEW S \in SUBSET Events
    PROVE  IsFiniteSet(S) /\ Cardinality(S) \in Nat
  BY UsageAssumption, FS_Subset, FS_CardinalityType DEF UsageAssumption

(* Taking an event out of the channel leaves room in it. *)
LEMMA TakeOne ==
    ASSUME TypeOK, NEW e \in buffer
    PROVE  Cardinality(buffer \ {e}) <= BufferSize
<1>1. IsFiniteSet(buffer) /\ Cardinality(buffer) \in Nat /\ Cardinality(buffer) <= BufferSize
  BY FiniteEvents DEF TypeOK
<1>2. Cardinality(buffer \ {e}) = Cardinality(buffer) - 1
  BY <1>1, FS_RemoveElement
<1> QED
  BY <1>1, <1>2, UsageAssumption DEF UsageAssumption

LEMMA PlaceStep == PlaceInv /\ [Next]_vars => PlaceInv'
<1> SUFFICES ASSUME PlaceInv, [Next]_vars PROVE PlaceInv'
  OBVIOUS
<1> USE UsageAssumption DEF UsageAssumption, PlaceInv, TypeOK, ExactlyOnePlace, Copies, In
<1>1. ASSUME NEW e \in Events, Arrive(e) PROVE PlaceInv'
  BY <1>1 DEF Arrive
<1>2. ASSUME NEW e \in Events, EndUnrecorded(e) PROVE PlaceInv'
  BY <1>2 DEF EndUnrecorded
<1>3. ASSUME NEW e \in Events, Record(e) PROVE PlaceInv'
  <2>1. e \notin buffer /\ e \notin batch /\ e \notin failed /\ rows[e] = 0
    BY <1>3 DEF Record
  <2>2. IsFiniteSet(buffer) /\ Cardinality(buffer) \in Nat
    BY FiniteEvents
  <2>3. Cardinality(buffer') = Cardinality(buffer) + 1
    BY <1>3, <2>1, <2>2, FS_AddElement DEF Record
  <2>4. Cardinality(buffer') <= BufferSize
    BY <1>3, <2>2, <2>3 DEF Record
  <2>5. TypeOK'
    BY <1>3, <2>4 DEF Record
  <2>6. ExactlyOnePlace'
    BY <1>3, <2>1 DEF Record
  <2> QED
    BY <2>5, <2>6
<1>4. ASSUME NEW e \in Events, RecordDropped(e) PROVE PlaceInv'
  BY <1>4 DEF RecordDropped
<1>5. ASSUME NEW e \in Events, Receive(e) PROVE PlaceInv'
  <2>1. TypeOK'
    BY <1>5, TakeOne DEF Receive
  <2>2. ExactlyOnePlace'
    BY <1>5 DEF Receive
  <2> QED
    BY <2>1, <2>2
<1>6. ASSUME NEW e \in Events, Drain(e) PROVE PlaceInv'
  <2>1. TypeOK'
    BY <1>6, TakeOne DEF Drain
  <2>2. ExactlyOnePlace'
    BY <1>6 DEF Drain
  <2> QED
    BY <2>1, <2>2
<1>7. CASE Tick \/ SeeDone \/ Drained
  BY <1>7 DEF Tick, SeeDone, Drained
<1>8. CASE InsertBatch
  BY <1>8 DEF InsertBatch, AfterInsert
<1>9. CASE InsertBatchFails
  BY <1>9 DEF InsertBatchFails, AfterInsert
<1>10. CASE Signal \/ ShutdownDone \/ ShutdownTimeout \/ Closed
  BY <1>10 DEF Signal, ShutdownDone, ShutdownTimeout, Closed
<1>11. CASE UNCHANGED vars
  BY <1>11 DEF vars
<1> QED
  BY <1>1, <1>2, <1>3, <1>4, <1>5, <1>6, <1>7, <1>8, <1>9, <1>10, <1>11
     DEF Next, Handler, FlushLoop, Shutdown, Terminated

(* The state of the store keeps its type; the channel its capacity. *)
THEOREM TypeCorrect == Spec => []TypeOK
<1>1. PlaceInv => TypeOK
  BY DEF PlaceInv
<1> QED
  BY PlaceInitial, PlaceStep, <1>1, PTL DEF Spec

(* Accepted usage is never written twice and never silently forgotten,     *)
(* also under failing inserts and a shutdown that times out.               *)
THEOREM NoDoubleBilling == Spec => []ExactlyOnePlace
<1>1. PlaceInv => ExactlyOnePlace
  BY DEF PlaceInv
<1> QED
  BY PlaceInitial, PlaceStep, <1>1, PTL DEF Spec

(***************************************************************************)
(* Shutdown: once done is closed no handler is left to record, so what the *)
(* drain leaves empty stays empty.                                         *)
(***************************************************************************)
Late == result = "timedOut"

CloseInv ==
    /\ main \in {"closing", "stopped"} <=> result # "none"
    /\ main \in {"closing", "stopped"} /\ ~Late => \A e \in Events : req[e] # "running"
    /\ pc \in {"drain", "lastInsert", "exit"} => DoneClosed
    /\ pc \in {"lastInsert", "exit"} /\ ~Late => buffer = {}
    /\ pc = "exit" => batch = {}
    /\ main = "stopped" => pc = "exit"

LEMMA CloseStep ==
    ASSUME PlaceInv, CloseInv, [Next]_vars
    PROVE  CloseInv'
<1> USE DEF PlaceInv, TypeOK, CloseInv, DoneClosed, Late
<1>1. ASSUME NEW e \in Events, Arrive(e) PROVE CloseInv'
  BY <1>1 DEF Arrive
<1>2. ASSUME NEW e \in Events, EndUnrecorded(e) PROVE CloseInv'
  BY <1>2 DEF EndUnrecorded
<1>3. ASSUME NEW e \in Events, Record(e) PROVE CloseInv'
  BY <1>3 DEF Record
<1>4. ASSUME NEW e \in Events, RecordDropped(e) PROVE CloseInv'
  BY <1>4 DEF RecordDropped
<1>5. ASSUME NEW e \in Events, Receive(e) PROVE CloseInv'
  BY <1>5 DEF Receive
<1>6. ASSUME NEW e \in Events, Drain(e) PROVE CloseInv'
  BY <1>6 DEF Drain
<1>7. CASE Tick
  BY <1>7 DEF Tick
<1>8. CASE SeeDone
  BY <1>8 DEF SeeDone
<1>9. CASE Drained
  BY <1>9 DEF Drained
<1>10. CASE InsertBatch
  BY <1>10 DEF InsertBatch, AfterInsert
<1>11. CASE InsertBatchFails
  BY <1>11 DEF InsertBatchFails, AfterInsert
<1>12. CASE Signal
  BY <1>12 DEF Signal
<1>13. CASE ShutdownDone
  BY <1>13 DEF ShutdownDone, Running
<1>14. CASE ShutdownTimeout
  BY <1>14 DEF ShutdownTimeout
<1>15. CASE Closed
  BY <1>15 DEF Closed
<1>16. CASE UNCHANGED vars
  BY <1>16 DEF vars
<1> QED
  BY <1>1, <1>2, <1>3, <1>4, <1>5, <1>6, <1>7, <1>8, <1>9, <1>10, <1>11, <1>12,
     <1>13, <1>14, <1>15, <1>16
     DEF Next, Handler, FlushLoop, Shutdown, Terminated

(* If every handler ends within the 30 s of srv.Shutdown, Close leaves     *)
(* neither the channel nor the batch with an event.                        *)
THEOREM CloseDrains == Spec => []GracefulCloseFlushes
<1>1. Init => CloseInv
  BY DEF Init, CloseInv
<1>2. PlaceInv /\ CloseInv /\ [Next]_vars => CloseInv'
  BY CloseStep
<1>3. CloseInv => GracefulCloseFlushes
  BY DEF CloseInv, GracefulCloseFlushes, Late
<1> QED
  BY PlaceInitial, PlaceStep, <1>1, <1>2, <1>3, PTL DEF Spec
(***************************************************************************)
(* The store implements the ledger                                         *)
(***************************************************************************)
StoreInv == PlaceInv /\ CloseInv

(* What the ledger calls the state of an event, by the place of the event. *)
LEMMA LedgerPlaces ==
    ASSUME PlaceInv, NEW e \in Events
    PROVE  /\ req[e] # "accepted" =>
                e \notin buffer /\ e \notin batch /\ e \notin failed /\ rows[e] = 0
           /\ e \in batch => e \notin buffer /\ e \notin failed /\ rows[e] = 0
           /\ LedgerState(e) = "pending" <=> e \in buffer \cup batch
  BY DEF PlaceInv, TypeOK, ExactlyOnePlace, Copies, In, LedgerState

(* A handler's last step is the acceptance or the refusal of its event. *)
LEMMA HandlerRefines ==
    ASSUME StoreInv, NEW e \in Events, Handler(e)
    PROVE  Ledger!Accept(e) \/ Ledger!Decline(e)
<1> USE DEF StoreInv, PlaceInv, TypeOK
<1>1. req[e] = "running" /\ LedgerState(e) = "open"
  BY LedgerPlaces DEF Handler, EndUnrecorded, Record, RecordDropped, LedgerState
<1>2. CASE Record(e)
  <2>1. [x \in Events |-> LedgerState(x)]'
          = [[x \in Events |-> LedgerState(x)] EXCEPT ![e] = "pending"]
    BY <1>2 DEF Record, LedgerState
  <2>2. main = "stopped" => result = "timedOut"
    BY <1>1 DEF CloseInv, Late
  <2> QED
    BY <1>1, <1>2, <2>1, <2>2 DEF Ledger!Accept, Record
<1>3. CASE EndUnrecorded(e) \/ RecordDropped(e)
  <2>1. e \notin buffer /\ e \notin batch /\ e \notin failed /\ rows[e] = 0
    BY <1>1, LedgerPlaces
  <2>2. /\ req'[e] \in {"unrecorded", "dropped"}
        /\ \A x \in Events \ {e} : req'[x] = req[x]
        /\ UNCHANGED <<buffer, batch, rows, failed>>
    BY <1>3 DEF EndUnrecorded, RecordDropped
  <2>3. LedgerState(e)' = "declined"
    BY <2>1, <2>2 DEF LedgerState
  <2>4. \A x \in Events \ {e} : LedgerState(x)' = LedgerState(x)
    BY <2>2 DEF LedgerState
  <2>5. [x \in Events |-> LedgerState(x)]'
          = [[x \in Events |-> LedgerState(x)] EXCEPT ![e] = "declined"]
    BY <2>3, <2>4
  <2> QED
    BY <1>1, <1>3, <2>5 DEF Ledger!Decline, EndUnrecorded, RecordDropped
<1> QED
  BY <1>2, <1>3 DEF Handler

(* An insert settles its whole batch; with an empty one nothing happens. *)
LEMMA InsertRefines ==
    ASSUME StoreInv, InsertBatch \/ InsertBatchFails
    PROVE  Ledger!Bill(batch) \/ Ledger!Lose(batch) \/ UNCHANGED Ledger!vars
<1> USE DEF StoreInv, PlaceInv, TypeOK
<1>1. ~(main = "stopped")
  BY DEF CloseInv, InsertBatch, InsertBatchFails
<1>2. \A e \in batch : e \notin buffer /\ e \notin failed /\ rows[e] = 0
  BY LedgerPlaces
<1>3. batch \subseteq Ledger!Pending
  BY DEF Ledger!Pending, LedgerState
<1>4. [e \in Events |-> LedgerState(e)]'
        = [e \in Events |-> IF e \in batch THEN "settled"
                            ELSE [x \in Events |-> LedgerState(x)][e]]
  BY <1>2 DEF InsertBatch, InsertBatchFails, LedgerState, In
<1>5. CASE batch = {}
  <2>1. rows' = rows
    BY <1>5 DEF InsertBatch, InsertBatchFails, In
  <2> QED
    BY <1>4, <1>5, <2>1 DEF Ledger!vars, InsertBatch, InsertBatchFails
<1>6. CASE batch # {} /\ InsertBatch
  <2>1. rows' = [e \in Events |-> IF e \in batch THEN rows[e] + 1 ELSE rows[e]]
    BY <1>6 DEF InsertBatch, In
  <2> QED
    BY <1>1, <1>3, <1>4, <1>6, <2>1 DEF Ledger!Bill, Ledger!Settle, InsertBatch
<1>7. CASE batch # {} /\ InsertBatchFails
  BY <1>1, <1>3, <1>4, <1>7 DEF Ledger!Lose, Ledger!Settle, InsertBatchFails
<1> QED
  BY <1>5, <1>6, <1>7

(* Every other step leaves the ledger alone, gives up on handlers, or      *)
(* closes it with nothing pending.                                         *)
LEMMA StepRefines ==
    ASSUME StoreInv, [Next]_vars
    PROVE  [Ledger!Next]_(Ledger!vars)
<1> USE DEF StoreInv, PlaceInv, TypeOK
<1>1. ASSUME NEW e \in Events, Arrive(e) PROVE UNCHANGED Ledger!vars
  BY <1>1 DEF Arrive, Ledger!vars, LedgerState
<1>2. ASSUME NEW e \in Events, Handler(e) PROVE Ledger!Next
  BY <1>2, HandlerRefines DEF Ledger!Next
<1>3. ASSUME NEW e \in Events, Receive(e) \/ Drain(e) PROVE UNCHANGED Ledger!vars
  <2>1. buffer' \cup batch' = buffer \cup batch
    BY <1>3 DEF Receive, Drain
  <2> QED
    BY <1>3, <2>1 DEF Receive, Drain, Ledger!vars, LedgerState
<1>4. CASE Tick \/ SeeDone \/ Drained
  BY <1>4 DEF Tick, SeeDone, Drained, Ledger!vars, LedgerState
<1>5. CASE InsertBatch \/ InsertBatchFails
  BY <1>5, InsertRefines DEF Ledger!Next
<1>6. CASE Signal \/ ShutdownDone
  <2>1. result # "timedOut" /\ result' # "timedOut"
    BY <1>6 DEF Signal, ShutdownDone, CloseInv
  <2> QED
    BY <1>6, <2>1 DEF Signal, ShutdownDone, Ledger!vars, LedgerState
<1>7. CASE ShutdownTimeout
  BY <1>7 DEF ShutdownTimeout, Ledger!Next, Ledger!GiveUp, LedgerState
<1>8. CASE Closed
  <2>1. Ledger!Pending = {} \/ result = "timedOut"
    BY <1>8 DEF Closed, CloseInv, Late, Ledger!Pending, LedgerState
  <2> QED
    BY <1>8, <2>1 DEF Closed, Ledger!Next, Ledger!Close, LedgerState
<1>9. CASE UNCHANGED vars
  BY <1>9 DEF vars, Ledger!vars, LedgerState
<1> QED
  BY <1>1, <1>2, <1>3, <1>4, <1>5, <1>6, <1>7, <1>8, <1>9
     DEF Next, FlushLoop, Shutdown, Terminated

(* Whoever bills by the store may think of it as the ledger: usage is      *)
(* settled once, with its transaction, and before a Close in time, for any *)
(* sizes of the channel and of the batch.                                  *)
THEOREM StoreImplementsLedger == Spec => ImplementsLedger
<1>1. Init => Ledger!Init
  BY DEF Init, Ledger!Init, LedgerState
<1>2. Init => CloseInv
  BY DEF Init, CloseInv
<1>3. PlaceInv /\ CloseInv /\ [Next]_vars => CloseInv'
  BY CloseStep
<1>4. PlaceInv /\ CloseInv /\ [Next]_vars => [Ledger!Next]_(Ledger!vars)
  BY StepRefines DEF StoreInv
<1> QED
  BY PlaceInitial, PlaceStep, <1>1, <1>2, <1>3, <1>4, PTL
     DEF Spec, ImplementsLedger, Ledger!Spec
=============================================================================
