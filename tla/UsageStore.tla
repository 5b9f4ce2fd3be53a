----------------------------- MODULE UsageStore -----------------------------
(***************************************************************************)
(* usage.Store: handlers put the usage event of their request into a       *)
(* bounded channel, the flushLoop goroutine moves events into a batch and  *)
(* inserts batches into PostgreSQL; main shuts the server down and then    *)
(* closes the store.                                                       *)
(*                                                                         *)
(* An event stands for the request that records it.  The order of events   *)
(* in the channel does not matter to anything here, so it is a set.        *)
(***************************************************************************)
EXTENDS Integers, FiniteSets

CONSTANTS
    Events,        \* one per request that is served in the run
    BufferSize,    \* capacity of the channel buffer
    BatchSize      \* Store.batchSize

ASSUME UsageAssumption ==
    /\ IsFiniteSet(Events)
    /\ BufferSize \in Nat \ {0}
    /\ BatchSize \in Nat \ {0}

VARIABLES
    req,      \* what became of the request and its event
    buffer,   \* Store.buffer
    batch,    \* flushLoop's batch
    pc,       \* where flushLoop stands
    rows,     \* how many rows of token_usage an event has
    failed,   \* events of batches whose transaction was not committed
    main,     \* main's progress through its shutdown
    result    \* how srv.Shutdown ended

vars == <<req, buffer, batch, pc, rows, failed, main, result>>

In(e, S) == IF e \in S THEN 1 ELSE 0

Init ==
    /\ req = [e \in Events |-> "new"]
    /\ buffer = {} /\ batch = {}
    /\ pc = "select"
    /\ rows = [e \in Events |-> 0]
    /\ failed = {}
    /\ main = "up"
    /\ result = "none"

(***************************************************************************)
(* Handlers                                                                *)
(***************************************************************************)
Arrive(e) ==
    /\ req[e] = "new"
    /\ main = "up"
    /\ req' = [req EXCEPT ![e] = "running"]
    /\ UNCHANGED <<buffer, batch, pc, rows, failed, main, result>>

(* The handler fails or its client goes away: there is nothing to record. *)
EndUnrecorded(e) ==
    /\ req[e] = "running"
    /\ req' = [req EXCEPT ![e] = "unrecorded"]
    /\ UNCHANGED <<buffer, batch, pc, rows, failed, main, result>>

Record(e) ==
    /\ req[e] = "running"
    /\ Cardinality(buffer) < BufferSize
    /\ buffer' = buffer \cup {e}
    /\ req' = [req EXCEPT ![e] = "accepted"]
    /\ UNCHANGED <<batch, pc, rows, failed, main, result>>

(* Record with a full buffer: a warning, the handler does not wait. *)
RecordDropped(e) ==
    /\ req[e] = "running"
    /\ Cardinality(buffer) >= BufferSize
    /\ req' = [req EXCEPT ![e] = "dropped"]
    /\ UNCHANGED <<buffer, batch, pc, rows, failed, main, result>>

(***************************************************************************)
(* flushLoop                                                               *)
(***************************************************************************)
Receive(e) ==
    /\ pc = "select"
    /\ e \in buffer
    /\ buffer' = buffer \ {e}
    /\ batch' = batch \cup {e}
    /\ pc' = IF Cardinality(batch) + 1 >= BatchSize THEN "insert" ELSE "select"
    /\ UNCHANGED <<req, rows, failed, main, result>>

(* Faulty variant: only full batches are inserted. *)
TickFullOnly ==
    /\ pc = "select"
    /\ Cardinality(batch) >= BatchSize
    /\ pc' = "insert"
    /\ UNCHANGED <<req, buffer, batch, rows, failed, main, result>>

(* The ticker; with an empty batch it does nothing. *)
Tick ==
    /\ pc = "select"
    /\ batch # {}
    /\ pc' = "insert"
    /\ UNCHANGED <<req, buffer, batch, rows, failed, main, result>>

DoneClosed == main \in {"closing", "stopped"}

(* Faulty variant: the loop inserts what it has and does not drain. *)
SeeDoneNoDrain ==
    /\ pc = "select"
    /\ DoneClosed
    /\ pc' = "lastInsert"
    /\ UNCHANGED <<req, buffer, batch, rows, failed, main, result>>

SeeDone ==
    /\ pc = "select"
    /\ DoneClosed
    /\ pc' = "drain"
    /\ UNCHANGED <<req, buffer, batch, rows, failed, main, result>>

Drain(e) ==
    /\ pc = "drain"
    /\ e \in buffer
    /\ buffer' = buffer \ {e}
    /\ batch' = batch \cup {e}
    /\ UNCHANGED <<req, pc, rows, failed, main, result>>

Drained ==
    /\ pc = "drain"
    /\ buffer = {}
    /\ pc' = IF batch = {} THEN "exit" ELSE "lastInsert"
    /\ UNCHANGED <<req, buffer, batch, rows, failed, main, result>>

AfterInsert == IF pc = "insert" THEN "select" ELSE "exit"

(* Faulty variant: the batch is kept after its insert. *)
InsertBatchKept ==
    /\ pc \in {"insert", "lastInsert"}
    /\ rows' = [e \in Events |-> rows[e] + In(e, batch)]
    /\ pc' = AfterInsert
    /\ UNCHANGED <<req, buffer, batch, failed, main, result>>

(* Faulty variant: rows are inserted without a transaction, so that one of *)
(* them can fail alone.                                                    *)
InsertBatchNoTx ==
    /\ pc \in {"insert", "lastInsert"}
    /\ \E e \in batch :
         /\ rows' = [x \in Events |-> rows[x] + In(x, batch \ {e})]
         /\ failed' = failed \cup {e}
    /\ batch' = {}
    /\ pc' = AfterInsert
    /\ UNCHANGED <<req, buffer, main, result>>

(* insertBatch committed its transaction (whether or not the driver could  *)
(* tell); the batch is reset.                                              *)
InsertBatch ==
    /\ pc \in {"insert", "lastInsert"}
    /\ rows' = [e \in Events |-> rows[e] + In(e, batch)]
    /\ batch' = {}
    /\ pc' = AfterInsert
    /\ UNCHANGED <<req, buffer, failed, main, result>>

(* Begin, prepare or commit failed, or one row was refused, which aborts   *)
(* the transaction for all of them.  It is logged and not tried again.     *)
InsertBatchFails ==
    /\ pc \in {"insert", "lastInsert"}
    /\ failed' = failed \cup batch
    /\ batch' = {}
    /\ pc' = AfterInsert
    /\ UNCHANGED <<req, buffer, rows, main, result>>

(***************************************************************************)
(* main                                                                    *)
(***************************************************************************)
Running == {e \in Events : req[e] = "running"}

Signal ==
    /\ main = "up"
    /\ main' = "shutdown"
    /\ UNCHANGED <<req, buffer, batch, pc, rows, failed, result>>

(* srv.Shutdown has waited for the handlers; usageStore.Close closes done. *)
ShutdownDone ==
    /\ main = "shutdown"
    /\ Running = {}
    /\ main' = "closing"
    /\ result' = "graceful"
    /\ UNCHANGED <<req, buffer, batch, pc, rows, failed>>

(* srv.Shutdown gives up after 30 s with handlers still running. *)
ShutdownTimeout ==
    /\ main = "shutdown"
    /\ Running # {}
    /\ main' = "closing"
    /\ result' = "timedOut"
    /\ UNCHANGED <<req, buffer, batch, pc, rows, failed>>

(* wg.Wait returns, and with it Close; main ends. *)
Closed ==
    /\ main = "closing"
    /\ pc = "exit"
    /\ main' = "stopped"
    /\ UNCHANGED <<req, buffer, batch, pc, rows, failed, result>>

Handler(e) == EndUnrecorded(e) \/ Record(e) \/ RecordDropped(e)

FlushLoop ==
    \/ \E e \in Events : Receive(e) \/ Drain(e)
    \/ Tick \/ SeeDone \/ Drained \/ InsertBatch \/ InsertBatchFails

Shutdown == ShutdownDone \/ ShutdownTimeout \/ Closed

Terminated == main = "stopped" /\ UNCHANGED vars

Next ==
    \/ \E e \in Events : Arrive(e) \/ Handler(e)
    \/ FlushLoop
    \/ Signal
    \/ Shutdown
    \/ Terminated

(* Handlers end, flushLoop runs (its inserts have a 10 s limit), and main  *)
(* proceeds once it was told to shut down.                                 *)
Fairness ==
    /\ \A e \in Events : WF_vars(Handler(e))
    /\ WF_vars(FlushLoop)
    /\ WF_vars(Shutdown)

Spec == Init /\ [][Next]_vars /\ Fairness

(***************************************************************************)
(* Properties                                                              *)
(***************************************************************************)
TypeOK ==
    /\ req \in [Events -> {"new", "running", "unrecorded", "accepted", "dropped"}]
    /\ buffer \subseteq Events /\ Cardinality(buffer) <= BufferSize
    /\ batch \subseteq Events
    /\ pc \in {"select", "insert", "drain", "lastInsert", "exit"}
    /\ rows \in [Events -> Nat]
    /\ failed \subseteq Events
    /\ main \in {"up", "shutdown", "closing", "stopped"}
    /\ result \in {"none", "graceful", "timedOut"}

(* The number of places in which an event is. *)
Copies(e) == rows[e] + In(e, buffer) + In(e, batch) + In(e, failed)

(* Usage that Record accepted is billed at most once and never silently    *)
(* forgotten: it is in the channel, in the batch, in a row, or was         *)
(* reported as a failed insert, and in one of these only.                  *)
ExactlyOnePlace ==
    \A e \in Events : Copies(e) = IF req[e] = "accepted" THEN 1 ELSE 0

(* "Call Close() to flush remaining events": when Close has returned after *)
(* a shutdown in which every handler ended in time, no accepted event is   *)
(* left in the channel or in the batch.                                    *)
GracefulCloseFlushes ==
    main = "stopped" /\ result = "graceful" => buffer = {} /\ batch = {}

(* An accepted event is inserted, or its insert attempted, also if no      *)
(* other event follows it; unless handlers outlive srv.Shutdown.           *)
AcceptedIsFlushed ==
    \A e \in Events : e \in buffer ~> (rows[e] > 0 \/ e \in failed \/ result = "timedOut")

(* The refinement mapping: pending is in the channel or in the batch. *)
LedgerState(e) ==
    IF e \in buffer \cup batch THEN "pending"
    ELSE IF rows[e] > 0 \/ e \in failed THEN "settled"
    ELSE IF req[e] \in {"unrecorded", "dropped"} THEN "declined"
    ELSE "open"

Ledger == INSTANCE UsageLedger
    WITH state <- [e \in Events |-> LedgerState(e)], bills <- rows,
         closed <- (main = "stopped"), late <- (result = "timedOut")

(* To those who bill by it, the store with its channel, batches, failing   *)
(* inserts and shutdown is the ledger: each event is settled once and with *)
(* its whole transaction, and nothing is pending after a Close in time.    *)
ImplementsLedger == Ledger!Spec
=============================================================================
