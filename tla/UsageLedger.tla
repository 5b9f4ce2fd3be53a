---------------------------- MODULE UsageLedger -----------------------------
(***************************************************************************)
(* What the usage store promises to whoever bills by it, without channel,  *)
(* batches or goroutines: usage is claimed once, and settled once, either  *)
(* by a row or by a report that it was lost, together with what shares its *)
(* transaction.  UsageStore implements this specification.                 *)
(***************************************************************************)
EXTENDS Naturals

CONSTANT Events

VARIABLES
    state,    \* where an event stands
    bills,    \* how often it was billed
    closed,   \* Close has returned and main ended
    late      \* srv.Shutdown gave up on handlers that still ran

vars == <<state, bills, closed, late>>

Pending == {e \in Events : state[e] = "pending"}

Init ==
    /\ state = [e \in Events |-> "open"]
    /\ bills = [e \in Events |-> 0]
    /\ closed = FALSE /\ late = FALSE

(* Usage is taken over for billing, while somebody is there to do it. *)
Accept(e) ==
    /\ state[e] = "open"
    /\ closed => late
    /\ state' = [state EXCEPT ![e] = "pending"]
    /\ UNCHANGED <<bills, closed, late>>

(* The request has no usage, or there was no room for it. *)
Decline(e) ==
    /\ state[e] = "open"
    /\ state' = [state EXCEPT ![e] = "declined"]
    /\ UNCHANGED <<bills, closed, late>>

Settle(S) ==
    /\ S # {} /\ S \subseteq Pending
    /\ ~closed
    /\ state' = [e \in Events |-> IF e \in S THEN "settled" ELSE state[e]]
    /\ UNCHANGED <<closed, late>>

(* One transaction: all of its events are billed, or all are lost. *)
Bill(S) ==
    /\ Settle(S)
    /\ bills' = [e \in Events |-> IF e \in S THEN bills[e] + 1 ELSE bills[e]]

Lose(S) == Settle(S) /\ UNCHANGED bills

GiveUp ==
    /\ ~closed /\ late' = TRUE
    /\ UNCHANGED <<state, bills, closed>>

(* Nothing is pending when the store is closed in time. *)
Close ==
    /\ ~closed
    /\ Pending = {} \/ late
    /\ closed' = TRUE
    /\ UNCHANGED <<state, bills, late>>

Next ==
    \/ \E e \in Events : Accept(e) \/ Decline(e)
    \/ \E S \in SUBSET Events : Bill(S) \/ Lose(S)
    \/ GiveUp \/ Close

Spec == Init /\ [][Next]_vars
=============================================================================
