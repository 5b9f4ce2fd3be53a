--------------------------- MODULE StreamPipeline ---------------------------
(***************************************************************************)
(* One streaming request through the four goroutines that serve it:        *)
(*                                                                         *)
(*   provider goroutine     providers/{openai,anthropic,google}            *)
(*        | deltaChan (unbuffered)          | errChan (capacity 1)         *)
(*        |                          breaker goroutine  circuitbreaker.go  *)
(*        |                                 | wrappedErrChan (capacity 1)  *)
(*   instrumenting goroutine  observability/provider_wrapper.go            *)
(*        | outChan (unbuffered)            | outErrChan (capacity 1)      *)
(*   handler loop             server.handleStreamingResponse               *)
(*                                                                         *)
(* The instrumenting goroutine exists only when observability is enabled;  *)
(* otherwise the handler reads deltaChan and wrappedErrChan directly.      *)
(* A delta is abstracted to its kind.  The SSE events it turns into, and   *)
(* the tool call bookkeeping, are the subject of module SSEStream.         *)
(***************************************************************************)
EXTENDS Naturals

CONSTANTS
    MaxDeltas       \* bound on the content deltas the upstream produces

ASSUME PipelineAssumption == MaxDeltas \in Nat

None == "none"

Content == {"text", "tool", "badtool"}  \* "badtool": its name fails validation
Delta == Content \cup {"done"}
Error == {"upstream", "ctx", "open"}    \* stream error, ctx.Err(), breaker refusal

Request == [toolRequired : BOOLEAN, store : BOOLEAN, observability : BOOLEAN]

DeltaChans == {"delta", "out"}          \* deltaChan and outChan
ErrChans == {"err", "wrapped", "outErr"}

VARIABLES
    offer,     \* unbuffered channels: the delta that a blocked sender offers
    pend,      \* error channels, of capacity 1: the buffered error
    closed,    \* channels that are closed
    ctxDone,   \* r.Context() is cancelled
    provPc,    \* provider goroutine
    sent,      \* content deltas produced so far
    upstream,  \* how the upstream stream ended
    brPc,      \* goroutine of CircuitBreakerProvider.GenerateStream
    brErr,     \* streamErr, its local variable
    outcome,   \* argument of the breaker's done callback
    inPc,      \* goroutine of InstrumentedProvider.GenerateStream
    inBase,    \* baseChan # nil
    inErr,     \* baseErrChan # nil
    inFail,    \* streamErr # nil
    metrics,   \* status recorded by recordMetrics
    hPc,       \* handleStreamingResponse
    hErr,      \* streamErr
    hBad,      \* streamRespErr set by the tool name validation
    got,       \* kinds of delta received
    received,  \* number of content deltas received (observer)
    terminal,  \* the terminal SSE event sent
    stored,    \* the conversation was created
    recorded,  \* the token usage was recorded
    req        \* tool_choice requires a call, shouldStore, cfg.Observability

provVars == <<provPc, sent, upstream>>
brVars == <<brPc, brErr, outcome>>
inVars == <<inPc, inBase, inErr, inFail, metrics>>
hVars == <<hPc, hErr, hBad, got, received, terminal, stored, recorded>>
vars == <<offer, pend, closed, ctxDone, provVars, brVars, inVars, hVars, req>>

(* The channels that the handler reads. *)
HandlerDelta == IF req.observability THEN "out" ELSE "delta"
HandlerErr == IF req.observability THEN "outErr" ELSE "wrapped"

(***************************************************************************)
(* Go channels                                                             *)
(***************************************************************************)
Offer(c, d) == offer' = [offer EXCEPT ![c] = d]
Withdraw(c) == offer' = [offer EXCEPT ![c] = None]
Taken(c) == offer[c] = None
Ready(c) == offer[c] # None
ClosedEmpty(c) == c \in closed /\ offer[c] = None

HasErr(c) == pend[c] # None
ErrClosed(c) == c \in closed /\ pend[c] = None
PutErr(c, e) == pend' = [pend EXCEPT ![c] = e]
DropErr(c) == pend' = [pend EXCEPT ![c] = None]
MoveErr(c, d) == pend' = [pend EXCEPT ![c] = None, ![d] = pend[c]]

Close(c) == closed' = closed \cup {c}

Init ==
    /\ offer = [c \in DeltaChans |-> None]
    /\ pend = [c \in ErrChans |-> None]
    /\ closed = {}
    /\ ctxDone = FALSE
    /\ provPc = "idle" /\ sent = 0 /\ upstream = "running"
    /\ brPc = "idle" /\ brErr = None /\ outcome = None
    /\ inPc = "idle" /\ inBase = TRUE /\ inErr = TRUE
    /\ inFail = FALSE /\ metrics = None
    /\ hPc = "start" /\ hErr = None /\ hBad = FALSE /\ got = {} /\ received = 0
    /\ terminal = None /\ stored = FALSE /\ recorded = FALSE
    /\ req \in Request

(***************************************************************************)
(* Provider goroutine                                                      *)
(***************************************************************************)
(* stream.Next() yields a chunk with content: the goroutine starts the     *)
(* select that sends it.                                                   *)
ProviderChunk ==
    /\ provPc = "stream"
    /\ sent < MaxDeltas
    /\ \E d \in Content : Offer("delta", d)
    /\ sent' = sent + 1
    /\ provPc' = "send"
    /\ UNCHANGED <<pend, closed, ctxDone, upstream, brVars, inVars, hVars,
                   req>>

(* The upstream stream ends without an error: the Done delta is sent. *)
ProviderEnd ==
    /\ provPc = "stream"
    /\ Offer("delta", "done")
    /\ upstream' = "finished"
    /\ provPc' = "sendDone"
    /\ UNCHANGED <<pend, closed, ctxDone, sent, brVars, inVars, hVars, req>>

(* Setup (missing key, message or tool conversion) or the stream fails.    *)
ProviderFail ==
    /\ provPc = "stream"
    /\ PutErr("err", "upstream")
    /\ upstream' = "failed"
    /\ provPc' = "closeErr"
    /\ UNCHANGED <<offer, closed, ctxDone, sent, brVars, inVars, hVars, req>>

(* The SDK gives up its read because the request context is cancelled.     *)
ProviderAbort ==
    /\ provPc = "stream"
    /\ ctxDone
    /\ PutErr("err", "ctx")
    /\ upstream' = "cancelled"
    /\ provPc' = "closeErr"
    /\ UNCHANGED <<offer, closed, ctxDone, sent, brVars, inVars, hVars, req>>

(* Faulty variant: a send that does not wait for its receiver. *)
ProviderSentDropsDelta ==
    /\ provPc \in {"send", "sendDone"}
    /\ provPc' = IF provPc = "send" THEN "stream" ELSE "closeErr"
    /\ UNCHANGED <<offer, pend, closed, ctxDone, sent, upstream, brVars,
                   inVars, hVars, req>>

(* The select that sends a delta completes ... *)
ProviderSent ==
    /\ provPc \in {"send", "sendDone"}
    /\ Taken("delta")
    /\ provPc' = IF provPc = "send" THEN "stream" ELSE "closeErr"
    /\ UNCHANGED <<offer, pend, closed, ctxDone, sent, upstream, brVars,
                   inVars, hVars, req>>

(* Faulty variant: a cancelled send reports no error. *)
ProviderCtxDoneSilent ==
    /\ provPc \in {"send", "sendDone"}
    /\ Ready("delta")
    /\ ctxDone
    /\ Withdraw("delta")
    /\ provPc' = "closeErr"
    /\ UNCHANGED <<pend, closed, ctxDone, sent, upstream, brVars, inVars, hVars,
                   req>>

(* Faulty variant: no return after a cancelled send. *)
ProviderCtxDoneNoReturn ==
    /\ provPc \in {"send", "sendDone"}
    /\ Ready("delta")
    /\ ctxDone
    /\ Withdraw("delta")
    /\ PutErr("err", "ctx")
    /\ provPc' = "stream"
    /\ UNCHANGED <<closed, ctxDone, sent, upstream, brVars, inVars, hVars,
                   req>>

(* ... or its <-ctx.Done() case is taken. *)
ProviderCtxDone ==
    /\ provPc \in {"send", "sendDone"}
    /\ Ready("delta")
    /\ ctxDone
    /\ Withdraw("delta")
    /\ PutErr("err", "ctx")
    /\ provPc' = "closeErr"
    /\ UNCHANGED <<closed, ctxDone, sent, upstream, brVars, inVars, hVars,
                   req>>

(* Faulty variant: errChan is not closed. *)
ProviderCloseErrMissing ==
    /\ provPc = "closeErr"
    /\ provPc' = "closeDelta"
    /\ UNCHANGED <<closed, offer, pend, ctxDone, sent, upstream, brVars, inVars, hVars,
                   req>>

(* Deferred calls run last-in first-out: errChan is closed before deltaChan. *)
ProviderCloseErr ==
    /\ provPc = "closeErr"
    /\ Close("err")
    /\ provPc' = "closeDelta"
    /\ UNCHANGED <<offer, pend, ctxDone, sent, upstream, brVars, inVars, hVars,
                   req>>

ProviderCloseDelta ==
    /\ provPc = "closeDelta"
    /\ Close("delta")
    /\ provPc' = "exited"
    /\ UNCHANGED <<offer, pend, ctxDone, sent, upstream, brVars, inVars, hVars,
                   req>>

Provider ==
    \/ ProviderChunk \/ ProviderEnd \/ ProviderFail \/ ProviderAbort
    \/ ProviderSent \/ ProviderCtxDone \/ ProviderCloseErr \/ ProviderCloseDelta

(***************************************************************************)
(* Breaker goroutine                                                       *)
(***************************************************************************)
(* <-errChan delivers an error: done(false), before it is forwarded. *)
BreakerFailure ==
    /\ brPc = "wait"
    /\ HasErr("err")
    /\ brErr' = pend["err"]
    /\ DropErr("err")
    /\ outcome' = "failure"
    /\ brPc' = "forward"
    /\ UNCHANGED <<offer, closed, ctxDone, provVars, inVars, hVars, req>>

(* <-errChan reports that the channel is closed: done(true). *)
BreakerSuccess ==
    /\ brPc = "wait"
    /\ ErrClosed("err")
    /\ outcome' = "success"
    /\ brPc' = "close"
    /\ UNCHANGED <<offer, pend, closed, ctxDone, provVars, brErr, inVars,
                   hVars, req>>

BreakerForward ==
    /\ brPc = "forward"
    /\ PutErr("wrapped", brErr)
    /\ brPc' = "close"
    /\ UNCHANGED <<offer, closed, ctxDone, provVars, brErr, outcome, inVars,
                   hVars, req>>

BreakerClose ==
    /\ brPc = "close"
    /\ Close("wrapped")
    /\ brPc' = "exited"
    /\ UNCHANGED <<offer, pend, ctxDone, provVars, brErr, outcome, inVars,
                   hVars, req>>

Breaker == BreakerFailure \/ BreakerSuccess \/ BreakerForward \/ BreakerClose

(***************************************************************************)
(* Instrumenting goroutine                                                 *)
(***************************************************************************)
(* A delta arrives on baseChan: it is counted and offered on outChan; the  *)
(* send has no <-ctx.Done() alternative.                                   *)
InstrDelta ==
    /\ inPc = "select" /\ inBase
    /\ Ready("delta")
    /\ offer' = [offer EXCEPT !["delta"] = None, !["out"] = offer["delta"]]
    /\ inPc' = "forward"
    /\ UNCHANGED <<pend, closed, ctxDone, provVars, brVars, inBase, inErr,
                   inFail, metrics, hVars, req>>

InstrForwarded ==
    /\ inPc = "forward"
    /\ Taken("out")
    /\ inPc' = "select"
    /\ UNCHANGED <<offer, pend, closed, ctxDone, provVars, brVars, inBase,
                   inErr, inFail, metrics, hVars, req>>

(* baseChan is closed.  The nested select takes an error that is already   *)
(* pending; its default case gives up on baseErrChan.                      *)
InstrDeltaClosed ==
    /\ inPc = "select" /\ inBase
    /\ ClosedEmpty("delta")
    /\ inBase' = FALSE
    /\ inErr' = FALSE
    /\ \/ /\ inErr /\ HasErr("wrapped")
          /\ MoveErr("wrapped", "outErr")
          /\ inFail' = TRUE
       \/ /\ ~(inErr /\ HasErr("wrapped"))
          /\ UNCHANGED <<pend, inFail>>
    /\ UNCHANGED <<offer, closed, ctxDone, provVars, brVars, inPc, metrics,
                   hVars, req>>

(* Faulty variant: streamErr is not set. *)
InstrErrUncounted ==
    /\ inPc = "select" /\ inErr
    /\ HasErr("wrapped")
    /\ MoveErr("wrapped", "outErr")
    /\ inBase' = FALSE
    /\ inErr' = FALSE
    /\ UNCHANGED <<inFail, offer, closed, ctxDone, provVars, brVars, inPc, metrics,
                   hVars, req>>

(* baseErrChan delivers an error: the loop ends, baseChan is abandoned. *)
InstrErr ==
    /\ inPc = "select" /\ inErr
    /\ HasErr("wrapped")
    /\ MoveErr("wrapped", "outErr")
    /\ inFail' = TRUE
    /\ inBase' = FALSE
    /\ inErr' = FALSE
    /\ UNCHANGED <<offer, closed, ctxDone, provVars, brVars, inPc, metrics,
                   hVars, req>>

InstrErrClosed ==
    /\ inPc = "select" /\ inErr
    /\ ErrClosed("wrapped")
    /\ inErr' = FALSE
    /\ UNCHANGED <<offer, pend, closed, ctxDone, provVars, brVars, inPc,
                   inBase, inFail, metrics, hVars, req>>

(* Both channels are nil: the loop ends and recordMetrics runs. *)
InstrRecordMetrics ==
    /\ inPc = "select" /\ ~inBase /\ ~inErr
    /\ metrics' = IF inFail THEN "error" ELSE "success"
    /\ inPc' = "closeErr"
    /\ UNCHANGED <<offer, pend, closed, ctxDone, provVars, brVars, inBase,
                   inErr, inFail, hVars, req>>

(* Faulty variant: outErrChan is not closed. *)
InstrCloseErrMissing ==
    /\ inPc = "closeErr"
    /\ inPc' = "closeOut"
    /\ UNCHANGED <<closed, offer, pend, ctxDone, provVars, brVars, inBase, inErr,
                   inFail, metrics, hVars, req>>

InstrCloseErr ==
    /\ inPc = "closeErr"
    /\ Close("outErr")
    /\ inPc' = "closeOut"
    /\ UNCHANGED <<offer, pend, ctxDone, provVars, brVars, inBase, inErr,
                   inFail, metrics, hVars, req>>

InstrCloseOut ==
    /\ inPc = "closeOut"
    /\ Close("out")
    /\ inPc' = "exited"
    /\ UNCHANGED <<offer, pend, ctxDone, provVars, brVars, inBase, inErr,
                   inFail, metrics, hVars, req>>

Instrument ==
    \/ InstrDelta \/ InstrForwarded \/ InstrDeltaClosed \/ InstrErr
    \/ InstrErrClosed \/ InstrRecordMetrics \/ InstrCloseErr \/ InstrCloseOut

(***************************************************************************)
(* Handler                                                                 *)
(***************************************************************************)
(* response.in_progress is sent and GenerateStream called.  The breaker    *)
(* admits the stream, which starts the provider and breaker goroutines ... *)
HandlerAdmitted ==
    /\ hPc = "start"
    /\ hPc' = "loop"
    /\ provPc' = "stream"
    /\ brPc' = "wait"
    /\ inPc' = IF req.observability THEN "select" ELSE "idle"
    /\ UNCHANGED <<offer, pend, closed, ctxDone, sent, upstream, brErr,
                   outcome, inBase, inErr, inFail, metrics, hErr, hBad, got,
                   received, terminal, stored, recorded, req>>

(* ... or refuses it, and returns channels that are closed already.        *)
HandlerRefused ==
    /\ hPc = "start"
    /\ hPc' = "loop"
    /\ PutErr("wrapped", "open")
    /\ closed' = closed \cup {"delta", "wrapped"}
    /\ inPc' = IF req.observability THEN "select" ELSE "idle"
    /\ UNCHANGED <<offer, ctxDone, provVars, brVars, inBase, inErr, inFail,
                   metrics, hErr, hBad, got, received, terminal, stored,
                   recorded, req>>

(* A content delta: an undeclared tool name ends the loop. *)
HandlerContent ==
    /\ hPc = "loop"
    /\ offer[HandlerDelta] \in Content
    /\ Withdraw(HandlerDelta)
    /\ got' = got \cup {offer[HandlerDelta]}
    /\ hBad' = (offer[HandlerDelta] = "badtool")
    /\ received' = received + 1
    /\ hPc' = IF offer[HandlerDelta] = "badtool" THEN "finish" ELSE "loop"
    /\ UNCHANGED <<pend, closed, ctxDone, provVars, brVars, inVars, hErr,
                   terminal, stored, recorded, req>>

(* The Done delta ends the loop. *)
HandlerDone ==
    /\ hPc = "loop"
    /\ offer[HandlerDelta] = "done"
    /\ Withdraw(HandlerDelta)
    /\ hPc' = "finish"
    /\ UNCHANGED <<pend, closed, ctxDone, provVars, brVars, inVars, hErr, hBad,
                   got, received, terminal, stored, recorded, req>>

(* Faulty variant: errChan is not drained. *)
HandlerDeltaClosedNoDrain ==
    /\ hPc = "loop"
    /\ ClosedEmpty(HandlerDelta)
    /\ hPc' = "finish"
    /\ UNCHANGED <<offer, pend, closed, ctxDone, provVars, brVars, inVars,
                   hErr, hBad, got, received, terminal, stored, recorded, req>>

(* deltaChan is closed: the handler now waits for errChan alone. *)
HandlerDeltaClosed ==
    /\ hPc = "loop"
    /\ ClosedEmpty(HandlerDelta)
    /\ hPc' = "awaitErr"
    /\ UNCHANGED <<offer, pend, closed, ctxDone, provVars, brVars, inVars,
                   hErr, hBad, got, received, terminal, stored, recorded, req>>

(* errChan delivers an error, in the loop or after it ... *)
HandlerRecvErr ==
    /\ hPc \in {"loop", "awaitErr"}
    /\ HasErr(HandlerErr)
    /\ hErr' = pend[HandlerErr]
    /\ DropErr(HandlerErr)
    /\ hPc' = "finish"
    /\ UNCHANGED <<offer, closed, ctxDone, provVars, brVars, inVars, hBad, got,
                   received, terminal, stored, recorded, req>>

(* ... or is closed: the loop ends without an error. *)
HandlerErrClosed ==
    /\ hPc \in {"loop", "awaitErr"}
    /\ ErrClosed(HandlerErr)
    /\ hPc' = "finish"
    /\ UNCHANGED <<offer, pend, closed, ctxDone, provVars, brVars, inVars,
                   hErr, hBad, got, received, terminal, stored, recorded, req>>

(* <-r.Context().Done(): the handler returns without a terminal event. *)
HandlerCtxDone ==
    /\ hPc = "loop"
    /\ ctxDone
    /\ hPc' = "returned"
    /\ UNCHANGED <<offer, pend, closed, ctxDone, provVars, brVars, inVars,
                   hErr, hBad, got, received, terminal, stored, recorded, req>>

(* validateToolCalls: tool_choice demanded a call and none was made. *)
ToolCallMissing == req.toolRequired /\ "tool" \notin got

(* response.failed is sent, then [DONE]. *)
HandlerFail ==
    /\ hPc = "finish"
    /\ hErr # None \/ hBad \/ ToolCallMissing
    /\ terminal' = "failed"
    /\ hPc' = "returned"
    /\ UNCHANGED <<offer, pend, closed, ctxDone, provVars, brVars, inVars,
                   hErr, hBad, got, received, stored, recorded, req>>

(* response.completed is sent, then [DONE]: before anything is stored. *)
HandlerComplete ==
    /\ hPc = "finish"
    /\ hErr = None /\ ~hBad /\ ~ToolCallMissing
    /\ terminal' = "completed"
    /\ hPc' = "store"
    /\ UNCHANGED <<offer, pend, closed, ctxDone, provVars, brVars, inVars,
                   hErr, hBad, got, received, stored, recorded, req>>

(* Faulty variant: an error of Create ends the request. *)
HandlerStoreFailsRequest ==
    /\ hPc = "store"
    /\ \/ req.store /\ got \cap {"text", "tool"} # {} /\ stored' = TRUE
       \/ UNCHANGED stored
    /\ hPc' = IF req.store /\ ~stored' THEN "returned" ELSE "record"
    /\ UNCHANGED <<offer, pend, closed, ctxDone, provVars, brVars, inVars,
                   hErr, hBad, got, received, terminal, recorded, req>>

(* The conversation is created, unless there is nothing to keep.  Create   *)
(* may fail (it also runs under r.Context()); the error is only logged.    *)
HandlerStore ==
    /\ hPc = "store"
    /\ \/ req.store /\ got \cap {"text", "tool"} # {} /\ stored' = TRUE
       \/ UNCHANGED stored
    /\ hPc' = "record"
    /\ UNCHANGED <<offer, pend, closed, ctxDone, provVars, brVars, inVars,
                   hErr, hBad, got, received, terminal, recorded, req>>

(* Quota and usage accounting; buildResponseWithOutput always sets Usage. *)
HandlerRecord ==
    /\ hPc = "record"
    /\ recorded' = TRUE
    /\ hPc' = "returned"
    /\ UNCHANGED <<offer, pend, closed, ctxDone, provVars, brVars, inVars,
                   hErr, hBad, got, received, terminal, stored, req>>

HandlerReceive ==
    \/ HandlerContent \/ HandlerDone \/ HandlerDeltaClosed
    \/ HandlerRecvErr \/ HandlerErrClosed \/ HandlerCtxDone

Handler ==
    \/ HandlerAdmitted \/ HandlerRefused \/ HandlerReceive
    \/ HandlerFail \/ HandlerComplete \/ HandlerStore \/ HandlerRecord

(***************************************************************************)
(* Request context: cancelled when the client goes away, or by net/http    *)
(* once the handler has returned.                                          *)
(***************************************************************************)
CancelCtx ==
    /\ ~ctxDone
    /\ ctxDone' = TRUE
    /\ UNCHANGED <<offer, pend, closed, provVars, brVars, inVars, hVars, req>>

ClientDisconnect == hPc # "returned" /\ CancelCtx

RequestEnd == hPc = "returned" /\ CancelCtx

(* The request is over and every goroutine that can still move has exited. *)
Terminated ==
    /\ hPc = "returned" /\ ctxDone
    /\ provPc \in {"idle", "exited"}
    /\ brPc \in {"idle", "exited"}
    /\ inPc \in {"idle", "forward", "exited"}
    /\ UNCHANGED vars

Next ==
    \/ Provider \/ Breaker \/ Instrument \/ Handler
    \/ ClientDisconnect \/ RequestEnd \/ Terminated

(* What the provider goroutine does without the help of the upstream. *)
ProviderLocal ==
    \/ ProviderAbort \/ ProviderSent \/ ProviderCtxDone
    \/ ProviderCloseErr \/ ProviderCloseDelta

(***************************************************************************)
(* Goroutines that can run are scheduled.  Nothing is assumed of the       *)
(* upstream (it may stall forever) nor of the client.                      *)
(***************************************************************************)
Fairness ==
    /\ WF_vars(ProviderLocal)
    /\ WF_vars(Breaker)
    /\ WF_vars(Instrument)
    /\ WF_vars(Handler)
    /\ WF_vars(RequestEnd)

Spec == Init /\ [][Next]_vars /\ Fairness

(***************************************************************************)
(* Properties                                                              *)
(***************************************************************************)
FlagsOK ==
    /\ ctxDone \in BOOLEAN
    /\ inBase \in BOOLEAN /\ inErr \in BOOLEAN /\ inFail \in BOOLEAN
    /\ hBad \in BOOLEAN /\ stored \in BOOLEAN /\ recorded \in BOOLEAN

TypeOK ==
    /\ FlagsOK
    /\ offer \in [DeltaChans -> Delta \cup {None}]
    /\ pend \in [ErrChans -> Error \cup {None}]
    /\ closed \subseteq DeltaChans \cup ErrChans
    /\ provPc \in {"idle", "stream", "send", "sendDone", "closeErr", "closeDelta", "exited"}
    /\ sent \in 0 .. MaxDeltas
    /\ upstream \in {"running", "finished", "failed", "cancelled"}
    /\ brPc \in {"idle", "wait", "forward", "close", "exited"}
    /\ brErr \in Error \cup {None}
    /\ outcome \in {None, "success", "failure"}
    /\ inPc \in {"idle", "select", "forward", "closeErr", "closeOut", "exited"}
    /\ metrics \in {None, "success", "error"}
    /\ hPc \in {"start", "loop", "awaitErr", "finish", "store", "record", "returned"}
    /\ hErr \in Error \cup {None}
    /\ got \in SUBSET Content
    /\ received \in Nat
    /\ terminal \in {None, "failed", "completed"}
    /\ req \in Request

(* A client is told response.completed only for a stream that the upstream *)
(* finished without an error: handleStreamingResponse must not miss an     *)
(* error that the provider goroutine reported.                             *)
CompletedOnlyIfUpstreamFinished ==
    terminal = "completed" => upstream = "finished"

(* Without the instrumenting goroutine it misses none, in any order of the *)
(* closing of deltaChan and the forwarding of the error.                   *)
DirectErrorNotMissed ==
    ~req.observability => CompletedOnlyIfUpstreamFinished

(* No content delta is lost, repeated or overtaken by the end of the       *)
(* stream on its way through the channels.                                 *)
CompletedAnswerIsWhole ==
    terminal = "completed" /\ upstream = "finished" => received = sent

(* The breaker counts a success only for a stream that the upstream        *)
(* finished and whose Done delta was taken.                                *)
SuccessOnlyIfDelivered ==
    outcome = "success" => upstream = "finished" /\ Taken("delta")

(* The error channels have capacity 1 and their senders no alternative: a  *)
(* sender always finds room and an open channel (a send on a closed        *)
(* channel panics, a full one blocks the goroutine for good).              *)
ErrorSendNeverBlocks ==
    LET Room(c) == pend[c] = None /\ c \notin closed
    IN  /\ provPc \in {"stream", "send", "sendDone"} => Room("err")
        /\ brPc \in {"wait", "forward"} => Room("wrapped")
        /\ inPc = "select" /\ inErr => Room("outErr")

(* The status in the metrics is the one that the client was told: no error *)
(* reaches the handler from a stream counted as a success, and no stream   *)
(* counted as an error is reported as completed.                           *)
MetricsAgreeWithClient ==
    /\ metrics = "success" => hErr = None
    /\ metrics = "error" => terminal # "completed"

(* However the handler ends, the slot taken by cb.Allow() is given back:   *)
(* in the half-open state a slot that is kept is lost for good.            *)
SlotReturned == hPc = "returned" ~> brPc \in {"idle", "exited"}

(* A client that goes away ends the handler, also while the upstream       *)
(* stalls and in the receive from errChan that has no ctx.Done() case.     *)
DisconnectEndsHandler == ctxDone ~> hPc = "returned"

(* A completed response is accounted for whether or not it could be        *)
(* stored.  With the instrumenting goroutine every stream ends up in the   *)
(* metrics, the abandoned ones too, but for one case: the handler returned *)
(* while that goroutine held a delta, and its send has no ctx.Done() case. *)
StreamIsAccounted ==
    /\ terminal = "completed" ~> recorded /\ (req.observability => metrics # None)
    /\ hPc = "returned" /\ req.observability ~> metrics # None \/ inPc = "forward"
=============================================================================
