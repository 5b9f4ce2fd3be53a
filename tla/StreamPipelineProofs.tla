------------------------ MODULE StreamPipelineProofs ------------------------
(***************************************************************************)
(* Theorems about StreamPipeline, for every MaxDeltas, and about the       *)
(* events that the handler sends (SSEStream), for every stream of the      *)
(* providers (ProviderStreams).                                            *)
(***************************************************************************)
EXTENDS StreamPipeline, ProviderStreams, FiniteSetTheorems, TLAPS

(* The provider goroutine: where it stands tells how the upstream stands,  *)
(* and errChan is written at most once, before it is closed.               *)
ProviderInv ==
    /\ provPc \in {"idle", "stream", "send", "sendDone"} =>
         pend["err"] = None /\ "err" \notin closed
    /\ provPc = "closeErr" => "err" \notin closed
    /\ provPc \in {"idle", "stream", "send"} => upstream = "running"
    /\ provPc \in {"idle", "stream"} => Taken("delta")
    /\ provPc = "sendDone" =>
         upstream = "finished" /\ offer["delta"] \in {"done", None}
    /\ provPc \in {"closeErr", "closeDelta", "exited"} => Taken("delta")
    /\ offer["delta"] = "done" => provPc = "sendDone"
    /\ upstream = "finished" => provPc \notin {"idle", "stream", "send"}

(* The breaker goroutine: as long as it waits, an exited provider without  *)
(* a pending error is one that delivered its Done delta.                   *)
BreakerInv ==
    /\ brPc = "idle" <=> provPc = "idle"
    /\ brPc = "idle" => outcome = None
    /\ brPc = "wait" /\ pend["err"] = None
         /\ provPc \in {"closeErr", "closeDelta", "exited"} => upstream = "finished"
    /\ brPc = "wait" => outcome = None
    /\ brPc = "forward" => outcome = "failure" /\ brErr # None
    /\ brPc \in {"wait", "forward"} =>
         pend["wrapped"] = None /\ "wrapped" \notin closed
    /\ outcome = "success" =>
         upstream = "finished" /\ provPc \in {"closeErr", "closeDelta", "exited"}
    /\ "wrapped" \in closed => brPc \in {"idle", "exited"}
    /\ hPc = "start" =>
         brPc = "idle" /\ pend["wrapped"] = None /\ "wrapped" \notin closed

(* The instrumenting goroutine: as long as it still listens to baseErrChan *)
(* it has forwarded no error.                                              *)
InstrInv ==
    /\ hPc = "start" => inPc = "idle"
    /\ inPc \in {"idle", "select", "forward"} /\ inErr => pend["outErr"] = None
    /\ inPc \in {"idle", "select", "forward", "closeErr"} => "outErr" \notin closed

VerdictInv == ProviderInv /\ BreakerInv /\ InstrInv

(* The handler, reading the breaker's channels directly: until it has      *)
(* received an error, one that was reported is still ahead of it.          *)
DirectCore ==
    /\ inPc = "idle"
    /\ hPc = "start" => terminal = None /\ hErr = None
    /\ hPc \in {"loop", "awaitErr"} =>
         /\ terminal = None /\ hErr = None
         /\ pend["wrapped"] = None
              /\ (brPc \in {"close", "exited"} \/ "wrapped" \in closed) =>
              outcome = "success"
    /\ hPc = "finish" => terminal = None
    /\ hPc \in {"finish", "store", "record"} /\ hErr = None /\ ~hBad =>
         upstream = "finished"
    /\ terminal = "completed" => upstream = "finished"

DirectInv == ~req.observability => DirectCore

(* Every value stays in its type: error channels carry errors, delta       *)
(* channels deltas, and the number of produced deltas its bound.           *)
THEOREM TypeCorrect == Spec => []TypeOK
<1> USE PipelineAssumption
    DEF PipelineAssumption, None, Request, Content, Delta, Error, DeltaChans, ErrChans
<1>1. Init => TypeOK
  <2> SUFFICES ASSUME Init PROVE TypeOK
    OBVIOUS
  <2>1. FlagsOK
    BY DEF Init, FlagsOK
  <2> QED
    BY <2>1 DEF Init, TypeOK
<1>2. TypeOK /\ [Next]_vars => TypeOK'
  <2> SUFFICES ASSUME TypeOK, [Next]_vars
               PROVE  TypeOK'
    OBVIOUS
  <2> USE DEF TypeOK, provVars, brVars, inVars, hVars
  <2>1. CASE ProviderChunk
    BY <2>1 DEF ProviderChunk, Offer, FlagsOK
  <2>2. CASE ProviderEnd
    BY <2>2 DEF ProviderEnd, Offer, FlagsOK
  <2>3. CASE ProviderFail
    BY <2>3 DEF ProviderFail, PutErr, FlagsOK
  <2>4. CASE ProviderAbort
    BY <2>4 DEF ProviderAbort, PutErr, FlagsOK
  <2>5. CASE ProviderSent
    BY <2>5 DEF ProviderSent, FlagsOK
  <2>6. CASE ProviderCtxDone
    BY <2>6 DEF ProviderCtxDone, Withdraw, PutErr, FlagsOK
  <2>7. CASE ProviderCloseErr
    BY <2>7 DEF ProviderCloseErr, Close, FlagsOK
  <2>8. CASE ProviderCloseDelta
    BY <2>8 DEF ProviderCloseDelta, Close, FlagsOK
  <2>9. CASE BreakerFailure
    BY <2>9 DEF BreakerFailure, HasErr, DropErr, FlagsOK
  <2>10. CASE BreakerSuccess
    BY <2>10 DEF BreakerSuccess, FlagsOK
  <2>11. CASE BreakerForward
    BY <2>11 DEF BreakerForward, PutErr, FlagsOK
  <2>12. CASE BreakerClose
    BY <2>12 DEF BreakerClose, Close, FlagsOK
  <2>13. CASE InstrDelta
    BY <2>13 DEF InstrDelta, FlagsOK
  <2>14. CASE InstrForwarded
    BY <2>14 DEF InstrForwarded, FlagsOK
  <2>15. CASE InstrDeltaClosed
    <3>1. FlagsOK'
      BY <2>15 DEF InstrDeltaClosed, FlagsOK
    <3> QED
      BY <2>15, <3>1 DEF InstrDeltaClosed, MoveErr, HasErr
  <2>16. CASE InstrErr
    <3>1. FlagsOK'
      BY <2>16 DEF InstrErr, FlagsOK
    <3> QED
      BY <2>16, <3>1 DEF InstrErr, MoveErr, HasErr
  <2>17. CASE InstrErrClosed
    <3>1. FlagsOK'
      BY <2>17 DEF InstrErrClosed, FlagsOK
    <3> QED
      BY <2>17, <3>1 DEF InstrErrClosed
  <2>18. CASE InstrRecordMetrics
    BY <2>18 DEF InstrRecordMetrics, FlagsOK
  <2>19. CASE InstrCloseErr
    BY <2>19 DEF InstrCloseErr, Close, FlagsOK
  <2>20. CASE InstrCloseOut
    BY <2>20 DEF InstrCloseOut, Close, FlagsOK
  <2>21. CASE HandlerAdmitted
    BY <2>21 DEF HandlerAdmitted, FlagsOK
  <2>22. CASE HandlerRefused
    BY <2>22 DEF HandlerRefused, PutErr, FlagsOK
  <2>23. CASE HandlerContent
    <3> USE <2>23 DEF HandlerContent, Withdraw, HandlerDelta
    <3>1. FlagsOK'
      BY DEF FlagsOK
    <3>2. offer' \in [DeltaChans -> Delta \cup {None}] /\ got' \in SUBSET Content
      OBVIOUS
    <3> QED
      BY <3>1, <3>2
  <2>24. CASE HandlerDone
    BY <2>24 DEF HandlerDone, Withdraw, HandlerDelta, FlagsOK
  <2>25. CASE HandlerDeltaClosed
    BY <2>25 DEF HandlerDeltaClosed, FlagsOK
  <2>26. CASE HandlerRecvErr
    BY <2>26 DEF HandlerRecvErr, DropErr, HandlerErr, FlagsOK
  <2>27. CASE HandlerErrClosed
    BY <2>27 DEF HandlerErrClosed, FlagsOK
  <2>28. CASE HandlerCtxDone
    BY <2>28 DEF HandlerCtxDone, FlagsOK
  <2>29. CASE HandlerFail
    BY <2>29 DEF HandlerFail, FlagsOK
  <2>30. CASE HandlerComplete
    BY <2>30 DEF HandlerComplete, FlagsOK
  <2>31. CASE HandlerStore
    <3>1. FlagsOK'
      BY <2>31 DEF HandlerStore, FlagsOK
    <3> QED
      BY <2>31, <3>1 DEF HandlerStore
  <2>32. CASE HandlerRecord
    BY <2>32 DEF HandlerRecord, FlagsOK
  <2>33. CASE CancelCtx
    <3>1. FlagsOK'
      BY <2>33 DEF CancelCtx, FlagsOK
    <3> QED
      BY <2>33, <3>1 DEF CancelCtx
  <2>34. CASE UNCHANGED vars
    <3>1. FlagsOK'
      BY <2>34 DEF vars, FlagsOK
    <3> QED
      BY <2>34, <3>1 DEF vars
  <2> QED
    BY <2>1, <2>2, <2>3, <2>4, <2>5, <2>6, <2>7, <2>8, <2>9, <2>10, <2>11,
       <2>12, <2>13, <2>14, <2>15, <2>16, <2>17, <2>18, <2>19, <2>20, <2>21,
       <2>22, <2>23, <2>24, <2>25, <2>26, <2>27, <2>28, <2>29, <2>30, <2>31,
       <2>32, <2>33, <2>34
       DEF Next, Provider, Breaker, Instrument, Handler, HandlerReceive,
           ClientDisconnect, RequestEnd, Terminated
<1> QED
  BY <1>1, <1>2, PTL DEF Spec

(* Nothing is sent and no verdict given at the start. *)
LEMMA VerdictInitial == Init => VerdictInv
  BY DEF Init, VerdictInv, ProviderInv, BreakerInv, InstrInv, Taken, None,
         DeltaChans, ErrChans

(* Every step of every goroutine keeps the verdicts in line with what was  *)
(* sent.                                                                   *)
LEMMA VerdictStep == TypeOK /\ VerdictInv /\ [Next]_vars => VerdictInv'
<1> SUFFICES ASSUME TypeOK, VerdictInv, [Next]_vars
             PROVE  VerdictInv'
  OBVIOUS
<1> USE DEF TypeOK, VerdictInv, ProviderInv, BreakerInv, InstrInv, Taken, None,
        Content, Delta, Error, DeltaChans, ErrChans, provVars, brVars, inVars, hVars
<1>1. CASE ProviderChunk
  BY <1>1 DEF ProviderChunk, Offer
<1>2. CASE ProviderEnd
  BY <1>2 DEF ProviderEnd, Offer
<1>3. CASE ProviderFail
  BY <1>3 DEF ProviderFail, PutErr
<1>4. CASE ProviderAbort
  BY <1>4 DEF ProviderAbort, PutErr
<1>5. CASE ProviderSent
  BY <1>5 DEF ProviderSent
<1>6. CASE ProviderCtxDone
  BY <1>6 DEF ProviderCtxDone, Withdraw, PutErr, Ready
<1>7. CASE ProviderCloseErr
  BY <1>7 DEF ProviderCloseErr, Close
<1>8. CASE ProviderCloseDelta
  BY <1>8 DEF ProviderCloseDelta, Close
<1>9. CASE BreakerFailure
  BY <1>9 DEF BreakerFailure, HasErr, DropErr
<1>10. CASE BreakerSuccess
  BY <1>10 DEF BreakerSuccess, ErrClosed
<1>11. CASE BreakerForward
  BY <1>11 DEF BreakerForward, PutErr
<1>12. CASE BreakerClose
  BY <1>12 DEF BreakerClose, Close
<1>13. CASE InstrDelta
  BY <1>13 DEF InstrDelta, Ready
<1>14. CASE InstrForwarded
  BY <1>14 DEF InstrForwarded
<1>15. CASE InstrDeltaClosed
  BY <1>15 DEF InstrDeltaClosed, MoveErr, HasErr
<1>16. CASE InstrErr
  BY <1>16 DEF InstrErr, MoveErr, HasErr
<1>17. CASE InstrErrClosed
  BY <1>17 DEF InstrErrClosed
<1>18. CASE InstrRecordMetrics
  BY <1>18 DEF InstrRecordMetrics
<1>19. CASE InstrCloseErr
  BY <1>19 DEF InstrCloseErr, Close
<1>20. CASE InstrCloseOut
  BY <1>20 DEF InstrCloseOut, Close
<1>21. CASE HandlerAdmitted
  BY <1>21 DEF HandlerAdmitted
<1>22. CASE HandlerRefused
  BY <1>22 DEF HandlerRefused, PutErr
<1>23. CASE HandlerContent
  BY <1>23 DEF HandlerContent, Withdraw, HandlerDelta
<1>24. CASE HandlerDone
  BY <1>24 DEF HandlerDone, Withdraw, HandlerDelta
<1>25. CASE HandlerDeltaClosed
  BY <1>25 DEF HandlerDeltaClosed
<1>26. CASE HandlerRecvErr
  BY <1>26 DEF HandlerRecvErr, DropErr, HandlerErr
<1>27. CASE HandlerErrClosed
  BY <1>27 DEF HandlerErrClosed
<1>28. CASE HandlerCtxDone
  BY <1>28 DEF HandlerCtxDone
<1>29. CASE HandlerFail
  BY <1>29 DEF HandlerFail
<1>30. CASE HandlerComplete
  BY <1>30 DEF HandlerComplete
<1>31. CASE HandlerStore
  BY <1>31 DEF HandlerStore
<1>32. CASE HandlerRecord
  BY <1>32 DEF HandlerRecord
<1>33. CASE CancelCtx
  BY <1>33 DEF CancelCtx
<1>34. CASE UNCHANGED vars
  BY <1>34 DEF vars
<1> QED
  BY <1>1, <1>2, <1>3, <1>4, <1>5, <1>6, <1>7, <1>8, <1>9, <1>10, <1>11,
     <1>12, <1>13, <1>14, <1>15, <1>16, <1>17, <1>18, <1>19, <1>20, <1>21,
     <1>22, <1>23, <1>24, <1>25, <1>26, <1>27, <1>28, <1>29, <1>30, <1>31,
     <1>32, <1>33, <1>34
     DEF Next, Provider, Breaker, Instrument, Handler, HandlerReceive,
         ClientDisconnect, RequestEnd, Terminated

(* What the breaker is told is what happened: it counts a success only for *)
(* a stream that was finished and delivered (circuitbreaker.go, done(true) *)
(* when errChan is closed without an error).                               *)
THEOREM VerdictSound == Spec => []SuccessOnlyIfDelivered
<1>1. VerdictInv => SuccessOnlyIfDelivered
  BY DEF VerdictInv, ProviderInv, BreakerInv, SuccessOnlyIfDelivered
<1> QED
  BY TypeCorrect, VerdictInitial, VerdictStep, <1>1, PTL DEF Spec

(* None of the three senders of an error can block for good or panic.      *)
THEOREM ErrorSendsSafe == Spec => []ErrorSendNeverBlocks
<1>1. VerdictInv => ErrorSendNeverBlocks
  BY DEF VerdictInv, ProviderInv, BreakerInv, InstrInv, ErrorSendNeverBlocks
<1> QED
  BY TypeCorrect, VerdictInitial, VerdictStep, <1>1, PTL DEF Spec

(* The request does not change while it is served. *)
LEMMA RequestConstant == [Next]_vars => req' = req
BY DEF Next, vars, Provider, ProviderChunk, ProviderEnd, ProviderFail, ProviderAbort,
       ProviderSent, ProviderCtxDone, ProviderCloseErr, ProviderCloseDelta, Breaker,
       BreakerFailure, BreakerSuccess, BreakerForward, BreakerClose, Instrument,
       InstrDelta, InstrForwarded, InstrDeltaClosed, InstrErr, InstrErrClosed,
       InstrRecordMetrics, InstrCloseErr, InstrCloseOut, Handler, HandlerReceive,
       HandlerAdmitted, HandlerRefused, HandlerContent, HandlerDone,
       HandlerDeltaClosed, HandlerRecvErr, HandlerErrClosed, HandlerCtxDone,
       HandlerFail, HandlerComplete, HandlerStore, HandlerRecord, CancelCtx,
       ClientDisconnect, RequestEnd, Terminated

(* Every step keeps the shape of a pipeline with goroutines left out. *)
LEMMA DirectStep ==
    TypeOK /\ VerdictInv /\ DirectInv /\ [Next]_vars => DirectInv'
<1> SUFFICES ASSUME TypeOK, VerdictInv, DirectCore, [Next]_vars, ~req.observability
             PROVE  DirectCore'
  BY RequestConstant DEF DirectInv
<1> USE DEF TypeOK, FlagsOK, VerdictInv, ProviderInv, BreakerInv, DirectCore, Taken, None,
        Content, Delta, Error, DeltaChans, ErrChans, provVars, brVars, inVars, hVars
<1>1. CASE ProviderChunk
  BY <1>1 DEF ProviderChunk, Offer
<1>2. CASE ProviderEnd
  BY <1>2 DEF ProviderEnd, Offer
<1>3. CASE ProviderFail
  BY <1>3 DEF ProviderFail, PutErr
<1>4. CASE ProviderAbort
  BY <1>4 DEF ProviderAbort, PutErr
<1>5. CASE ProviderSent
  BY <1>5 DEF ProviderSent
<1>6. CASE ProviderCtxDone
  BY <1>6 DEF ProviderCtxDone, Withdraw, PutErr, Ready
<1>7. CASE ProviderCloseErr
  BY <1>7 DEF ProviderCloseErr, Close
<1>8. CASE ProviderCloseDelta
  BY <1>8 DEF ProviderCloseDelta, Close
<1>9. CASE BreakerFailure
  BY <1>9 DEF BreakerFailure, HasErr, DropErr
<1>10. CASE BreakerSuccess
  BY <1>10 DEF BreakerSuccess, ErrClosed
<1>11. CASE BreakerForward
  BY <1>11 DEF BreakerForward, PutErr
<1>12. CASE BreakerClose
  BY <1>12 DEF BreakerClose, Close
<1>13. CASE HandlerAdmitted
  BY <1>13 DEF HandlerAdmitted
<1>14. CASE HandlerRefused
  BY <1>14 DEF HandlerRefused, PutErr
<1>15. CASE HandlerContent
  BY <1>15 DEF HandlerContent, Withdraw, HandlerDelta
<1>16. CASE HandlerDone
  BY <1>16 DEF HandlerDone, Withdraw, HandlerDelta
<1>17. CASE HandlerDeltaClosed
  BY <1>17 DEF HandlerDeltaClosed
<1>18. CASE HandlerRecvErr
  BY <1>18 DEF HandlerRecvErr, DropErr, HandlerErr, HasErr
<1>19. CASE HandlerErrClosed
  BY <1>19 DEF HandlerErrClosed, ErrClosed, HandlerErr
<1>20. CASE HandlerCtxDone
  BY <1>20 DEF HandlerCtxDone
<1>21. CASE HandlerFail
  BY <1>21 DEF HandlerFail
<1>22. CASE HandlerComplete
  BY <1>22 DEF HandlerComplete
<1>23. CASE HandlerStore
  BY <1>23 DEF HandlerStore
<1>24. CASE HandlerRecord
  BY <1>24 DEF HandlerRecord
<1>25. CASE CancelCtx
  BY <1>25 DEF CancelCtx
<1>26. CASE UNCHANGED vars
  BY <1>26 DEF vars
<1>27. ~Instrument
  BY DEF Instrument, InstrDelta, InstrForwarded, InstrDeltaClosed, InstrErr,
         InstrErrClosed, InstrRecordMetrics, InstrCloseErr, InstrCloseOut
<1> QED
  BY <1>1, <1>2, <1>3, <1>4, <1>5, <1>6, <1>7, <1>8, <1>9, <1>10, <1>11,
     <1>12, <1>13, <1>14, <1>15, <1>16, <1>17, <1>18, <1>19, <1>20, <1>21,
     <1>22, <1>23, <1>24, <1>25, <1>26, <1>27
     DEF Next, Provider, Breaker, Handler, HandlerReceive,
         ClientDisconnect, RequestEnd, Terminated

(* Without the instrumenting goroutine no error gets lost: the handler     *)
(* sends response.completed only if the upstream finished its stream.      *)
THEOREM DirectCompletion == Spec => []DirectErrorNotMissed
<1>1. Init => DirectInv
  BY DEF Init, DirectInv, DirectCore, None, ErrChans
<1>2. DirectInv => DirectErrorNotMissed
  BY DEF DirectInv, DirectCore, DirectErrorNotMissed, CompletedOnlyIfUpstreamFinished
<1> QED
  BY TypeCorrect, VerdictInitial, VerdictStep, DirectStep, <1>1, <1>2, PTL DEF Spec

-----------------------------------------------------------------------------
(* Content deltas on channel c. *)
InFlight(c) == IF offer[c] \in Content THEN 1 ELSE 0

(* The Done delta was taken: no error is left anywhere that the            *)
(* instrumenting goroutine could still receive.                            *)
Delivered ==
    /\ upstream = "finished" /\ Taken("delta")
    /\ pend["err"] = None /\ outcome # "failure" /\ pend["wrapped"] = None

(* Where deltas are, and what the closing of a channel tells about its     *)
(* sender.  As long as the provider has reported no error, every content   *)
(* delta was received by the handler or is offered on a channel.           *)
ChannelInv ==
    /\ provPc \in {"stream", "send", "sendDone"} => brPc = "wait"
    /\ hPc = "start" => provPc = "idle"
    /\ "delta" \in closed => provPc \in {"idle", "exited"} /\ hPc # "start"
    /\ ~req.observability => inPc = "idle"
    /\ inPc # "forward" => Taken("out")
    /\ ~inErr \/ inFail => hPc # "start" /\ inPc # "idle"
    /\ ~inBase /\ ~inFail => "delta" \in closed
    /\ inFail => ~inBase
    /\ inFail /\ hPc \in {"loop", "awaitErr"} => pend["outErr"] # None
    /\ offer["out"] = "done" => Delivered
    /\ inPc \in {"closeErr", "closeOut", "exited"} => ~inBase
    /\ "outErr" \in closed => inPc \in {"closeOut", "exited"}
    /\ provPc \in {"idle", "stream", "send", "sendDone"} \/ upstream = "finished" =>
         sent = received + InFlight("delta") + InFlight("out")

(* The handler has left its loop without an error: it will send            *)
(* response.completed, unless a required tool call is missing, or did so.  *)
Completing ==
    /\ hPc \in {"finish", "store", "record"} \/ terminal = "completed"
    /\ hErr = None /\ ~hBad

(* A handler that completes its response does so after the last content    *)
(* delta.                                                                  *)
EndingInv ==
    /\ hPc \in {"start", "loop", "awaitErr"} => terminal = None /\ hErr = None /\ ~hBad
    /\ hPc = "finish" => terminal = None
    /\ terminal = "completed" => hErr = None /\ ~hBad
    /\ Completing => /\ provPc \notin {"stream", "send"}
                     /\ upstream = "finished" => received = sent

(* The instrumenting goroutine counts an error exactly if it passes one    *)
(* on, and then the handler cannot complete.                               *)
MetricsInv ==
    /\ req.observability /\ (hErr # None \/ pend["outErr"] # None) => inFail
    /\ metrics # None => inPc \in {"closeErr", "closeOut", "exited"}
    /\ metrics = "success" => ~inFail
    /\ metrics = "error" => inFail
    /\ offer["out"] = "done" => ~inFail
    /\ req.observability /\ Completing =>
         ~inFail /\ (Delivered \/ inPc \in {"closeErr", "closeOut", "exited"})

(* Every step keeps the channels' accounts: what is in flight is what was  *)
(* sent and not yet received.                                              *)
LEMMA ChannelStep ==
    TypeOK /\ VerdictInv /\ ChannelInv /\ [Next]_vars => ChannelInv'
<1> SUFFICES ASSUME TypeOK, VerdictInv, ChannelInv, [Next]_vars
             PROVE  ChannelInv'
  OBVIOUS
<1> USE PipelineAssumption DEF TypeOK, FlagsOK, VerdictInv, ProviderInv, BreakerInv, InstrInv, Taken, None, Request,
        Content, Delta, Error, DeltaChans, ErrChans, provVars, brVars, inVars, hVars,
        ChannelInv, InFlight, Delivered, PipelineAssumption
<1>1. CASE ProviderChunk
  BY <1>1 DEF ProviderChunk, Offer
<1>2. CASE ProviderEnd
  BY <1>2 DEF ProviderEnd, Offer
<1>3. CASE ProviderFail
  BY <1>3 DEF ProviderFail, PutErr
<1>4. CASE ProviderAbort
  BY <1>4 DEF ProviderAbort, PutErr
<1>5. CASE ProviderSent
  BY <1>5 DEF ProviderSent
<1>6. CASE ProviderCtxDone
  BY <1>6 DEF ProviderCtxDone, Withdraw, PutErr, Ready
<1>7. CASE ProviderCloseErr
  BY <1>7 DEF ProviderCloseErr, Close
<1>8. CASE ProviderCloseDelta
  BY <1>8 DEF ProviderCloseDelta, Close
<1>9. CASE BreakerFailure
  BY <1>9 DEF BreakerFailure, HasErr, DropErr
<1>10. CASE BreakerSuccess
  BY <1>10 DEF BreakerSuccess, ErrClosed
<1>11. CASE BreakerForward
  BY <1>11 DEF BreakerForward, PutErr
<1>12. CASE BreakerClose
  BY <1>12 DEF BreakerClose, Close
<1>13. CASE InstrDelta
  BY <1>13 DEF InstrDelta, Ready
<1>14. CASE InstrForwarded
  BY <1>14 DEF InstrForwarded
<1>15. CASE InstrDeltaClosed
  BY <1>15 DEF InstrDeltaClosed, MoveErr, HasErr, ClosedEmpty
<1>16. CASE InstrErr
  BY <1>16 DEF InstrErr, MoveErr, HasErr
<1>17. CASE InstrErrClosed
  BY <1>17 DEF InstrErrClosed
<1>18. CASE InstrRecordMetrics
  BY <1>18 DEF InstrRecordMetrics
<1>19. CASE InstrCloseErr
  BY <1>19 DEF InstrCloseErr, Close
<1>20. CASE InstrCloseOut
  BY <1>20 DEF InstrCloseOut, Close
<1>21. CASE HandlerAdmitted
  BY <1>21 DEF HandlerAdmitted
<1>22. CASE HandlerRefused
  BY <1>22 DEF HandlerRefused, PutErr
<1>23. CASE HandlerContent
  BY <1>23 DEF HandlerContent, Withdraw, HandlerDelta
<1>24. CASE HandlerDone
  BY <1>24 DEF HandlerDone, Withdraw, HandlerDelta
<1>25. CASE HandlerDeltaClosed
  BY <1>25 DEF HandlerDeltaClosed
<1>26. CASE HandlerRecvErr
  BY <1>26 DEF HandlerRecvErr, DropErr, HandlerErr, HasErr
<1>27. CASE HandlerErrClosed
  BY <1>27 DEF HandlerErrClosed, ErrClosed, HandlerErr
<1>28. CASE HandlerCtxDone
  BY <1>28 DEF HandlerCtxDone
<1>29. CASE HandlerFail
  BY <1>29 DEF HandlerFail
<1>30. CASE HandlerComplete
  BY <1>30 DEF HandlerComplete
<1>31. CASE HandlerStore
  BY <1>31 DEF HandlerStore
<1>32. CASE HandlerRecord
  BY <1>32 DEF HandlerRecord
<1>33. CASE CancelCtx
  BY <1>33 DEF CancelCtx
<1>34. CASE UNCHANGED vars
  BY <1>34 DEF vars
<1> QED
  BY <1>1, <1>2, <1>3, <1>4, <1>5, <1>6, <1>7, <1>8, <1>9, <1>10, <1>11,
     <1>12, <1>13, <1>14, <1>15, <1>16, <1>17, <1>18, <1>19, <1>20, <1>21,
     <1>22, <1>23, <1>24, <1>25, <1>26, <1>27, <1>28, <1>29, <1>30, <1>31,
     <1>32, <1>33, <1>34
     DEF Next, Provider, Breaker, Instrument, Handler, HandlerReceive,
         ClientDisconnect, RequestEnd, Terminated

(* Every step keeps the handler's completion tied to what the provider     *)
(* sent and the client got.                                                *)
LEMMA EndingStep ==
    TypeOK /\ VerdictInv /\ ChannelInv /\ EndingInv /\ [Next]_vars => EndingInv'
<1> SUFFICES ASSUME TypeOK, VerdictInv, ChannelInv, EndingInv, [Next]_vars
             PROVE  EndingInv'
  OBVIOUS
<1> USE DEF TypeOK, FlagsOK, VerdictInv, ProviderInv, BreakerInv, InstrInv, Taken, None, Request,
        Content, Delta, Error, DeltaChans, ErrChans, provVars, brVars, inVars, hVars,
        ChannelInv, InFlight, Delivered, EndingInv, Completing
<1>1. CASE ProviderChunk
  BY <1>1 DEF ProviderChunk, Offer
<1>2. CASE ProviderEnd
  BY <1>2 DEF ProviderEnd, Offer
<1>3. CASE ProviderFail
  BY <1>3 DEF ProviderFail, PutErr
<1>4. CASE ProviderAbort
  BY <1>4 DEF ProviderAbort, PutErr
<1>5. CASE ProviderSent
  BY <1>5 DEF ProviderSent
<1>6. CASE ProviderCtxDone
  BY <1>6 DEF ProviderCtxDone, Withdraw, PutErr, Ready
<1>7. CASE ProviderCloseErr
  BY <1>7 DEF ProviderCloseErr, Close
<1>8. CASE ProviderCloseDelta
  BY <1>8 DEF ProviderCloseDelta, Close
<1>9. CASE BreakerFailure
  BY <1>9 DEF BreakerFailure, HasErr, DropErr
<1>10. CASE BreakerSuccess
  BY <1>10 DEF BreakerSuccess, ErrClosed
<1>11. CASE BreakerForward
  BY <1>11 DEF BreakerForward, PutErr
<1>12. CASE BreakerClose
  BY <1>12 DEF BreakerClose, Close
<1>13. CASE InstrDelta
  BY <1>13 DEF InstrDelta, Ready
<1>14. CASE InstrForwarded
  BY <1>14 DEF InstrForwarded
<1>15. CASE InstrDeltaClosed
  BY <1>15 DEF InstrDeltaClosed, MoveErr, HasErr, ClosedEmpty
<1>16. CASE InstrErr
  BY <1>16 DEF InstrErr, MoveErr, HasErr
<1>17. CASE InstrErrClosed
  BY <1>17 DEF InstrErrClosed
<1>18. CASE InstrRecordMetrics
  BY <1>18 DEF InstrRecordMetrics
<1>19. CASE InstrCloseErr
  BY <1>19 DEF InstrCloseErr, Close
<1>20. CASE InstrCloseOut
  BY <1>20 DEF InstrCloseOut, Close
<1>21. CASE HandlerAdmitted
  BY <1>21 DEF HandlerAdmitted
<1>22. CASE HandlerRefused
  BY <1>22 DEF HandlerRefused, PutErr
<1>23. CASE HandlerContent
  BY <1>23 DEF HandlerContent, Withdraw, HandlerDelta
<1>24. CASE HandlerDone
  BY <1>24 DEF HandlerDone, Withdraw, HandlerDelta
<1>25. CASE HandlerDeltaClosed
  BY <1>25 DEF HandlerDeltaClosed
<1>26. CASE HandlerRecvErr
  BY <1>26 DEF HandlerRecvErr, DropErr, HandlerErr, HasErr
<1>27. CASE HandlerErrClosed
  BY <1>27 DEF HandlerErrClosed, ErrClosed, HandlerErr
<1>28. CASE HandlerCtxDone
  BY <1>28 DEF HandlerCtxDone
<1>29. CASE HandlerFail
  BY <1>29 DEF HandlerFail
<1>30. CASE HandlerComplete
  BY <1>30 DEF HandlerComplete
<1>31. CASE HandlerStore
  BY <1>31 DEF HandlerStore
<1>32. CASE HandlerRecord
  BY <1>32 DEF HandlerRecord
<1>33. CASE CancelCtx
  BY <1>33 DEF CancelCtx
<1>34. CASE UNCHANGED vars
  BY <1>34 DEF vars
<1> QED
  BY <1>1, <1>2, <1>3, <1>4, <1>5, <1>6, <1>7, <1>8, <1>9, <1>10, <1>11,
     <1>12, <1>13, <1>14, <1>15, <1>16, <1>17, <1>18, <1>19, <1>20, <1>21,
     <1>22, <1>23, <1>24, <1>25, <1>26, <1>27, <1>28, <1>29, <1>30, <1>31,
     <1>32, <1>33, <1>34
     DEF Next, Provider, Breaker, Instrument, Handler, HandlerReceive,
         ClientDisconnect, RequestEnd, Terminated

(* Every step keeps the instrumentation's verdict in line with the         *)
(* handler's.                                                              *)
LEMMA MetricsStep ==
    TypeOK /\ VerdictInv /\ ChannelInv /\ EndingInv /\ MetricsInv /\ [Next]_vars => MetricsInv'
<1> SUFFICES ASSUME TypeOK, VerdictInv, ChannelInv, EndingInv, MetricsInv, [Next]_vars
             PROVE  MetricsInv'
  OBVIOUS
<1> USE DEF TypeOK, FlagsOK, VerdictInv, ProviderInv, BreakerInv, InstrInv, Taken, None, Request,
        Content, Delta, Error, DeltaChans, ErrChans, provVars, brVars, inVars, hVars,
        ChannelInv, EndingInv, Completing, Delivered, MetricsInv
<1>1. CASE ProviderChunk
  BY <1>1 DEF ProviderChunk, Offer
<1>2. CASE ProviderEnd
  BY <1>2 DEF ProviderEnd, Offer
<1>3. CASE ProviderFail
  BY <1>3 DEF ProviderFail, PutErr
<1>4. CASE ProviderAbort
  BY <1>4 DEF ProviderAbort, PutErr
<1>5. CASE ProviderSent
  BY <1>5 DEF ProviderSent
<1>6. CASE ProviderCtxDone
  BY <1>6 DEF ProviderCtxDone, Withdraw, PutErr, Ready
<1>7. CASE ProviderCloseErr
  BY <1>7 DEF ProviderCloseErr, Close
<1>8. CASE ProviderCloseDelta
  BY <1>8 DEF ProviderCloseDelta, Close
<1>9. CASE BreakerFailure
  BY <1>9 DEF BreakerFailure, HasErr, DropErr
<1>10. CASE BreakerSuccess
  BY <1>10 DEF BreakerSuccess, ErrClosed
<1>11. CASE BreakerForward
  BY <1>11 DEF BreakerForward, PutErr
<1>12. CASE BreakerClose
  BY <1>12 DEF BreakerClose, Close
<1>13. CASE InstrDelta
  BY <1>13 DEF InstrDelta, Ready
<1>14. CASE InstrForwarded
  BY <1>14 DEF InstrForwarded
<1>15. CASE InstrDeltaClosed
  BY <1>15 DEF InstrDeltaClosed, MoveErr, HasErr, ClosedEmpty
<1>16. CASE InstrErr
  BY <1>16 DEF InstrErr, MoveErr, HasErr
<1>17. CASE InstrErrClosed
  BY <1>17 DEF InstrErrClosed
<1>18. CASE InstrRecordMetrics
  BY <1>18 DEF InstrRecordMetrics
<1>19. CASE InstrCloseErr
  BY <1>19 DEF InstrCloseErr, Close
<1>20. CASE InstrCloseOut
  BY <1>20 DEF InstrCloseOut, Close
<1>21. CASE HandlerAdmitted
  BY <1>21 DEF HandlerAdmitted
<1>22. CASE HandlerRefused
  BY <1>22 DEF HandlerRefused, PutErr
<1>23. CASE HandlerContent
  BY <1>23 DEF HandlerContent, Withdraw, HandlerDelta
<1>24. CASE HandlerDone
  BY <1>24 DEF HandlerDone, Withdraw, HandlerDelta
<1>25. CASE HandlerDeltaClosed
  BY <1>25 DEF HandlerDeltaClosed
<1>26. CASE HandlerRecvErr
  BY <1>26 DEF HandlerRecvErr, DropErr, HandlerErr, HasErr
<1>27. CASE HandlerErrClosed
  BY <1>27 DEF HandlerErrClosed, ErrClosed, HandlerErr
<1>28. CASE HandlerCtxDone
  BY <1>28 DEF HandlerCtxDone
<1>29. CASE HandlerFail
  BY <1>29 DEF HandlerFail
<1>30. CASE HandlerComplete
  BY <1>30 DEF HandlerComplete
<1>31. CASE HandlerStore
  BY <1>31 DEF HandlerStore
<1>32. CASE HandlerRecord
  BY <1>32 DEF HandlerRecord
<1>33. CASE CancelCtx
  BY <1>33 DEF CancelCtx
<1>34. CASE UNCHANGED vars
  BY <1>34 DEF vars
<1> QED
  BY <1>1, <1>2, <1>3, <1>4, <1>5, <1>6, <1>7, <1>8, <1>9, <1>10, <1>11,
     <1>12, <1>13, <1>14, <1>15, <1>16, <1>17, <1>18, <1>19, <1>20, <1>21,
     <1>22, <1>23, <1>24, <1>25, <1>26, <1>27, <1>28, <1>29, <1>30, <1>31,
     <1>32, <1>33, <1>34
     DEF Next, Provider, Breaker, Instrument, Handler, HandlerReceive,
         ClientDisconnect, RequestEnd, Terminated

(* The three invariants hold before anything is sent. *)
LEMMA EndingInitial == Init => ChannelInv /\ EndingInv /\ MetricsInv
  BY DEF Init, ChannelInv, InFlight, EndingInv, Completing, MetricsInv, Delivered,
         Taken, None, Content, DeltaChans, ErrChans, Request

(* A response that is completed after the upstream finished has every      *)
(* content delta, once: the channels lose and repeat none, and the end of  *)
(* the stream overtakes none.                                              *)
THEOREM AnswerWhole == Spec => []CompletedAnswerIsWhole
<1>1. EndingInv => CompletedAnswerIsWhole
  BY DEF EndingInv, Completing, CompletedAnswerIsWhole
<1> QED
  BY TypeCorrect, VerdictInitial, VerdictStep, EndingInitial, ChannelStep, EndingStep,
     <1>1, PTL DEF Spec

(* recordMetrics and the client are told the same: no error after a        *)
(* success, and no completed response after an error.                      *)
THEOREM MetricsTruthful == Spec => []MetricsAgreeWithClient
<1>1. TypeOK /\ ChannelInv /\ EndingInv /\ MetricsInv => MetricsAgreeWithClient
  BY DEF TypeOK, ChannelInv, EndingInv, Completing, MetricsInv, MetricsAgreeWithClient, None
<1> QED
  BY TypeCorrect, VerdictInitial, VerdictStep, EndingInitial, ChannelStep, EndingStep,
     MetricsStep, <1>1, PTL DEF Spec

-----------------------------------------------------------------------------
(***************************************************************************)
(* The events of a response.  The handler's message and calls and the list *)
(* that the client builds from the events go together: that is Agree.      *)
(***************************************************************************)
(* What a client that followed an open stream so far knows. *)
OpenView(items) == [items |-> items, final |-> "none", closed |-> FALSE, confused |-> FALSE]

(* The entry with output index k. *)
Is(items, k, x, content, status) ==
    /\ items[k + 1].item = x
    /\ items[k + 1].content = content
    /\ items[k + 1].status = status

IsSeq(s) == \E U : s \in Seq(U)

-----------------------------------------------------------------------------
(* The fields of an open view, and the view with other items. *)
LEMMA OpenItems ==
    ASSUME NEW s, NEW t
    PROVE  /\ OpenView(s).items = s /\ OpenView(s).final = "none"
           /\ ~OpenView(s).closed /\ ~OpenView(s).confused
           /\ [OpenView(s) EXCEPT !.items = t] = OpenView(t)
<1>1. /\ OpenView(s).items = s /\ OpenView(s).final = "none"
      /\ ~OpenView(s).closed /\ ~OpenView(s).confused
  BY DEF OpenView
<1>2. [OpenView(s) EXCEPT !.items = t] = OpenView(t)
  <2> DEFINE no == FALSE
             v == OpenView(s)
  <2>1. v = [items |-> s, final |-> "none", closed |-> no, confused |-> no]
    BY DEF OpenView
  <2>2. OpenView(t) = [items |-> t, final |-> "none", closed |-> no, confused |-> no]
    BY DEF OpenView
  <2> HIDE DEF no, v
  <2>3. [v EXCEPT !.items = t] = [items |-> t, final |-> "none", closed |-> no, confused |-> no]
    BY <2>1
  <2> QED
    BY <2>2, <2>3 DEF v
<1> QED
  BY <1>1, <1>2

(* A new item is announced with the next output index. *)
LEMMA FollowAdded ==
    ASSUME NEW s, NEW x
    PROVE  Follow(OpenView(s), Ev("item.added", x, Len(s), <<>>))
             = OpenView(Append(s, Entry(x, <<>>, "in_progress")))
<1> DEFINE v == OpenView(s)
           e == Ev("item.added", x, Len(s), <<>>)
<1>1. /\ v = [items |-> s, final |-> "none", closed |-> FALSE, confused |-> FALSE]
      /\ e.type = "item.added" /\ e.item = x /\ e.index = Len(s)
  BY DEF OpenView, Ev
<1> HIDE DEF e
<1>2. Follow(v, e) = [v EXCEPT !.items = Append(@, Entry(e.item, <<>>, "in_progress"))]
  BY <1>1 DEF Follow
<1>3. v.items = s
  BY <1>1
<1> QED
  BY <1>1, <1>2 DEF e, OpenView, Entry

(* An event about an item that is still in progress. *)
LEMMA Known ==
    ASSUME NEW s, NEW k \in Nat, k + 1 \in DOMAIN s, NEW x, NEW c, NEW e,
           Is(s, k, x, c, "in_progress"), e.item = x, e.index = k
    PROVE  KnownItem(OpenView(s), e) /\ EntryOf(OpenView(s), e).content = c
  BY OpenItems DEF KnownItem, EntryOf, Is

(* A new entry for the item of an event. *)
LEMMA Updated ==
    ASSUME NEW s, NEW k, NEW x, NEW e, e.item = x, e.index = k, NEW d, NEW st
    PROVE  Update(OpenView(s), e, d, st) = OpenView([s EXCEPT ![k + 1] = Entry(x, d, st)])
<1> DEFINE t == [s EXCEPT ![k + 1] = Entry(x, d, st)]
<1>1. Update(OpenView(s), e, d, st) = [OpenView(s) EXCEPT !.items = t]
  BY OpenItems DEF Update
<1> QED
  BY <1>1, OpenItems

(* part.added and the first done events only repeat what is known. *)
LEMMA FollowStays ==
    ASSUME NEW s, NEW k \in Nat, k + 1 \in DOMAIN s, NEW x, NEW c, NEW e,
           Is(s, k, x, c, "in_progress"), e.item = x, e.index = k,
           \/ e.type = "part.added"
           \/ e.type \in {"text.done", "part.done", "args.done"} /\ e.content = c
    PROVE  Follow(OpenView(s), e) = OpenView(s)
<1>1. ~OpenView(s).closed /\ OpenView(s).final = "none"
  BY OpenItems
<1>2. KnownItem(OpenView(s), e) /\ EntryOf(OpenView(s), e).content = c
  BY Known
<1>3. CASE e.type = "part.added"
  <2>1. Follow(OpenView(s), e) = IF KnownItem(OpenView(s), e) THEN OpenView(s) ELSE Confused(OpenView(s))
    BY <1>1, <1>3 DEF Follow
  <2> QED
    BY <1>2, <2>1
<1>4. CASE e.type \in {"text.done", "part.done", "args.done"} /\ e.content = c
  BY <1>1, <1>2, <1>4 DEF Follow
<1> QED
  BY <1>3, <1>4

(* A delta appends to the content of its item. *)
LEMMA FollowDelta ==
    ASSUME NEW s, NEW k \in Nat, k + 1 \in DOMAIN s, NEW x, NEW c, NEW e,
           Is(s, k, x, c, "in_progress"), e.item = x, e.index = k,
           e.type \in {"text.delta", "args.delta"}
    PROVE  Follow(OpenView(s), e) = OpenView([s EXCEPT ![k + 1] = Entry(x, c \o e.content, "in_progress")])
<1>1. ~OpenView(s).closed /\ OpenView(s).final = "none"
  BY OpenItems
<1>2. Follow(OpenView(s), e) = Update(OpenView(s), e, c \o e.content, "in_progress")
  <2>1. KnownItem(OpenView(s), e) /\ EntryOf(OpenView(s), e).content = c
    BY Known
  <2> QED
    BY <1>1, <2>1 DEF Follow
<1> QED
  BY <1>2, Updated

(* item.done closes an item whose content it repeats. *)
LEMMA FollowDone ==
    ASSUME NEW s, NEW k \in Nat, k + 1 \in DOMAIN s, NEW x, NEW c, NEW e,
           Is(s, k, x, c, "in_progress"), e.item = x, e.index = k,
           e.type = "item.done", e.content = c
    PROVE  Follow(OpenView(s), e) = OpenView([s EXCEPT ![k + 1] = Entry(x, c, "completed")])
<1>1. ~OpenView(s).closed /\ OpenView(s).final = "none"
  BY OpenItems
<1>2. Follow(OpenView(s), e) = Update(OpenView(s), e, c, "completed")
  <2>1. KnownItem(OpenView(s), e) /\ EntryOf(OpenView(s), e).content = c
    BY Known
  <2> QED
    BY <1>1, <2>1 DEF Follow
<1> QED
  BY <1>2, Updated

(* The fields of an entry. *)
LEMMA EntryFields ==
    ASSUME NEW x, NEW c, NEW d
    PROVE  Entry(x, c, d).item = x /\ Entry(x, c, d).content = c /\ Entry(x, c, d).status = d
  BY DEF Entry

(* The items with a new one: the others stay where they are. *)
LEMMA Announced ==
    ASSUME NEW s, IsSeq(s), NEW x
    PROVE  /\ IsSeq(Append(s, Entry(x, <<>>, "in_progress")))
           /\ Len(Append(s, Entry(x, <<>>, "in_progress"))) = Len(s) + 1
           /\ Is(Append(s, Entry(x, <<>>, "in_progress")), Len(s), x, <<>>, "in_progress")
           /\ \A k \in 0 .. Len(s) - 1 : Append(s, Entry(x, <<>>, "in_progress"))[k + 1] = s[k + 1]
<1> DEFINE a == Entry(x, <<>>, "in_progress")
<1>1. PICK U : s \in Seq(U)
  BY DEF IsSeq
<1>2. a.item = x /\ a.content = <<>> /\ a.status = "in_progress"
  BY EntryFields
<1> HIDE DEF a
<1>3. s \in Seq(U \cup {a}) /\ a \in U \cup {a}
  BY <1>1
<1>4. /\ Append(s, a) \in Seq(U \cup {a})
      /\ Len(Append(s, a)) = Len(s) + 1
      /\ Append(s, a)[Len(s) + 1] = a
      /\ \A k \in 1 .. Len(s) : Append(s, a)[k] = s[k]
  BY <1>3
<1>5. Len(s) \in Nat
  BY <1>1
<1>6. /\ IsSeq(Append(s, a)) /\ Len(Append(s, a)) = Len(s) + 1
      /\ Is(Append(s, a), Len(s), x, <<>>, "in_progress")
      /\ \A k \in 0 .. Len(s) - 1 : Append(s, a)[k + 1] = s[k + 1]
  BY <1>2, <1>4, <1>5 DEF Is, IsSeq
<1> QED
  BY <1>6 DEF a

-----------------------------------------------------------------------------
(* The handler's state by its fields. *)
Hd(next, msg, calls, left, err, replay, view) ==
    [next |-> next, msg |-> msg, calls |-> calls, left |-> left, err |-> err,
     replay |-> replay, view |-> view]

Msg(started, index, text) == [started |-> started, index |-> index, text |-> text]

Builder(index, name, args) == [index |-> index, name |-> name, args |-> args]

MsgShape(m) == m = Msg(m.started, m.index, m.text)

CallsShape(c) == c = [i \in DOMAIN c |-> Builder(c[i].index, c[i].name, c[i].args)]

(* An event changes nothing of the handler but what its client knows. *)
LEMMA Sent ==
    ASSUME NEW n, NEW m, NEW c, NEW l, NEW e, NEW r, NEW v, NEW ev
    PROVE  SendSSE(Hd(n, m, c, l, e, r, v), ev) = Hd(n, m, c, l, e, r, Follow(v, ev))
<1> DEFINE g == Hd(n, m, c, l, e, r, v)
<1>1. g.view = v
  BY DEF Hd
<1>2. SendSSE(g, ev) = [g EXCEPT !.view = Follow(v, ev)]
  BY <1>1 DEF SendSSE
<1> HIDE DEF g
<1>3. g = Hd(n, m, c, l, e, r, v)
  BY DEF g
<1>4. [g EXCEPT !.view = Follow(v, ev)] = Hd(n, m, c, l, e, r, Follow(v, ev))
  BY <1>3 DEF Hd
<1> QED
  BY <1>2, <1>4 DEF g

-----------------------------------------------------------------------------
(* What the handler keeps of its message and its calls, and what the       *)
(* client knows: next output indexes are taken, each by one of them.       *)
Agree(next, msg, calls, left, status, items) ==
    /\ next \in Nat /\ IsSeq(items) /\ Len(items) = next
    /\ ~msg.started => msg.text = <<>>
    /\ msg.started =>
         msg.index \in 0 .. next - 1 /\ Is(items, msg.index, MsgItem, msg.text, status)
    /\ \A i \in DOMAIN calls :
         /\ calls[i].index \in 0 .. next - 1
         /\ Is(items, calls[i].index, CallItem(i), calls[i].args,
               IF i \in left THEN "in_progress" ELSE status)
    /\ \A k \in 0 .. next - 1 :
         \/ msg.started /\ msg.index = k
         \/ \E i \in DOMAIN calls : calls[i].index = k

(* The message and the calls are different items. *)
LEMMA ItemsDiffer ==
    ASSUME NEW i, NEW j
    PROVE  /\ MsgItem # CallItem(i)
           /\ CallItem(i) = CallItem(j) => i = j
  BY DEF MsgItem, CallItem

(* An entry that a step leaves alone. *)
LEMMA SameEntry ==
    ASSUME NEW s, NEW t, NEW k, t[k + 1] = s[k + 1], NEW x, NEW c, NEW st, Is(s, k, x, c, st)
    PROVE  Is(t, k, x, c, st)
  BY DEF Is

(* ensureMessageStarted takes the next output index for the message. *)
LEMMA MessageStarted ==
    ASSUME NEW n, NEW m, NEW c, NEW s, Agree(n, m, c, {}, "in_progress", s), ~m.started
    PROVE  Agree(n + 1, Msg(TRUE, n, m.text), c, {}, "in_progress",
                 Append(s, Entry(MsgItem, <<>>, "in_progress")))
<1> DEFINE t == Append(s, Entry(MsgItem, <<>>, "in_progress"))
<1>1. n \in Nat /\ IsSeq(s) /\ Len(s) = n /\ m.text = <<>>
  BY DEF Agree
<1>2. /\ IsSeq(t) /\ Len(t) = n + 1 /\ Is(t, n, MsgItem, <<>>, "in_progress")
      /\ \A k \in 0 .. n - 1 : t[k + 1] = s[k + 1]
  BY <1>1, Announced
<1> DEFINE m2 == Msg(TRUE, n, m.text)
<1>3. m2.started /\ m2.index = n /\ m2.text = <<>>
  BY <1>1 DEF Msg
<1> HIDE DEF m2
<1>4. ASSUME NEW i \in DOMAIN c
      PROVE  c[i].index \in 0 .. n - 1 /\ Is(t, c[i].index, CallItem(i), c[i].args, "in_progress")
  <2> HIDE DEF t
  <2>1. /\ c[i].index \in 0 .. n - 1
        /\ Is(s, c[i].index, CallItem(i), c[i].args, "in_progress")
    BY <1>4 DEF Agree
  <2>2. t[c[i].index + 1] = s[c[i].index + 1]
    BY <1>2, <2>1
  <2> QED
    BY <2>1, <2>2, SameEntry
<1>5. ASSUME NEW k \in 0 .. n
      PROVE  m2.index = k \/ \E i \in DOMAIN c : c[i].index = k
  <2>1. CASE k = n
    BY <1>3, <2>1
  <2>2. CASE k \in 0 .. n - 1
    BY <2>2 DEF Agree
  <2> QED
    BY <1>1, <2>1, <2>2
<1> HIDE DEF t, m2
<1>6. Agree(n + 1, m2, c, {}, "in_progress", t)
  BY <1>1, <1>2, <1>3, <1>4, <1>5 DEF Agree
<1> QED
  BY <1>6 DEF t, m2

(* A text delta appends to the text of the message, here and there. *)
LEMMA TextAdded ==
    ASSUME NEW n, NEW m, NEW c, NEW s, Agree(n, m, c, {}, "in_progress", s), m.started, NEW x
    PROVE  Agree(n, Msg(m.started, m.index, x), c, {}, "in_progress",
                 [s EXCEPT ![m.index + 1] = Entry(MsgItem, x, "in_progress")])
<1> DEFINE t == [s EXCEPT ![m.index + 1] = Entry(MsgItem, x, "in_progress")]
<1>0. t = [s EXCEPT ![m.index + 1] = Entry(MsgItem, x, "in_progress")]
  OBVIOUS
<1> HIDE DEF t
<1>1. n \in Nat /\ IsSeq(s) /\ Len(s) = n /\ m.index \in 0 .. n - 1
  BY DEF Agree
<1>2. /\ IsSeq(t) /\ Len(t) = n /\ t[m.index + 1] = Entry(MsgItem, x, "in_progress")
      /\ \A k \in 0 .. n - 1 : k # m.index => t[k + 1] = s[k + 1]
  <2> DEFINE a == Entry(MsgItem, x, "in_progress")
             k == m.index + 1
  <2>1. k \in 1 .. n
    BY <1>1
  <2> HIDE DEF a, k
  <2>2. t = [s EXCEPT ![k] = a]
    BY <1>0 DEF a, k
  <2>3. IsSeq(t) /\ Len(t) = n /\ t[k] = a /\ \A j \in 1 .. n : j # k => t[j] = s[j]
    <3>1. PICK U : s \in Seq(U)
      BY <1>1 DEF IsSeq
    <3>2. s \in Seq(U \cup {a}) /\ a \in U \cup {a} /\ Len(s) \in Nat
      BY <3>1
    <3> QED
      BY <1>1, <2>1, <2>2, <3>2 DEF IsSeq
  <2> QED
    BY <1>1, <2>3 DEF a, k
<1>3. Is(t, m.index, MsgItem, x, "in_progress")
  BY <1>2, EntryFields DEF Is
<1> DEFINE m2 == Msg(m.started, m.index, x)
<1>4. m2.started /\ m2.index = m.index /\ m2.text = x
  BY DEF Msg
<1>5. ASSUME NEW i \in DOMAIN c
      PROVE  c[i].index \in 0 .. n - 1 /\ Is(t, c[i].index, CallItem(i), c[i].args, "in_progress")
  <2>1. c[i].index \in 0 .. n - 1 /\ Is(s, c[i].index, CallItem(i), c[i].args, "in_progress")
    BY DEF Agree
  <2>2. c[i].index # m.index
    BY <2>1, ItemsDiffer DEF Agree, Is
  <2> QED
    BY <1>2, <2>1, <2>2, SameEntry
<1> HIDE DEF t, m2
<1>6. Agree(n, m2, c, {}, "in_progress", t)
  BY <1>1, <1>2, <1>3, <1>4, <1>5 DEF Agree
<1> QED
  BY <1>6 DEF t, m2

(* A new call takes the next output index. *)
LEMMA CallStarted ==
    ASSUME NEW n, NEW m, NEW c, NEW s, Agree(n, m, c, {}, "in_progress", s),
           NEW i, i \notin DOMAIN c, NEW c2, NEW name,
           DOMAIN c2 = DOMAIN c \cup {i}, c2[i] = Builder(n, name, <<>>),
           \A j \in DOMAIN c : c2[j] = c[j]
    PROVE  Agree(n + 1, m, c2, {}, "in_progress",
                 Append(s, Entry(CallItem(i), <<>>, "in_progress")))
<1> DEFINE t == Append(s, Entry(CallItem(i), <<>>, "in_progress"))
<1>1. n \in Nat /\ IsSeq(s) /\ Len(s) = n
  BY DEF Agree
<1>2. /\ IsSeq(t) /\ Len(t) = n + 1 /\ Is(t, n, CallItem(i), <<>>, "in_progress")
      /\ \A k \in 0 .. n - 1 : t[k + 1] = s[k + 1]
  BY <1>1, Announced
<1>3. c2[i].index = n /\ c2[i].args = <<>>
  BY DEF Builder
<1>4. m.started => m.index \in 0 .. n - 1 /\ Is(t, m.index, MsgItem, m.text, "in_progress")
  BY <1>2, SameEntry DEF Agree
<1>5. ASSUME NEW j \in DOMAIN c2
      PROVE  c2[j].index \in 0 .. n /\ Is(t, c2[j].index, CallItem(j), c2[j].args, "in_progress")
  <2>1. CASE j = i
    BY <1>1, <1>2, <1>3, <2>1
  <2>2. CASE j # i
    <3>1. j \in DOMAIN c /\ c2[j] = c[j]
      BY <2>2
    <3>2. c[j].index \in 0 .. n - 1 /\ Is(s, c[j].index, CallItem(j), c[j].args, "in_progress")
      BY <3>1 DEF Agree
    <3> QED
      <4>1. Is(t, c[j].index, CallItem(j), c[j].args, "in_progress")
        BY <1>2, <3>2, SameEntry
      <4> QED
        BY <1>1, <3>1, <3>2, <4>1
  <2> QED
    BY <2>1, <2>2
<1>6. ASSUME NEW k \in 0 .. n
      PROVE  (m.started /\ m.index = k) \/ \E j \in DOMAIN c2 : c2[j].index = k
  <2>1. CASE k = n
    BY <1>3, <2>1
  <2>2. CASE k \in 0 .. n - 1
    BY <2>2 DEF Agree
  <2> QED
    BY <1>1, <2>1, <2>2
<1> HIDE DEF t
<1>7. Agree(n + 1, m, c2, {}, "in_progress", t)
  <2>1. ~m.started => m.text = <<>>
    BY DEF Agree
  <2> QED
    BY <1>1, <1>2, <1>4, <1>5, <1>6, <2>1 DEF Agree
<1> QED
  BY <1>7 DEF t

(* Item i has new content, or a new status. *)
LEMMA CallChanged ==
    ASSUME NEW n, NEW m, NEW c, NEW l, NEW st, NEW s, Agree(n, m, c, l, st, s),
           NEW i \in DOMAIN c, NEW l2, \A j : j # i => (j \in l2 <=> j \in l), NEW c2,
           DOMAIN c2 = DOMAIN c, c2[i].index = c[i].index,
           \A j \in DOMAIN c : j # i => c2[j] = c[j]
    PROVE  Agree(n, m, c2, l2, st,
                 [s EXCEPT ![c[i].index + 1] =
                    Entry(CallItem(i), c2[i].args, IF i \in l2 THEN "in_progress" ELSE st)])
<1> DEFINE St(j, k) == IF j \in k THEN "in_progress" ELSE st
           x == c[i].index
           t == [s EXCEPT ![x + 1] = Entry(CallItem(i), c2[i].args, St(i, l2))]
<1>0. t = [s EXCEPT ![x + 1] = Entry(CallItem(i), c2[i].args, St(i, l2))]
  OBVIOUS
<1> HIDE DEF t
<1>1. n \in Nat /\ IsSeq(s) /\ Len(s) = n /\ x \in 0 .. n - 1 /\ s[x + 1].item = CallItem(i)
  BY DEF Agree, Is
<1>2. /\ IsSeq(t) /\ Len(t) = n /\ t[x + 1] = Entry(CallItem(i), c2[i].args, St(i, l2))
      /\ \A k \in 0 .. n - 1 : k # x => t[k + 1] = s[k + 1]
  <2> DEFINE a == Entry(CallItem(i), c2[i].args, St(i, l2))
             k == x + 1
  <2>1. k \in 1 .. n
    BY <1>1
  <2> HIDE DEF a, k
  <2>2. t = [s EXCEPT ![k] = a]
    BY <1>0 DEF a, k
  <2>3. IsSeq(t) /\ Len(t) = n /\ t[k] = a /\ \A j \in 1 .. n : j # k => t[j] = s[j]
    <3>1. PICK U : s \in Seq(U)
      BY <1>1 DEF IsSeq
    <3>2. s \in Seq(U \cup {a}) /\ a \in U \cup {a} /\ Len(s) \in Nat
      BY <3>1
    <3> QED
      BY <1>1, <2>1, <2>2, <3>2 DEF IsSeq
  <2> QED
    BY <1>1, <2>3 DEF a, k
<1>3. Is(t, x, CallItem(i), c2[i].args, St(i, l2))
  BY <1>2, EntryFields DEF Is
<1>4. m.started => m.index \in 0 .. n - 1 /\ Is(t, m.index, MsgItem, m.text, st)
  <2> SUFFICES ASSUME m.started PROVE m.index \in 0 .. n - 1 /\ Is(t, m.index, MsgItem, m.text, st)
    OBVIOUS
  <2>1. m.index \in 0 .. n - 1 /\ Is(s, m.index, MsgItem, m.text, st)
    BY DEF Agree
  <2>2. m.index # x
    BY <1>1, <2>1, ItemsDiffer DEF Is
  <2> QED
    BY <1>2, <2>1, <2>2, SameEntry
<1>5. ASSUME NEW j \in DOMAIN c2
      PROVE  c2[j].index \in 0 .. n - 1 /\ Is(t, c2[j].index, CallItem(j), c2[j].args, St(j, l2))
  <2>1. CASE j = i
    BY <1>1, <1>3, <2>1
  <2>2. CASE j # i
    <3>1. j \in DOMAIN c /\ c2[j] = c[j] /\ St(j, l2) = St(j, l)
      BY <2>2
    <3>2. c[j].index \in 0 .. n - 1 /\ Is(s, c[j].index, CallItem(j), c[j].args, St(j, l))
      BY <3>1 DEF Agree
    <3>3. c[j].index # x
      BY <1>1, <2>2, <3>2, ItemsDiffer DEF Is
    <3> QED
      <4>1. Is(t, c[j].index, CallItem(j), c[j].args, St(j, l))
        BY <1>2, <3>2, <3>3, SameEntry
      <4> QED
        BY <3>1, <3>2, <4>1
  <2> QED
    BY <2>1, <2>2
<1>6. ASSUME NEW k \in 0 .. n - 1
      PROVE  (m.started /\ m.index = k) \/ \E j \in DOMAIN c2 : c2[j].index = k
  <2>1. (m.started /\ m.index = k) \/ \E j \in DOMAIN c : c[j].index = k
    BY DEF Agree
  <2> QED
    BY <2>1
<1> HIDE DEF t
<1>7. ~m.started => m.text = <<>>
  BY DEF Agree
<1>8. Agree(n, m, c2, l2, st, t)
  BY <1>1, <1>2, <1>4, <1>5, <1>6, <1>7 DEF Agree
<1> QED
  BY <1>8 DEF t

-----------------------------------------------------------------------------
(* The handler in its loop; once streamRespErr is set it sends nothing     *)
(* until the loop is left.                                                 *)
Progress(g) ==
    \E n, m, c, e, r, s :
        /\ e \in BOOLEAN
        /\ g = Hd(n, m, c, {}, e, r, OpenView(s))
        /\ MsgShape(m) /\ CallsShape(c)
        /\ ~e => Agree(n, m, c, {}, "in_progress", s)

(* Progress, by its parts. *)
LEMMA IntoProgress ==
    ASSUME NEW n, NEW m, NEW c, NEW e \in BOOLEAN, NEW r, NEW s, MsgShape(m), CallsShape(c),
           ~e => Agree(n, m, c, {}, "in_progress", s)
    PROVE  Progress(Hd(n, m, c, {}, e, r, OpenView(s)))
  BY DEF Progress

(* The fields of a handler. *)
LEMMA Fields ==
    ASSUME NEW n, NEW m, NEW c, NEW l, NEW e, NEW r, NEW v, NEW g, g = Hd(n, m, c, l, e, r, v)
    PROVE  /\ g.next = n /\ g.msg = m /\ g.calls = c /\ g.left = l
           /\ g.err = e /\ g.replay = r /\ g.view = v
  BY DEF Hd

(* The fields of an event. *)
LEMMA EvFields ==
    ASSUME NEW type, NEW x, NEW k, NEW c
    PROVE  /\ Ev(type, x, k, c).type = type /\ Ev(type, x, k, c).item = x
           /\ Ev(type, x, k, c).index = k /\ Ev(type, x, k, c).content = c
  BY DEF Ev

(* The operations of the loop keep the handler and its client together. *)
LEMMA EnsureProgress ==
    ASSUME NEW g, Progress(g), ~g.err
    PROVE  /\ Progress(EnsureMessageStarted(g)) /\ ~EnsureMessageStarted(g).err
           /\ EnsureMessageStarted(g).msg.started
<1>1. PICK n, m, c, e, r, s :
         /\ e \in BOOLEAN
         /\ g = Hd(n, m, c, {}, e, r, OpenView(s))
         /\ MsgShape(m) /\ CallsShape(c)
         /\ ~e => Agree(n, m, c, {}, "in_progress", s)
  BY DEF Progress
<1>2. g.next = n /\ g.msg = m /\ g.err = e
  BY <1>1, Fields
<1>3. CASE m.started
  BY <1>2, <1>3 DEF EnsureMessageStarted
<1>4. CASE ~m.started
  <2> DEFINE m2 == Msg(TRUE, n, m.text)
             s2 == Append(s, Entry(MsgItem, <<>>, "in_progress"))
             g1 == [g EXCEPT !.msg = [started |-> TRUE, index |-> g.next, text |-> @.text],
                             !.next = @ + 1]
             g2 == Hd(n + 1, m2, c, {}, e, r, OpenView(s2))
  <2>1. Agree(n, m, c, {}, "in_progress", s) /\ n \in Nat /\ IsSeq(s) /\ Len(s) = n
    BY <1>1, <1>2 DEF Agree
  <2>2. Agree(n + 1, m2, c, {}, "in_progress", s2)
    BY <1>4, <2>1, MessageStarted
  <2>3. MsgShape(m2) /\ m2.started
    BY DEF MsgShape, Msg
  <2>4. n + 1 \in DOMAIN s2 /\ Is(s2, n, MsgItem, <<>>, "in_progress")
    <3>1. IsSeq(s2) /\ Len(s2) = n + 1 /\ Is(s2, n, MsgItem, <<>>, "in_progress")
      BY <2>1, Announced
    <3> QED
      BY <2>1, <3>1 DEF IsSeq
  <2>5. g1 = Hd(n + 1, m2, c, {}, e, r, OpenView(s))
    <3> HIDE DEF m2
    <3>1. m2 = [started |-> TRUE, index |-> g.next, text |-> g.msg.text]
      BY <1>2 DEF m2, Msg
    <3>2. g1 = [[g EXCEPT !.msg = m2] EXCEPT !.next = n + 1]
      BY <1>2, <3>1
    <3>3. PICK g0 : g0 = [g EXCEPT !.msg = m2]
      OBVIOUS
    <3>4. g0 = Hd(n, m2, c, {}, e, r, OpenView(s))
      BY <1>1, <3>3 DEF Hd
    <3>5. [g0 EXCEPT !.next = n + 1] = Hd(n + 1, m2, c, {}, e, r, OpenView(s))
      BY <3>4 DEF Hd
    <3> QED
      BY <3>2, <3>3, <3>5
  <2>6. Follow(OpenView(s), Ev("item.added", MsgItem, n, <<>>)) = OpenView(s2)
    BY <2>1, FollowAdded
  <2>7. Follow(OpenView(s2), Ev("part.added", MsgItem, n, <<>>)) = OpenView(s2)
    <3> DEFINE ev == Ev("part.added", MsgItem, n, <<>>)
    <3>1. ev.type = "part.added" /\ ev.item = MsgItem /\ ev.index = n
      BY EvFields
    <3> HIDE DEF ev, s2
    <3>2. Follow(OpenView(s2), ev) = OpenView(s2)
      BY <2>1, <2>4, <3>1, FollowStays
    <3> QED
      BY <3>2 DEF ev
  <2> HIDE DEF g1, m2, s2
  <2>8. EnsureMessageStarted(g)
          = SendSSE(SendSSE(g1, Ev("item.added", MsgItem, n, <<>>)), Ev("part.added", MsgItem, n, <<>>))
    BY <1>2, <1>4 DEF EnsureMessageStarted, g1
  <2>9. EnsureMessageStarted(g) = g2
    BY <2>5, <2>6, <2>7, <2>8, Sent
  <2>10. g2.msg = m2 /\ g2.err = e
    BY Fields
  <2>11. Progress(g2)
    BY <1>1, <2>2, <2>3, IntoProgress
  <2> QED
    BY <1>2, <2>3, <2>9, <2>10, <2>11
<1> QED
  BY <1>3, <1>4

(* A message with another text. *)
LEMMA MsgText ==
    ASSUME NEW m, MsgShape(m), NEW x
    PROVE  [m EXCEPT !.text = x] = Msg(m.started, m.index, x)
<1>1. PICK a, b, c : a = m.started /\ b = m.index /\ c = m.text
  OBVIOUS
<1>2. m = [started |-> a, index |-> b, text |-> c]
  BY <1>1 DEF MsgShape, Msg
<1>3. [m EXCEPT !.text = x] = [started |-> a, index |-> b, text |-> x]
  BY <1>2
<1> QED
  BY <1>1, <1>3 DEF Msg

(* Text. *)
LEMMA TextProgress ==
    ASSUME NEW g, Progress(g), ~g.err, NEW d
    PROVE  Progress(OnText(g, d)) /\ ~OnText(g, d).err
<1>1. CASE d.text = <<>>
  BY <1>1 DEF OnText
<1>2. CASE d.text # <<>>
  <2> DEFINE f == EnsureMessageStarted(g)
  <2>1. Progress(f) /\ ~f.err /\ f.msg.started
    BY EnsureProgress
  <2> HIDE DEF f
  <2>2. PICK n, m, c, e, r, s :
           /\ e \in BOOLEAN
           /\ f = Hd(n, m, c, {}, e, r, OpenView(s))
           /\ MsgShape(m) /\ CallsShape(c)
           /\ ~e => Agree(n, m, c, {}, "in_progress", s)
    BY <2>1 DEF Progress
  <2>3. f.msg = m /\ f.err = e
    BY <2>2, Fields
  <2>4. Agree(n, m, c, {}, "in_progress", s) /\ m.started
    BY <2>1, <2>2, <2>3
  <2> DEFINE x == m.text \o d.text
             m2 == Msg(m.started, m.index, x)
             s2 == [s EXCEPT ![m.index + 1] = Entry(MsgItem, x, "in_progress")]
             ev == Ev("text.delta", MsgItem, m.index, d.text)
             f1 == [f EXCEPT !.msg.text = @ \o d.text]
             f2 == Hd(n, m2, c, {}, e, r, OpenView(s2))
  <2>5. Agree(n, m2, c, {}, "in_progress", s2)
    BY <2>4, TextAdded
  <2>6. MsgShape(m2)
    BY DEF MsgShape, Msg
  <2>7. m.index \in Nat /\ m.index + 1 \in DOMAIN s /\ Is(s, m.index, MsgItem, m.text, "in_progress")
    BY <2>4 DEF Agree, IsSeq
  <2>8. Follow(OpenView(s), ev) = OpenView(s2)
    <3>1. ev.type = "text.delta" /\ ev.item = MsgItem /\ ev.index = m.index /\ ev.content = d.text
      BY EvFields
    <3> HIDE DEF ev
    <3>2. Follow(OpenView(s), ev) = OpenView([s EXCEPT ![m.index + 1] = Entry(MsgItem, m.text \o ev.content, "in_progress")])
      BY <2>7, <3>1, FollowDelta
    <3> QED
      BY <3>1, <3>2
  <2>9. f1 = Hd(n, m2, c, {}, e, r, OpenView(s))
    <3>1. [f.msg EXCEPT !.text = f.msg.text \o d.text] = m2
      BY <2>2, <2>3, MsgText
    <3> HIDE DEF m2
    <3>2. [f EXCEPT !.msg.text = @ \o d.text] = [f EXCEPT !.msg = m2]
      BY <3>1
    <3>3. [f EXCEPT !.msg = m2] = Hd(n, m2, c, {}, e, r, OpenView(s))
      BY <2>2 DEF Hd
    <3> QED
      BY <3>2, <3>3
  <2> HIDE DEF m2, s2, ev, f1
  <2>10. OnText(g, d) = SendSSE(f1, ev)
    <3>1. OnText(g, d) = SendSSE([f EXCEPT !.msg.text = @ \o d.text],
                                 Ev("text.delta", MsgItem, f.msg.index, d.text))
      BY <1>2 DEF OnText, f
    <3> QED
      BY <2>3, <3>1 DEF ev, f1
  <2>11. OnText(g, d) = f2
    BY <2>8, <2>9, <2>10, Sent
  <2>12. Progress(f2)
    BY <2>2, <2>5, <2>6, IntoProgress
  <2>13. f2.err = e
    BY Fields
  <2> QED
    BY <2>1, <2>3, <2>11, <2>12, <2>13
<1> QED
  BY <1>1, <1>2

(* A tool call seen for the first time: announced, or refused. *)
LEMMA StartProgress ==
    ASSUME NEW g, Progress(g), ~g.err, NEW t
    PROVE  Progress(StartCall(g, t)) /\ t.index \in DOMAIN StartCall(g, t).calls
<1>1. PICK n, m, c, e, r, s :
         /\ e \in BOOLEAN
         /\ g = Hd(n, m, c, {}, e, r, OpenView(s))
         /\ MsgShape(m) /\ CallsShape(c)
         /\ ~e => Agree(n, m, c, {}, "in_progress", s)
  BY DEF Progress
<1>2. g.next = n /\ g.calls = c /\ g.err = e
  BY <1>1, Fields
<1>3. CASE t.index \in DOMAIN c
  BY <1>2, <1>3 DEF StartCall
<1>4. CASE t.index \notin DOMAIN c
  <2> DEFINE i == t.index
             b == Builder(n, t.name, <<>>)
             c2 == [j \in DOMAIN c \cup {i} |-> IF j = i THEN b ELSE c[j]]
             s2 == Append(s, Entry(CallItem(i), <<>>, "in_progress"))
             ev == Ev("item.added", CallItem(i), n, <<>>)
             g1 == Hd(n + 1, m, c2, {}, e, r, OpenView(s))
  <2>1. Agree(n, m, c, {}, "in_progress", s) /\ n \in Nat /\ Len(s) = n
    BY <1>1, <1>2 DEF Agree
  <2>2. DOMAIN c2 = DOMAIN c \cup {i} /\ c2[i] = b /\ \A j \in DOMAIN c : c2[j] = c[j]
    BY <1>4
  <2>3. CallsShape(c2)
    <3>1. ASSUME NEW j \in DOMAIN c2
          PROVE  c2[j] = Builder(c2[j].index, c2[j].name, c2[j].args)
      <4>1. CASE j = i
        BY <2>2, <4>1 DEF Builder
      <4>2. CASE j # i
        <5>1. j \in DOMAIN c /\ c2[j] = c[j]
          BY <4>2
        <5>2. c[j] = Builder(c[j].index, c[j].name, c[j].args)
          BY <1>1, <5>1 DEF CallsShape
        <5> QED
          BY <5>1, <5>2
      <4> QED
        BY <4>1, <4>2
    <3>2. c2 = [j \in DOMAIN c2 |-> c2[j]]
      OBVIOUS
    <3> HIDE DEF c2
    <3> QED
      BY <3>1, <3>2 DEF CallsShape
  <2>4. [g EXCEPT !.next = @ + 1,
                  !.calls = [j \in DOMAIN @ \cup {t.index} |-> IF j = t.index THEN b ELSE @[j]]] = g1
    <3>1. PICK g0 : g0 = [g EXCEPT !.next = n + 1]
      OBVIOUS
    <3>2. g0 = Hd(n + 1, m, c, {}, e, r, OpenView(s))
      BY <1>1, <3>1 DEF Hd
    <3>3. g0.calls = c
      BY <3>2, Fields
    <3> HIDE DEF b
    <3>4. [g EXCEPT !.next = @ + 1,
                  !.calls = [j \in DOMAIN @ \cup {t.index} |-> IF j = t.index THEN b ELSE @[j]]]
            = [g0 EXCEPT !.calls = c2]
      BY <1>2, <3>1, <3>3
    <3> HIDE DEF c2
    <3>5. [g0 EXCEPT !.calls = c2] = Hd(n + 1, m, c2, {}, e, r, OpenView(s))
      BY <3>2 DEF Hd
    <3> QED
      BY <3>4, <3>5
  <2> HIDE DEF c2, s2, ev, g1
  <2>5. StartCall(g, t) = IF NameRefused(t.name) THEN [g1 EXCEPT !.err = TRUE] ELSE SendSSE(g1, ev)
    BY <1>2, <1>4, <2>4 DEF StartCall, Builder, ev
  <2>6. CASE NameRefused(t.name)
    <3>1. PICK yes \in BOOLEAN : yes
      OBVIOUS
    <3> DEFINE g2 == Hd(n + 1, m, c2, {}, yes, r, OpenView(s))
    <3>2. StartCall(g, t) = [g1 EXCEPT !.err = yes]
      BY <2>5, <2>6, <3>1
    <3>3. [g1 EXCEPT !.err = yes] = g2
      BY DEF g1, Hd
    <3>4. g2.calls = c2
      BY Fields
    <3>5. Progress(g2)
      BY <1>1, <2>3, <3>1, IntoProgress
    <3> QED
      BY <2>2, <3>2, <3>3, <3>4, <3>5
  <2>7. CASE ~NameRefused(t.name)
    <3> DEFINE g2 == Hd(n + 1, m, c2, {}, e, r, OpenView(s2))
    <3>1. Follow(OpenView(s), ev) = OpenView(s2)
      BY <2>1, FollowAdded DEF ev, s2
    <3>2. StartCall(g, t) = g2
      BY <2>5, <2>7, <3>1, Sent DEF g1
    <3>3. Agree(n + 1, m, c2, {}, "in_progress", s2)
      BY <1>4, <2>1, <2>2, CallStarted DEF s2
    <3>4. g2.calls = c2
      BY Fields
    <3>5. Progress(g2)
      BY <1>1, <2>3, <3>3, IntoProgress
    <3> QED
      BY <2>2, <3>2, <3>4, <3>5
  <2> QED
    BY <2>6, <2>7
<1> QED
  BY <1>3, <1>4

(* A call with another name. *)
LEMMA CallName ==
    ASSUME NEW b, b = Builder(b.index, b.name, b.args), NEW x
    PROVE  [b EXCEPT !.name = x] = Builder(b.index, x, b.args)
<1>1. PICK i, n, a : i = b.index /\ n = b.name /\ a = b.args
  OBVIOUS
<1>2. b = [index |-> i, name |-> n, args |-> a]
  BY <1>1 DEF Builder
<1>3. [b EXCEPT !.name = x] = [index |-> i, name |-> x, args |-> a]
  BY <1>2
<1> QED
  BY <1>1, <1>3 DEF Builder

(* A call with other arguments. *)
LEMMA CallArgs ==
    ASSUME NEW b, b = Builder(b.index, b.name, b.args), NEW x
    PROVE  [b EXCEPT !.args = x] = Builder(b.index, b.name, x)
<1>1. PICK i, n, a : i = b.index /\ n = b.name /\ a = b.args
  OBVIOUS
<1>2. b = [index |-> i, name |-> n, args |-> a]
  BY <1>1 DEF Builder
<1>3. [b EXCEPT !.args = x] = [index |-> i, name |-> n, args |-> x]
  BY <1>2
<1> QED
  BY <1>1, <1>3 DEF Builder

(* The calls with another record for call i. *)
Replaces(c2, c, i, b) == c2 = [c EXCEPT ![i] = b]

SameButFor(i, c, c2) == \A j \in DOMAIN c : j # i => c2[j] = c[j]

LEMMA CallReplaced ==
    ASSUME NEW c, CallsShape(c), NEW i \in DOMAIN c, NEW n, NEW a, NEW c2,
           Replaces(c2, c, i, Builder(c[i].index, n, a))
    PROVE  /\ CallsShape(c2) /\ DOMAIN c2 = DOMAIN c
           /\ c2[i].index = c[i].index /\ c2[i].name = n /\ c2[i].args = a
           /\ SameButFor(i, c, c2)
<1> DEFINE b == Builder(c[i].index, n, a)
<1>1. b.index = c[i].index /\ b.name = n /\ b.args = a
  BY DEF Builder
<1>2. b = Builder(b.index, b.name, b.args)
  BY <1>1
<1> HIDE DEF b
<1>3. c2 = [c EXCEPT ![i] = b]
  BY DEF b, Replaces
<1>4. c = [j \in DOMAIN c |-> c[j]]
  BY DEF CallsShape
<1>5. /\ DOMAIN c2 = DOMAIN c /\ c2[i] = b
      /\ \A j \in DOMAIN c : j # i => c2[j] = c[j]
      /\ c2 = [j \in DOMAIN c2 |-> c2[j]]
  BY <1>3, <1>4
<1>6. ASSUME NEW j \in DOMAIN c2
      PROVE  c2[j] = Builder(c2[j].index, c2[j].name, c2[j].args)
  <2>1. CASE j = i
    BY <1>2, <1>5, <2>1
  <2>2. CASE j # i
    <3>1. j \in DOMAIN c /\ c2[j] = c[j]
      BY <1>5, <2>2
    <3>2. c[j] = Builder(c[j].index, c[j].name, c[j].args)
      BY <3>1 DEF CallsShape
    <3> QED
      BY <3>1, <3>2
  <2> QED
    BY <2>1, <2>2
<1>7. CallsShape(c2)
  BY <1>5, <1>6 DEF CallsShape
<1> QED
  BY <1>1, <1>5, <1>7 DEF SameButFor

(* A name that arrives later. *)
LEMMA NameProgress ==
    ASSUME NEW g, Progress(g), NEW t, t.index \in DOMAIN g.calls
    PROVE  Progress(NameCall(g, t)) /\ t.index \in DOMAIN NameCall(g, t).calls
<1>1. CASE g.err \/ t.name = "" \/ g.calls[t.index].name # ""
  BY <1>1 DEF NameCall
<1>2. CASE ~(g.err \/ t.name = "" \/ g.calls[t.index].name # "")
  <2>1. PICK n, m, c, e, r, s :
           /\ e \in BOOLEAN
           /\ g = Hd(n, m, c, {}, e, r, OpenView(s))
           /\ MsgShape(m) /\ CallsShape(c)
           /\ ~e => Agree(n, m, c, {}, "in_progress", s)
    BY DEF Progress
  <2>2. g.calls = c /\ g.err = e
    BY <2>1, Fields
  <2>3. Agree(n, m, c, {}, "in_progress", s)
    BY <1>2, <2>1, <2>2
  <2> DEFINE i == t.index
             c2 == [c EXCEPT ![i] = Builder(c[i].index, t.name, c[i].args)]
  <2>4. i \in DOMAIN c
    BY <2>2
  <2>5. /\ CallsShape(c2) /\ DOMAIN c2 = DOMAIN c /\ c2[i].index = c[i].index /\ c2[i].args = c[i].args
        /\ \A j \in DOMAIN c : j # i => c2[j] = c[j]
    <3> HIDE DEF i
    <3>1. Replaces(c2, c, i, Builder(c[i].index, t.name, c[i].args))
      BY DEF Replaces
    <3>2. CallsShape(c)
      BY <2>1
    <3> HIDE DEF c2
    <3>3. /\ CallsShape(c2) /\ DOMAIN c2 = DOMAIN c
          /\ c2[i].index = c[i].index /\ c2[i].args = c[i].args
          /\ SameButFor(i, c, c2)
      BY <2>4, <3>1, <3>2, CallReplaced
    <3> QED
      BY <3>3 DEF SameButFor
  <2>6. PICK x \in BOOLEAN : x = NameRefused(t.name)
    BY DEF NameRefused
  <2> DEFINE g2 == Hd(n, m, c2, {}, x, r, OpenView(s))
  <2>7. NameCall(g, t) = g2
    <3>1. [g.calls[i] EXCEPT !.name = t.name] = Builder(c[i].index, t.name, c[i].args)
      <4>1. PICK b : b = c[i]
        OBVIOUS
      <4>2. b = Builder(b.index, b.name, b.args)
        BY <2>1, <2>4, <4>1 DEF CallsShape
      <4> QED
        BY <2>2, <4>1, <4>2, CallName
    <3>2. PICK g1 : g1 = [g EXCEPT !.calls = c2]
      OBVIOUS
    <3>3. g1 = Hd(n, m, c2, {}, e, r, OpenView(s))
      <4> HIDE DEF c2
      <4> QED
        BY <2>1, <3>2 DEF Hd
    <3>4. NameCall(g, t) = [g EXCEPT !.calls[t.index].name = t.name, !.err = x]
      BY <1>2, <2>6 DEF NameCall
    <3>5. [g EXCEPT !.calls[t.index].name = t.name, !.err = x] = [g1 EXCEPT !.err = x]
      BY <2>2, <3>1, <3>2
    <3>6. [g1 EXCEPT !.err = x] = g2
      <4> HIDE DEF c2
      <4> QED
        BY <3>3 DEF Hd
    <3> QED
      BY <3>4, <3>5, <3>6
  <2> HIDE DEF c2
  <2>8. Agree(n, m, c2, {}, "in_progress", s)
    BY <2>3, <2>5 DEF Agree
  <2>9. Progress(g2)
    BY <2>1, <2>5, <2>8, IntoProgress
  <2>10. g2.calls = c2
    BY Fields
  <2> QED
    BY <2>4, <2>5, <2>7, <2>9, <2>10
<1> QED
  BY <1>1, <1>2

(* Arguments. *)
LEMMA ArgumentsProgress ==
    ASSUME NEW g, Progress(g), NEW t, t.index \in DOMAIN g.calls
    PROVE  Progress(Arguments(g, t))
<1>1. CASE g.err \/ t.args = <<>>
  BY <1>1 DEF Arguments
<1>2. CASE ~(g.err \/ t.args = <<>>)
  <2>1. PICK n, m, c, e, r, s :
           /\ e \in BOOLEAN
           /\ g = Hd(n, m, c, {}, e, r, OpenView(s))
           /\ MsgShape(m) /\ CallsShape(c)
           /\ ~e => Agree(n, m, c, {}, "in_progress", s)
    BY DEF Progress
  <2>2. g.calls = c /\ g.err = e
    BY <2>1, Fields
  <2>3. Agree(n, m, c, {}, "in_progress", s)
    BY <1>2, <2>1, <2>2
  <2> DEFINE i == t.index
             x == c[i].args \o t.args
             c2 == [c EXCEPT ![i] = Builder(c[i].index, c[i].name, x)]
             s2 == [s EXCEPT ![c[i].index + 1] = Entry(CallItem(i), x, "in_progress")]
             ev == Ev("args.delta", CallItem(i), c[i].index, t.args)
             g1 == [g EXCEPT !.calls[t.index].args = @ \o t.args]
             g2 == Hd(n, m, c2, {}, e, r, OpenView(s2))
  <2>4. i \in DOMAIN c
    BY <2>2
  <2>5. /\ CallsShape(c2) /\ DOMAIN c2 = DOMAIN c /\ c2[i].index = c[i].index /\ c2[i].args = x
        /\ \A j \in DOMAIN c : j # i => c2[j] = c[j]
    <3> HIDE DEF i, x
    <3>1. Replaces(c2, c, i, Builder(c[i].index, c[i].name, x))
      BY DEF Replaces
    <3>2. CallsShape(c)
      BY <2>1
    <3> HIDE DEF c2
    <3>3. /\ CallsShape(c2) /\ DOMAIN c2 = DOMAIN c
          /\ c2[i].index = c[i].index /\ c2[i].args = x
          /\ SameButFor(i, c, c2)
      BY <2>4, <3>1, <3>2, CallReplaced
    <3> QED
      BY <3>3 DEF SameButFor
  <2>6. /\ c[i].index \in Nat /\ c[i].index + 1 \in DOMAIN s
        /\ Is(s, c[i].index, CallItem(i), c[i].args, "in_progress")
    BY <2>3, <2>4 DEF Agree, IsSeq
  <2>7. Follow(OpenView(s), ev) = OpenView(s2)
    <3>1. ev.type = "args.delta" /\ ev.item = CallItem(i) /\ ev.index = c[i].index /\ ev.content = t.args
      BY EvFields
    <3> HIDE DEF ev, i
    <3>2. Follow(OpenView(s), ev)
            = OpenView([s EXCEPT ![c[i].index + 1] = Entry(CallItem(i), c[i].args \o ev.content, "in_progress")])
      BY <2>6, <3>1, FollowDelta
    <3> QED
      BY <3>1, <3>2
  <2>8. g1 = Hd(n, m, c2, {}, e, r, OpenView(s))
    <3>1. [g.calls[i] EXCEPT !.args = g.calls[i].args \o t.args] = Builder(c[i].index, c[i].name, x)
      <4>1. PICK b : b = c[i]
        OBVIOUS
      <4>2. b = Builder(b.index, b.name, b.args)
        BY <2>1, <2>4, <4>1 DEF CallsShape
      <4>3. PICK y : y = x
        OBVIOUS
      <4>4. [b EXCEPT !.args = y] = Builder(b.index, b.name, y)
        BY <4>2, CallArgs
      <4> QED
        BY <2>2, <4>1, <4>3, <4>4
    <3>2. g1 = [g EXCEPT !.calls = c2]
      BY <2>2, <3>1
    <3> HIDE DEF c2, g1
    <3> QED
      BY <2>1, <3>2 DEF Hd
  <2>9. Agree(n, m, c2, {}, "in_progress", s2)
    <3> HIDE DEF c2, x, i
    <3>1. Agree(n, m, c2, {}, "in_progress",
                [s EXCEPT ![c[i].index + 1] =
                   Entry(CallItem(i), c2[i].args, IF i \in {} THEN "in_progress" ELSE "in_progress")])
      BY <2>3, <2>4, <2>5, CallChanged
    <3> QED
      BY <2>5, <3>1
  <2>10. Arguments(g, t) = SendSSE(g1, ev)
    BY <1>2, <2>2 DEF Arguments
  <2> HIDE DEF c2, s2, ev, g1
  <2>11. Arguments(g, t) = g2
    BY <2>7, <2>8, <2>10, Sent
  <2>12. Progress(g2)
    BY <2>1, <2>5, <2>9, IntoProgress
  <2> QED
    BY <2>11, <2>12
<1> QED
  BY <1>1, <1>2

(* The tool call of a delta. *)
LEMMA ToolProgress ==
    ASSUME NEW g, Progress(g), ~g.err, NEW d
    PROVE  Progress(OnTool(g, d))
<1>1. CASE d.tool = NoTool
  BY <1>1 DEF OnTool
<1>2. CASE d.tool # NoTool
  <2> DEFINE f == StartCall(g, d.tool)
             f2 == NameCall(f, d.tool)
  <2>1. Progress(f) /\ d.tool.index \in DOMAIN f.calls
    BY StartProgress
  <2> HIDE DEF f
  <2>2. Progress(f2) /\ d.tool.index \in DOMAIN f2.calls
    BY <2>1, NameProgress
  <2> HIDE DEF f2
  <2>3. Progress(Arguments(f2, d.tool))
    BY <2>2, ArgumentsProgress
  <2> QED
    BY <1>2, <2>3 DEF OnTool, f, f2
<1> QED
  BY <1>1, <1>2

(* A replay message. *)
LEMMA ReplayProgress ==
    ASSUME NEW g, Progress(g), NEW d
    PROVE  Progress(OnReplay(g, d))
<1>1. CASE g.err \/ d.replay = NoReplay
  BY <1>1 DEF OnReplay
<1>2. CASE ~(g.err \/ d.replay = NoReplay)
  <2>1. PICK n, m, c, e, r, s :
           /\ e \in BOOLEAN
           /\ g = Hd(n, m, c, {}, e, r, OpenView(s))
           /\ MsgShape(m) /\ CallsShape(c)
           /\ ~e => Agree(n, m, c, {}, "in_progress", s)
    BY DEF Progress
  <2>2. [g EXCEPT !.replay = d.replay] = Hd(n, m, c, {}, e, d.replay, OpenView(s))
    BY <2>1 DEF Hd
  <2>3. OnReplay(g, d) = Hd(n, m, c, {}, e, d.replay, OpenView(s))
    BY <1>2, <2>2 DEF OnReplay
  <2> QED
    BY <2>1, <2>3, IntoProgress
<1> QED
  BY <1>1, <1>2

(* One delta, whatever it is. *)
LEMMA ReceiveStep ==
    ASSUME Progress(h), ~h.err, NEW d, Receive(d)
    PROVE  /\ Progress(h') /\ pc' \in {"loop", "end"}
           /\ pc' = "loop" => ~h'.err
<1> DEFINE f == OnText(h, d)
           f2 == OnTool(f, d)
           f3 == OnReplay(f2, d)
<1>1. Progress(f) /\ ~f.err
  BY TextProgress
<1> HIDE DEF f
<1>2. Progress(f2)
  BY <1>1, ToolProgress
<1> HIDE DEF f2
<1>3. Progress(f3)
  BY <1>2, ReplayProgress
<1>4. h' = f3
  BY DEF Receive, f, f2
<1>5. pc' \in {"loop", "end"} /\ (pc' = "loop" => ~h'.err)
  BY DEF Receive
<1> HIDE DEF f3
<1> QED
  BY <1>3, <1>4, <1>5

-----------------------------------------------------------------------------
(* After the loop: the done events of the calls in left are still to come. *)
Finishing(g) ==
    \E n, m, c, l, e, r, s :
        /\ e \in BOOLEAN
        /\ g = Hd(n, m, c, l, e, r, OpenView(s))
        /\ l \subseteq DOMAIN c
        /\ Agree(n, m, c, l, "completed", s)

(* Finishing, by its parts. *)
LEMMA IntoFinishing ==
    ASSUME NEW n, NEW m, NEW c, NEW l, NEW e \in BOOLEAN, NEW r, NEW s, l \subseteq DOMAIN c,
           Agree(n, m, c, l, "completed", s)
    PROVE  Finishing(Hd(n, m, c, l, e, r, OpenView(s)))
  BY DEF Finishing

(* The message is done, the calls are still to come. *)
LEMMA MessageFinished ==
    ASSUME NEW n, NEW m, NEW c, NEW s, Agree(n, m, c, {}, "in_progress", s), m.started
    PROVE  Agree(n, m, c, DOMAIN c, "completed",
                 [s EXCEPT ![m.index + 1] = Entry(MsgItem, m.text, "completed")])
<1> DEFINE t == [s EXCEPT ![m.index + 1] = Entry(MsgItem, m.text, "completed")]
<1>0. t = [s EXCEPT ![m.index + 1] = Entry(MsgItem, m.text, "completed")]
  OBVIOUS
<1> HIDE DEF t
<1>1. n \in Nat /\ IsSeq(s) /\ Len(s) = n /\ m.index \in 0 .. n - 1
  BY DEF Agree
<1>2. /\ IsSeq(t) /\ Len(t) = n /\ t[m.index + 1] = Entry(MsgItem, m.text, "completed")
      /\ \A k \in 0 .. n - 1 : k # m.index => t[k + 1] = s[k + 1]
  <2> DEFINE a == Entry(MsgItem, m.text, "completed")
             k == m.index + 1
  <2>1. k \in 1 .. n
    BY <1>1
  <2> HIDE DEF a, k
  <2>2. t = [s EXCEPT ![k] = a]
    BY <1>0 DEF a, k
  <2>3. IsSeq(t) /\ Len(t) = n /\ t[k] = a /\ \A j \in 1 .. n : j # k => t[j] = s[j]
    <3>1. PICK U : s \in Seq(U)
      BY <1>1 DEF IsSeq
    <3>2. s \in Seq(U \cup {a}) /\ a \in U \cup {a} /\ Len(s) \in Nat
      BY <3>1
    <3> QED
      BY <1>1, <2>1, <2>2, <3>2 DEF IsSeq
  <2> QED
    BY <1>1, <2>3 DEF a, k
<1>3. Is(t, m.index, MsgItem, m.text, "completed")
  BY <1>2, EntryFields DEF Is
<1>4. ASSUME NEW i \in DOMAIN c
      PROVE  c[i].index \in 0 .. n - 1 /\ Is(t, c[i].index, CallItem(i), c[i].args, "in_progress")
  <2>1. c[i].index \in 0 .. n - 1 /\ Is(s, c[i].index, CallItem(i), c[i].args, "in_progress")
    BY DEF Agree
  <2>2. c[i].index # m.index
    BY <2>1, ItemsDiffer DEF Agree, Is
  <2> QED
    BY <1>2, <2>1, <2>2, SameEntry
<1>5. Agree(n, m, c, DOMAIN c, "completed", t)
  BY <1>1, <1>2, <1>3, <1>4 DEF Agree
<1> QED
  BY <1>5 DEF t

(* The done events of the message. *)
LEMMA CompleteStep ==
    ASSUME Progress(h), Complete
    PROVE  Finishing(h') /\ h'.calls = h.calls
<1>1. PICK n, m, c, e, r, s :
         /\ e \in BOOLEAN
         /\ h = Hd(n, m, c, {}, e, r, OpenView(s))
         /\ MsgShape(m) /\ CallsShape(c)
         /\ ~e => Agree(n, m, c, {}, "in_progress", s)
  BY DEF Progress
<1>2. h.msg = m /\ h.calls = c /\ h.err = e
  BY <1>1, Fields
<1>3. Agree(n, m, c, {}, "in_progress", s)
  BY <1>1, <1>2 DEF Complete
<1>4. \E t : /\ MessageDone(h) = Hd(n, m, c, {}, e, r, OpenView(t))
             /\ Agree(n, m, c, DOMAIN c, "completed", t)
  <2>1. CASE ~m.started
    <3>1. MessageDone(h) = h
      BY <1>2, <2>1 DEF MessageDone
    <3>2. Agree(n, m, c, DOMAIN c, "completed", s)
      BY <1>3, <2>1 DEF Agree
    <3> QED
      BY <1>1, <3>1, <3>2
  <2>2. CASE m.started
    <3> DEFINE t == [s EXCEPT ![m.index + 1] = Entry(MsgItem, m.text, "completed")]
               E(type) == Ev(type, MsgItem, m.index, m.text)
    <3>1. Agree(n, m, c, DOMAIN c, "completed", t)
      BY <1>3, <2>2, MessageFinished
    <3>2. m.index \in Nat /\ m.index + 1 \in DOMAIN s /\ Is(s, m.index, MsgItem, m.text, "in_progress")
      BY <1>3, <2>2 DEF Agree, IsSeq
    <3>3. \A type : E(type).type = type /\ E(type).item = MsgItem
                    /\ E(type).index = m.index /\ E(type).content = m.text
      BY EvFields
    <3> HIDE DEF E
    <3>4. Follow(OpenView(s), E("text.done")) = OpenView(s)
      BY <3>2, <3>3, FollowStays
    <3>5. Follow(OpenView(s), E("part.done")) = OpenView(s)
      BY <3>2, <3>3, FollowStays
    <3>6. Follow(OpenView(s), E("item.done")) = OpenView(t)
      BY <3>2, <3>3, FollowDone
    <3>7. SendSSE(h, E("text.done")) = h /\ SendSSE(h, E("part.done")) = h
      BY <1>1, <3>4, <3>5, Sent
    <3>8. SendSSE(h, E("item.done")) = Hd(n, m, c, {}, e, r, OpenView(t))
      <4> HIDE DEF t
      <4> QED
        BY <1>1, <3>6, Sent
    <3>9. MessageDone(h) = SendSSE(h, E("item.done"))
      <4>1. E("text.done") = Ev("text.done", MsgItem, h.msg.index, h.msg.text)
            /\ E("part.done") = Ev("part.done", MsgItem, h.msg.index, h.msg.text)
            /\ E("item.done") = Ev("item.done", MsgItem, h.msg.index, h.msg.text)
        BY <1>2 DEF E
      <4> QED
        BY <1>2, <2>2, <3>7, <4>1 DEF MessageDone
    <3> QED
      BY <3>1, <3>8, <3>9
  <2> QED
    BY <2>1, <2>2
<1>5. PICK t : /\ MessageDone(h) = Hd(n, m, c, {}, e, r, OpenView(t))
               /\ Agree(n, m, c, DOMAIN c, "completed", t)
  BY <1>4
<1>6. h' = Hd(n, m, c, DOMAIN c, e, r, OpenView(t))
  <2>1. PICK g : g = MessageDone(h)
    OBVIOUS
  <2>2. h' = [g EXCEPT !.left = DOMAIN c]
    BY <1>2, <2>1 DEF Complete
  <2>3. [g EXCEPT !.left = DOMAIN c] = Hd(n, m, c, DOMAIN c, e, r, OpenView(t))
    BY <1>5, <2>1 DEF Hd
  <2> QED
    BY <2>2, <2>3
<1>7. h'.calls = c
  BY <1>6 DEF Hd
<1>8. Finishing(h')
  BY <1>1, <1>5, <1>6, IntoFinishing
<1> QED
  BY <1>2, <1>7, <1>8

(* The done events of one call. *)
LEMMA CallDoneStep ==
    ASSUME Finishing(h), NEW i, CallDone(i)
    PROVE  Finishing(h') /\ h'.calls = h.calls
<1>1. PICK n, m, c, l, e, r, s :
         /\ e \in BOOLEAN
         /\ h = Hd(n, m, c, l, e, r, OpenView(s))
         /\ l \subseteq DOMAIN c
         /\ Agree(n, m, c, l, "completed", s)
  BY DEF Finishing
<1>2. h.calls = c /\ h.left = l
  BY <1>1, Fields
<1>3. i \in l /\ i \in DOMAIN c
  BY <1>1, <1>2 DEF CallDone
<1> DEFINE l2 == l \ {i}
           t == [s EXCEPT ![c[i].index + 1] = Entry(CallItem(i), c[i].args, "completed")]
           E(type) == Ev(type, CallItem(i), c[i].index, c[i].args)
           g == Hd(n, m, c, l, e, r, OpenView(t))
<1>4. Agree(n, m, c, l2, "completed", t)
  <2>1. i \notin l2 /\ \A j : j # i => (j \in l2 <=> j \in l)
    OBVIOUS
  <2> HIDE DEF l2
  <2>2. Agree(n, m, c, l2, "completed",
              [s EXCEPT ![c[i].index + 1] =
                 Entry(CallItem(i), c[i].args, IF i \in l2 THEN "in_progress" ELSE "completed")])
    BY <1>1, <1>3, <2>1, CallChanged
  <2> QED
    BY <2>1, <2>2
<1>5. /\ c[i].index \in Nat /\ c[i].index + 1 \in DOMAIN s
      /\ Is(s, c[i].index, CallItem(i), c[i].args, "in_progress")
  BY <1>1, <1>3 DEF Agree, IsSeq
<1>6. \A type : E(type).type = type /\ E(type).item = CallItem(i)
                /\ E(type).index = c[i].index /\ E(type).content = c[i].args
  BY EvFields
<1> HIDE DEF E
<1>7. Follow(OpenView(s), E("args.done")) = OpenView(s)
  BY <1>5, <1>6, FollowStays
<1>8. Follow(OpenView(s), E("item.done")) = OpenView(t)
  BY <1>5, <1>6, FollowDone
<1>9. SendSSE(h, E("args.done")) = h
  BY <1>1, <1>7, Sent
<1>10. SendSSE(h, E("item.done")) = g
  <2> HIDE DEF t
  <2> QED
    BY <1>1, <1>8, Sent
<1>11. h' = [SendSSE(h, E("item.done")) EXCEPT !.left = @ \ {i}]
  <2>1. /\ E("args.done") = Ev("args.done", CallItem(i), h.calls[i].index, h.calls[i].args)
        /\ E("item.done") = Ev("item.done", CallItem(i), h.calls[i].index, h.calls[i].args)
    BY <1>2 DEF E
  <2> QED
    BY <1>9, <2>1 DEF CallDone
<1>12. h' = Hd(n, m, c, l2, e, r, OpenView(t))
  <2> HIDE DEF t, l2
  <2>1. g.left = l
    BY Fields
  <2>2. PICK f : f = g
    OBVIOUS
  <2>3. h' = [f EXCEPT !.left = l2]
    BY <1>10, <1>11, <2>1, <2>2 DEF l2
  <2>4. [f EXCEPT !.left = l2] = Hd(n, m, c, l2, e, r, OpenView(t))
    BY <2>2 DEF Hd
  <2> QED
    BY <2>3, <2>4
<1> HIDE DEF t, l2
<1>13. h'.calls = c
  BY <1>12 DEF Hd
<1>14. l2 \subseteq DOMAIN c
  BY <1>1 DEF l2
<1>15. Finishing(h')
  BY <1>1, <1>4, <1>12, <1>14, IntoFinishing
<1> QED
  BY <1>2, <1>13, <1>15

-----------------------------------------------------------------------------
(* The completed response.  Output indexes are 0 .. next - 1, so as many   *)
(* items precede one as its output index says.                             *)
LEMMA ItemsByIndex ==
    ASSUME NEW g, NEW n, NEW m, NEW c, NEW s, g.msg = m, g.calls = c,
           Agree(n, m, c, {}, "completed", s)
    PROVE  /\ \A x \in OutputItems(g) :
                /\ x.index \in 0 .. n - 1
                /\ Is(s, x.index, x.item, x.content, "completed")
           /\ \A k \in 0 .. n - 1 : \E x \in OutputItems(g) : x.index = k
           /\ \A x, y \in OutputItems(g) : x.index = y.index => x = y
<1> DEFINE M == [index |-> m.index, item |-> MsgItem, content |-> m.text]
           C(i) == [index |-> c[i].index, item |-> CallItem(i), content |-> c[i].args]
           S == OutputItems(g)
<1>1. M.index = m.index /\ M.item = MsgItem /\ M.content = m.text
  OBVIOUS
<1>2. \A i : C(i).index = c[i].index /\ C(i).item = CallItem(i) /\ C(i).content = c[i].args
  OBVIOUS
<1>3. S = (IF m.started THEN {M} ELSE {}) \cup {C(i) : i \in DOMAIN c}
  BY DEF OutputItems
<1> HIDE DEF M, C, S
<1>4. ASSUME NEW x \in S
      PROVE  \/ m.started /\ x = M
             \/ \E i \in DOMAIN c : x = C(i)
  BY <1>3
<1>5. m.started => M \in S
  BY <1>3
<1>6. \A i \in DOMAIN c : C(i) \in S
  BY <1>3
<1>7. ASSUME NEW x \in S
      PROVE  x.index \in 0 .. n - 1 /\ Is(s, x.index, x.item, x.content, "completed")
  <2>1. CASE m.started /\ x = M
    BY <1>1, <2>1 DEF Agree
  <2>2. ASSUME NEW i \in DOMAIN c, x = C(i)
        PROVE  x.index \in 0 .. n - 1 /\ Is(s, x.index, x.item, x.content, "completed")
    BY <1>2, <2>2 DEF Agree
  <2> QED
    BY <1>4, <2>1, <2>2
<1>8. ASSUME NEW k \in 0 .. n - 1
      PROVE  \E x \in S : x.index = k
  <2>1. \/ m.started /\ m.index = k
        \/ \E i \in DOMAIN c : c[i].index = k
    BY DEF Agree
  <2> QED
    BY <1>1, <1>2, <1>5, <1>6, <2>1
<1>9. ASSUME NEW x \in S, NEW y \in S, x.index = y.index
      PROVE  x = y
  <2>1. x.item = y.item
    BY <1>7, <1>9 DEF Is
  <2>2. CASE x = M /\ y = M
    BY <2>2
  <2>3. ASSUME NEW i \in DOMAIN c, x = C(i), y = M
        PROVE  FALSE
    BY <1>1, <1>2, <2>1, <2>3, ItemsDiffer
  <2>4. ASSUME NEW i \in DOMAIN c, y = C(i), x = M
        PROVE  FALSE
    BY <1>1, <1>2, <2>1, <2>4, ItemsDiffer
  <2>5. ASSUME NEW i \in DOMAIN c, NEW j \in DOMAIN c, x = C(i), y = C(j)
        PROVE  x = y
    BY <1>2, <2>1, <2>5, ItemsDiffer
  <2> QED
    BY <1>4, <2>2, <2>3, <2>4, <2>5
<1> QED
  BY <1>7, <1>8, <1>9 DEF S

(* A set with one item for each of the indexes 0 .. n - 1. *)
LEMMA CountBelow ==
    ASSUME NEW S, NEW n \in Nat,
           \A x \in S : x.index \in 0 .. n - 1,
           \A k \in 0 .. n - 1 : \E x \in S : x.index = k,
           \A x, y \in S : x.index = y.index => x = y,
           NEW j \in 0 .. n
    PROVE  Cardinality({y \in S : y.index < j}) = j
<1> DEFINE T == {y \in S : y.index < j}
           I == IF j = 0 THEN {} ELSE 0 .. j - 1
           f == [k \in 0 .. j - 1 |-> CHOOSE x \in S : x.index = k]
<1>1. \A k \in 0 .. j - 1 : f[k] \in S /\ f[k].index = k
  OBVIOUS
<1>2. f \in [0 .. j - 1 -> T]
  BY <1>1
<1>3. \A a, b \in 0 .. j - 1 : f[a] = f[b] => a = b
  BY <1>1
<1>4. \A y \in T : \E k \in 0 .. j - 1 : f[k] = y
  BY <1>1
<1> HIDE DEF f, T
<1>5. f \in Bijection(0 .. j - 1, T)
  <2>1. f \in Injection(0 .. j - 1, T)
    BY <1>2, <1>3 DEF Injection, IsInjective
  <2>2. f \in Surjection(0 .. j - 1, T)
    BY <1>2, <1>4 DEF Surjection
  <2> QED
    BY <2>1, <2>2 DEF Bijection
<1>6. IsFiniteSet(0 .. j - 1) /\ Cardinality(0 .. j - 1) = j
  <2>1. 0 \in Int /\ j - 1 \in Int
    OBVIOUS
  <2>2. IsFiniteSet(0 .. j - 1) /\ Cardinality(0 .. j - 1) = IF 0 > j - 1 THEN 0 ELSE (j - 1) - 0 + 1
    BY <2>1, FS_Interval
  <2> QED
    BY <2>2
<1>7. ExistsBijection(0 .. j - 1, T)
  BY <1>5 DEF ExistsBijection
<1>8. Cardinality(T) = Cardinality(0 .. j - 1)
  BY <1>6, <1>7, FS_Bijection
<1> QED
  BY <1>6, <1>8 DEF T

(* The ordered output is the list that the client built. *)
LEMMA OutputAsBuilt ==
    ASSUME NEW g, NEW n, NEW m, NEW c, NEW s, g.msg = m, g.calls = c,
           Agree(n, m, c, {}, "completed", s)
    PROVE  /\ DOMAIN s = 1 .. n
           /\ \A k \in 1 .. n : s[k].status = "completed"
           /\ Output(g) = [k \in 1 .. n |-> [item |-> s[k].item, content |-> s[k].content]]
<1> DEFINE S == OutputItems(g)
           At(k) == CHOOSE x \in S : Cardinality({y \in S : Precedes(y, x)}) = k - 1
<1>1. n \in Nat /\ DOMAIN s = 1 .. n
  BY DEF Agree, IsSeq
<1>2. /\ \A x \in S : x.index \in 0 .. n - 1 /\ Is(s, x.index, x.item, x.content, "completed")
      /\ \A k \in 0 .. n - 1 : \E x \in S : x.index = k
      /\ \A x, y \in S : x.index = y.index => x = y
  BY ItemsByIndex
<1> HIDE DEF S
<1>3. ASSUME NEW j \in 0 .. n
      PROVE  Cardinality({y \in S : y.index < j}) = j
  BY <1>1, <1>2, CountBelow
<1>4. Cardinality(S) = n
  <2>1. {y \in S : y.index < n} = S
    BY <1>1, <1>2
  <2>2. n \in 0 .. n
    BY <1>1
  <2> QED
    BY <1>3, <2>1, <2>2
<1>5. ASSUME NEW x \in S
      PROVE  Cardinality({y \in S : Precedes(y, x)}) = x.index
  <2>1. {y \in S : Precedes(y, x)} = {y \in S : y.index < x.index}
    BY DEF Precedes
  <2>2. x.index \in 0 .. n
    BY <1>1, <1>2
  <2> QED
    BY <1>3, <2>1, <2>2
<1>6. ASSUME NEW k \in 1 .. n
      PROVE  At(k) \in S /\ At(k).index = k - 1
  <2>1. k - 1 \in 0 .. n - 1
    BY <1>1
  <2>2. PICK x \in S : x.index = k - 1
    BY <1>2, <2>1
  <2>3. Cardinality({y \in S : Precedes(y, x)}) = k - 1
    BY <1>5, <2>2
  <2>4. At(k) \in S /\ Cardinality({y \in S : Precedes(y, At(k))}) = k - 1
    BY <2>3
  <2> HIDE DEF At
  <2> QED
    BY <1>5, <2>4
<1>7. ASSUME NEW k \in 1 .. n
      PROVE  s[k].item = At(k).item /\ s[k].content = At(k).content /\ s[k].status = "completed"
  <2>1. Is(s, k - 1, At(k).item, At(k).content, "completed")
    <3>1. PICK a : a = At(k)
      OBVIOUS
    <3> HIDE DEF At
    <3>2. a \in S /\ a.index = k - 1
      BY <1>6, <3>1
    <3>3. Is(s, k - 1, a.item, a.content, "completed")
      BY <1>2, <3>2
    <3> QED
      BY <3>1, <3>3
  <2> HIDE DEF At
  <2>2. (k - 1) + 1 = k
    OBVIOUS
  <2> QED
    BY <2>1, <2>2 DEF Is
<1>8. Output(g) = [k \in 1 .. n |-> [item |-> At(k).item, content |-> At(k).content]]
  BY <1>4 DEF Output, S
<1> HIDE DEF At
<1>9. [k \in 1 .. n |-> [item |-> At(k).item, content |-> At(k).content]]
        = [k \in 1 .. n |-> [item |-> s[k].item, content |-> s[k].content]]
  BY <1>7
<1> QED
  BY <1>1, <1>7, <1>8, <1>9

(* The end of a response that is closed with [DONE]. *)
LEMMA EndedView ==
    ASSUME NEW s, NEW x \in {"completed", "failed"}, NEW w, w = [OpenView(s) EXCEPT !.final = x]
    PROVE  /\ ~Follow(w, RespEv("[DONE]", <<>>)).confused
           /\ Follow(w, RespEv("[DONE]", <<>>)).final = x
<1> DEFINE e == RespEv("[DONE]", <<>>)
<1>1. w.final = x /\ ~w.closed /\ ~w.confused /\ DOMAIN w = {"items", "final", "closed", "confused"}
  BY DEF OpenView
<1>2. e.type = "[DONE]"
  BY DEF RespEv
<1> HIDE DEF e
<1>3. x # "none"
  OBVIOUS
<1>4. Follow(w, e) = [w EXCEPT !.closed = TRUE]
  BY <1>1, <1>2, <1>3 DEF Follow
<1>5. [w EXCEPT !.closed = TRUE].final = w.final /\ [w EXCEPT !.closed = TRUE].confused = w.confused
  BY <1>1
<1> QED
  BY <1>1, <1>4, <1>5 DEF e

(* completed or failed, then [DONE]. *)
LEMMA EndStep ==
    ASSUME NEW n, NEW m, NEW c, NEW l, NEW e, NEW r, NEW s, h = Hd(n, m, c, l, e, r, OpenView(s)),
           NEW x \in {"completed", "failed"}, NEW ev,
           Follow(OpenView(s), ev) = [OpenView(s) EXCEPT !.final = x],
           h' = SendDone(SendSSE(h, ev))
    PROVE  ~h'.view.confused /\ h'.view.final = x /\ h'.calls = h.calls
<1>1. PICK w : w = [OpenView(s) EXCEPT !.final = x]
  OBVIOUS
<1>2. SendSSE(h, ev) = Hd(n, m, c, l, e, r, w)
  BY <1>1, Sent
<1>3. h' = Hd(n, m, c, l, e, r, Follow(w, RespEv("[DONE]", <<>>)))
  BY <1>2, Sent DEF SendDone
<1>4. h'.view = Follow(w, RespEv("[DONE]", <<>>)) /\ h'.calls = c /\ h.calls = c
  BY <1>3, Fields
<1> QED
  BY <1>1, <1>4, EndedView

(* The response fails. *)
LEMMA FailStep ==
    ASSUME Progress(h), Fail
    PROVE  ~h'.view.confused /\ h'.view.final = "failed"
<1>1. PICK n, m, c, e, r, s : h = Hd(n, m, c, {}, e, r, OpenView(s))
  BY DEF Progress
<1> DEFINE ev == RespEv("failed", <<>>)
<1>2. ev.type = "failed"
  BY DEF RespEv
<1>3. ~OpenView(s).closed /\ OpenView(s).final = "none"
  BY OpenItems
<1>4. h' = SendDone(SendSSE(h, ev))
  BY DEF Fail
<1> HIDE DEF ev
<1>5. Follow(OpenView(s), ev) = [OpenView(s) EXCEPT !.final = "failed"]
  BY <1>2, <1>3 DEF Follow
<1> QED
  BY <1>1, <1>4, <1>5, EndStep

(* The completed response is what the client built. *)
LEMMA CompletedStep ==
    ASSUME Finishing(h), Completed
    PROVE  ~h'.view.confused /\ h'.calls = h.calls
<1>1. PICK n, m, c, l, e, r, s :
         /\ h = Hd(n, m, c, l, e, r, OpenView(s))
         /\ Agree(n, m, c, l, "completed", s)
  BY DEF Finishing
<1>2. h.msg = m /\ h.calls = c /\ h.left = l
  BY <1>1, Fields
<1>3. Agree(n, m, c, {}, "completed", s)
  BY <1>1, <1>2 DEF Completed
<1>4. /\ DOMAIN s = 1 .. n
      /\ \A k \in 1 .. n : s[k].status = "completed"
      /\ Output(h) = [k \in 1 .. n |-> [item |-> s[k].item, content |-> s[k].content]]
  BY <1>2, <1>3, OutputAsBuilt
<1> DEFINE ev == RespEv("completed", Output(h))
<1>5. ev.type = "completed" /\ ev.content = Output(h)
  BY DEF RespEv
<1>6. OpenView(s).items = s /\ ~OpenView(s).closed /\ OpenView(s).final = "none"
  BY OpenItems
<1>7. h' = SendDone(SendSSE(h, ev))
  BY DEF Completed
<1> HIDE DEF ev
<1>8. Follow(OpenView(s), ev) = [OpenView(s) EXCEPT !.final = "completed"]
  <2>1. ev.content = [k \in DOMAIN s |-> [item |-> s[k].item, content |-> s[k].content]]
    BY <1>4, <1>5
  <2>2. \A k \in DOMAIN s : s[k].status = "completed"
    BY <1>4
  <2> QED
    BY <1>5, <1>6, <2>1, <2>2 DEF Follow
<1> QED
  BY <1>1, <1>7, <1>8, EndStep

-----------------------------------------------------------------------------
(* The loop, the done events and the end of the stream, from where the     *)
(* handler stands.                                                         *)
StreamInv ==
    /\ pc \in {"loop", "end", "finish", "closed", "gone"}
    /\ pc \in {"loop", "end"} => Progress(h)
    /\ pc = "loop" => ~h.err
    /\ pc = "finish" => Finishing(h)
    /\ pc \in {"closed", "gone"} => ~h.view.confused
    /\ pc = "finish" => ~CallsRefused(h)
    /\ pc = "closed" /\ h.view.final = "completed" => ~CallsRefused(h)

(* response.in_progress comes first. *)
LEMMA StreamInitial == StreamInit => StreamInv
<1> SUFFICES ASSUME StreamInit PROVE StreamInv
  OBVIOUS
<1> DEFINE m == Msg(FALSE, 0, <<>>)
           c == [i \in {} |-> 0]
           ev == RespEv("in_progress", <<>>)
<1>1. pc = "loop" /\ h = SendSSE(Handler0, ev)
  BY DEF StreamInit, HandlerInit
<1>2. PICK e \in BOOLEAN : e = FALSE
  OBVIOUS
<1>3. Handler0 = Hd(0, m, c, {}, e, NoReplay, OpenView(<<>>))
  BY <1>2 DEF Handler0, View0, Hd, Msg, OpenView
<1>4. Follow(OpenView(<<>>), ev) = OpenView(<<>>)
  <2>1. /\ ~OpenView(<<>>).closed /\ OpenView(<<>>).final = "none"
        /\ OpenView(<<>>).items = <<>>
    BY OpenItems
  <2>2. ev.type = "in_progress"
    BY DEF RespEv
  <2> HIDE DEF ev
  <2> QED
    BY <2>1, <2>2 DEF Follow
<1>5. MsgShape(m) /\ ~m.started /\ m.text = <<>>
  BY DEF MsgShape, Msg
<1>6. CallsShape(c) /\ DOMAIN c = {}
  BY DEF CallsShape
<1> HIDE DEF ev, m, c
<1>7. h = Hd(0, m, c, {}, e, NoReplay, OpenView(<<>>))
  BY <1>1, <1>3, <1>4, Sent
<1>8. IsSeq(<<>>) /\ Len(<<>>) = 0
  <2>1. <<>> \in Seq({})
    OBVIOUS
  <2> QED
    BY <2>1 DEF IsSeq
<1>9. Agree(0, m, c, {}, "in_progress", <<>>)
  BY <1>5, <1>6, <1>8 DEF Agree
<1>10. Progress(h)
  BY <1>5, <1>6, <1>7, <1>9, IntoProgress
<1>11. h.err = e
  BY <1>7, Fields
<1> QED
  BY <1>1, <1>2, <1>10, <1>11 DEF StreamInv

(* As long as the view is open the client was not surprised. *)
LEMMA OpenNotConfused ==
    ASSUME NEW g, Progress(g) \/ Finishing(g)
    PROVE  ~g.view.confused
<1>1. PICK n, m, c, l, e, r, s : g = Hd(n, m, c, l, e, r, OpenView(s))
  BY DEF Progress, Finishing
<1>2. g.view = OpenView(s)
  BY <1>1, Fields
<1> QED
  BY <1>2, OpenItems

(* validateToolCalls looks at nothing but the calls. *)
LEMMA SameCallsRefused ==
    ASSUME h'.calls = h.calls, UNCHANGED mode
    PROVE  CallsRefused(h)' <=> CallsRefused(h)
  BY DEF CallsRefused, NameRefused

(* Every step of the composition is one of the handler's, or leaves the    *)
(* handler alone.                                                          *)
LEMMA HandlerSteps ==
    ASSUME StreamNext
    PROVE  \/ UNCHANGED handlerVars
           \/ \E d : Receive(d)
           \/ StreamEnds \/ StreamFails \/ Disconnect \/ Fail \/ Complete \/ Completed
           \/ \E i : CallDone(i)
<1>1. CASE HandlerStep
  BY <1>1 DEF HandlerStep
<1>2. CASE Deliver
  BY <1>2 DEF Deliver
<1>3. CASE Finish
  BY <1>3 DEF Finish
<1>4. CASE StreamTerminated
  BY <1>4 DEF StreamTerminated, streamVars
<1>5. CASE content_block_delta \/ signature_delta
  BY <1>5 DEF content_block_delta, signature_delta, Reads
<1>6. ASSUME NEW type, NEW name, content_block_start(type, name)
      PROVE  UNCHANGED handlerVars
  BY <1>6 DEF content_block_start, Reads
<1>7. ASSUME NEW parts, GoogleChunk(parts)
      PROVE  UNCHANGED handlerVars
  BY <1>7 DEF GoogleChunk, Reads
<1>8. ASSUME NEW text, NEW tcs, OpenAIChunk(text, tcs)
      PROVE  UNCHANGED handlerVars
  BY <1>8 DEF OpenAIChunk, Reads
<1> QED
  BY <1>1, <1>2, <1>3, <1>4, <1>5, <1>6, <1>7, <1>8 DEF StreamNext

(* The inductive step, one case per action of the handler. *)
LEMMA StreamInvKept == StreamInv /\ [StreamNext]_streamVars => StreamInv'
<1> SUFFICES ASSUME StreamInv, [StreamNext]_streamVars PROVE StreamInv'
  OBVIOUS
<1>1. CASE UNCHANGED handlerVars
  <2>1. h' = h /\ pc' = pc /\ UNCHANGED mode
    BY <1>1 DEF handlerVars
  <2>2. CallsRefused(h)' <=> CallsRefused(h)
    BY <2>1, SameCallsRefused
  <2>3. (Progress(h)' <=> Progress(h)) /\ (Finishing(h)' <=> Finishing(h))
    BY <2>1
  <2> QED
    BY <2>1, <2>2, <2>3 DEF StreamInv
<1>2. ASSUME NEW d, Receive(d)
      PROVE  StreamInv'
  <2>1. pc = "loop" /\ Progress(h) /\ ~h.err
    BY <1>2 DEF Receive, StreamInv
  <2>2. Progress(h') /\ pc' \in {"loop", "end"} /\ (pc' = "loop" => ~h'.err)
    BY <1>2, <2>1, ReceiveStep
  <2> QED
    BY <2>2 DEF StreamInv, Progress
<1>3. CASE StreamEnds
  <2>1. Progress(h) /\ h' = h /\ pc' = "end"
    BY <1>3 DEF StreamEnds, StreamInv
  <2>2. Progress(h')
    BY <2>1
  <2> QED
    BY <2>1, <2>2 DEF StreamInv, Progress
<1>4. CASE StreamFails
  <2>1. Progress(h) /\ h' = [h EXCEPT !.err = TRUE] /\ pc' = "end"
    BY <1>4 DEF StreamFails, StreamInv
  <2>2. PICK n, m, c, e, r, s :
           /\ h = Hd(n, m, c, {}, e, r, OpenView(s))
           /\ MsgShape(m) /\ CallsShape(c)
    BY <2>1 DEF Progress
  <2>3. PICK yes \in BOOLEAN : yes
    OBVIOUS
  <2>4. h' = [h EXCEPT !.err = yes]
    BY <2>1, <2>3
  <2>5. [h EXCEPT !.err = yes] = Hd(n, m, c, {}, yes, r, OpenView(s))
    <3>1. PICK g : g = h
      OBVIOUS
    <3>2. [g EXCEPT !.err = yes] = Hd(n, m, c, {}, yes, r, OpenView(s))
      BY <2>2, <3>1 DEF Hd
    <3> QED
      BY <3>1, <3>2
  <2>6. Progress(h')
    <3>1. Progress(Hd(n, m, c, {}, yes, r, OpenView(s)))
      BY <2>2, <2>3, IntoProgress
    <3> QED
      BY <2>4, <2>5, <3>1
  <2> QED
    BY <2>1, <2>6 DEF StreamInv, Progress
<1>5. CASE Disconnect
  <2>1. Progress(h) /\ h' = h /\ pc' = "gone"
    BY <1>5 DEF Disconnect, StreamInv
  <2>2. ~h'.view.confused
    BY <2>1, OpenNotConfused
  <2> QED
    BY <2>1, <2>2 DEF StreamInv
<1>6. CASE Fail
  <2>1. Progress(h) /\ pc' = "closed"
    BY <1>6 DEF Fail, StreamInv
  <2>2. ~h'.view.confused /\ h'.view.final = "failed"
    BY <1>6, <2>1, FailStep
  <2> QED
    BY <2>1, <2>2 DEF StreamInv
<1>7. CASE Complete
  <2>1. Progress(h) /\ pc' = "finish" /\ UNCHANGED mode /\ ~CallsRefused(h)
    BY <1>7 DEF Complete, StreamInv
  <2>2. Finishing(h') /\ h'.calls = h.calls
    BY <1>7, <2>1, CompleteStep
  <2>3. ~CallsRefused(h)'
    BY <2>1, <2>2, SameCallsRefused
  <2> QED
    BY <2>1, <2>2, <2>3 DEF StreamInv, Finishing
<1>8. ASSUME NEW i, CallDone(i)
      PROVE  StreamInv'
  <2>1. Finishing(h) /\ pc' = "finish" /\ UNCHANGED mode /\ ~CallsRefused(h)
    <3>1. pc = "finish" /\ pc' = "finish" /\ UNCHANGED mode
      BY <1>8 DEF CallDone
    <3> QED
      BY <3>1 DEF StreamInv
  <2>2. Finishing(h') /\ h'.calls = h.calls
    BY <1>8, <2>1, CallDoneStep
  <2>3. ~CallsRefused(h)'
    BY <2>1, <2>2, SameCallsRefused
  <2> QED
    BY <2>1, <2>2, <2>3 DEF StreamInv, Finishing
<1>9. CASE Completed
  <2>1. Finishing(h) /\ pc' = "closed" /\ UNCHANGED mode /\ ~CallsRefused(h)
    <3>1. pc = "finish" /\ pc' = "closed" /\ UNCHANGED mode
      BY <1>9 DEF Completed
    <3> QED
      BY <3>1 DEF StreamInv
  <2>2. ~h'.view.confused /\ h'.calls = h.calls
    BY <1>9, <2>1, CompletedStep
  <2>3. ~CallsRefused(h)'
    BY <2>1, <2>2, SameCallsRefused
  <2> QED
    BY <2>1, <2>2, <2>3 DEF StreamInv
<1>10. CASE UNCHANGED streamVars
  BY <1>1, <1>10 DEF streamVars
<1> QED
  BY <1>1, <1>2, <1>3, <1>4, <1>5, <1>6, <1>7, <1>8, <1>9, <1>10, HandlerSteps

(* The invariant holds in every state. *)
LEMMA StreamInvariant == StreamSpec => []StreamInv
  BY StreamInitial, StreamInvKept, PTL DEF StreamSpec

(* A client that builds the response from the events of                    *)
(* handleStreamingResponse is never surprised, however the provider        *)
(* interleaves text and tool calls, and whatever number of them.           *)
THEOREM EventsFollowed == StreamSpec => []ClientFollows
<1>1. StreamInv => ClientFollows
  BY OpenNotConfused DEF StreamInv, ClientFollows
<1> QED
  BY <1>1, StreamInvariant, PTL

(* No response is reported as completed that tool_choice does not allow.   *)
THEOREM ToolChoiceKept == StreamSpec => []ToolChoiceRespected
<1>1. StreamInv => ToolChoiceRespected
  <2> SUFFICES ASSUME StreamInv, pc = "closed", h.view.final = "completed"
               PROVE  /\ mode = "none" => DOMAIN h.calls = {}
                      /\ mode \in {"required", "function"} => DOMAIN h.calls # {}
                      /\ \A i \in DOMAIN h.calls :
                           /\ h.calls[i].name \in Declared \cup {""}
                           /\ mode \in {"function", "allowed_tools"} => h.calls[i].name \in {"f", ""}
    BY DEF ToolChoiceRespected
  <2>1. ~CallsRefused(h)
    BY DEF StreamInv
  <2> QED
    BY <2>1 DEF CallsRefused, NameRefused
<1> QED
  BY <1>1, StreamInvariant, PTL
=============================================================================
