------------------------- MODULE StreamSessionProofs ------------------------
(***************************************************************************)
(* A turn, for every bound on deltas, events and items.  The session's     *)
(* steps are first shown to be steps of the emitter's own specification,   *)
(* so that the invariant and the refinement proved there carry over; what  *)
(* is left is the bookkeeping of the task and what a reply's outcome says. *)
(***************************************************************************)
EXTENDS StreamSession, StreamEmitterProofs

(* A delta's events form a sequence of scan events.                        *)
LEMMA EventsTyped ==
  ASSUME NEW evs \in SeqOf(ScanEvents, MaxEvents)
  PROVE  evs \in Seq(ScanEvents)
  BY SessionAssumption DEF SeqOf

(* Taking one event off a non-empty sequence.                              *)
LEMMA EventTaken ==
  ASSUME NEW evs \in Seq(ScanEvents), evs # <<>>
  PROVE  /\ Head(evs) \in ScanEvents
         /\ Tail(evs) \in Seq(ScanEvents)
         /\ Len(Tail(evs)) = Len(evs) - 1
         /\ Len(evs) \in Nat
  OBVIOUS

-----------------------------------------------------------------------------
(* Every step of the session is a step of the emitter's contract, or moves *)
(* nothing of the emitter.                                                 *)
LEMMA SessionUsesEmitter ==
  ASSUME SessionInv, [SessionNext]_sessionVars
  PROVE  [EmitterNext]_emitterVars
<1> USE DEF SessionInv, SessionTypeOK
<1>1. CASE Upstream
  BY <1>1 DEF Upstream, UpstreamDelta, UpstreamEnds, UpstreamFails, UpstreamEndsEmpty
<1>2. CASE NextEvent
  BY <1>2 DEF NextEvent, EmitterNext
<1>3. CASE TaskSends
  BY <1>3 DEF TaskSends, EmitterNext
<1>4. CASE Conclude
  <2>1. captured > 0 => captured \in 1..MaxCalls
    <3>1. pieces \in Nat /\ captured \in Nat /\ Len(events) \in Nat
      BY DEF EmitterTypeOK
    <3>2. QED
      BY <3>1, SessionAssumption, EmitterAssumption DEF PhaseInv
  <2>2. QED
    BY <1>4, <2>1 DEF Conclude, EmitterNext
<1>5. CASE Report
  <2>1. ResultErr => ReportError \/ UNCHANGED emitterVars
    <3>1. retired => upstream = "ended" /\ read > 0
      BY <1>5 DEF Report, PhaseInv
    <3>2. Idle
      BY <1>5 DEF Report, PhaseInv
    <3>3. QED
      BY <1>5, <3>1, <3>2 DEF Report, ReportError, ResultErr
  <2>2. QED
    BY <1>5, <2>1 DEF Report, EmitterNext
<1>6. CASE StreamOnceReturns \/ AbortKeepalive \/ Tick \/ Cancelled
  BY <1>6 DEF StreamOnceReturns, AbortKeepalive, Tick, Cancelled
<1>7. CASE Ping \/ ClientLeaves
  BY <1>7 DEF Ping, ClientLeaves, EmitterNext
<1>8. CASE UNCHANGED sessionVars
  BY <1>8 DEF sessionVars, emitterVars
<1>9. QED
  BY <1>1, <1>2, <1>3, <1>4, <1>5, <1>6, <1>7, <1>8 DEF SessionNext, Task

-----------------------------------------------------------------------------
(* What a step of the emitter under way may change of the facts the task   *)
(* relies on.                                                              *)
LEMMA EmitterStepFrame ==
  ASSUME EmitterInv, EmitterStep
  PROVE  /\ ~Idle
         /\ UNCHANGED <<retired, pieces, rxOpen>>
         /\ op' = NoOp \/ op'.do = op.do \/ (op'.do = "stop" /\ op.do \in {"calls", "finish"})
         /\ op'.all = op.all \/ op' = NoOp
         /\ ~rxOpen => op' = NoOp /\ failed' /\ UNCHANGED view
<1> USE DEF Idle, EmitterUntouched, Sent, Refused
<1>1. NoOp.do = "none" /\ ~NoOp.half
  BY DEF NoOp, Begun
<1>2. op \in Op
  BY DEF EmitterInv, EmitterTypeOK
<1>3. CASE EnsureStarted \/ CloseBlock
  BY <1>3 DEF EnsureStarted, CloseBlock
<1>4. CASE OpenBlock \/ SendDelta
  BY <1>1, <1>4 DEF OpenBlock, SendDelta
<1>5. CASE SendCall
  BY <1>1, <1>2, <1>5 DEF SendCall, Op
<1>6. CASE SendCallStop
  BY <1>1, <1>2, <1>6 DEF SendCallStop, Op
<1>7. CASE SendReason
  BY <1>1, <1>2, <1>7 DEF SendReason, Concluding, Op
<1>8. CASE SendComplete
  BY <1>1, <1>8 DEF SendComplete, Concluding
<1>9. QED
  BY <1>3, <1>4, <1>5, <1>6, <1>7, <1>8 DEF EmitterStep

-----------------------------------------------------------------------------
(* The three parts of SessionInv, each kept by every step.                 *)

(* Every step of the session keeps the types of its own variables.         *)
LEMMA SessionTyped ==
  ASSUME SessionInv, [SessionNext]_sessionVars
  PROVE  SessionTypeOK'
<1> USE DEF SessionInv, SessionTypeOK
<1>1. EmitterTypeOK'
  BY SessionUsesEmitter, EmitterNextKeeps DEF EmitterInv
<1>2. CASE Upstream
  BY <1>1, <1>2, EventsTyped DEF Upstream, UpstreamDelta, UpstreamEnds, UpstreamFails, UpstreamEndsEmpty,
                               Polling, pingVars
<1>3. CASE NextEvent
  BY <1>1, <1>3, EventTaken DEF NextEvent, pingVars
<1>4. CASE TaskSends
  <2>1. <<>> \in Seq(ScanEvents)
    OBVIOUS
  <2>2. QED
    BY <1>1, <1>4, <2>1 DEF TaskSends, pingVars
<1>5. CASE Conclude \/ StreamOnceReturns \/ AbortKeepalive \/ Report
  BY <1>1, <1>5 DEF Conclude, StreamOnceReturns, AbortKeepalive, Report, pingVars
<1>6. CASE Tick \/ Ping \/ Cancelled \/ ClientLeaves
  BY <1>1, <1>6 DEF Tick, Ping, Cancelled, ClientLeaves, taskVars, pingVars
<1>7. CASE UNCHANGED sessionVars
  BY <1>1, <1>7 DEF sessionVars
<1>8. QED
  BY <1>2, <1>3, <1>4, <1>5, <1>6, <1>7 DEF SessionNext, Task

(* Every step keeps the phase in agreement with what the task knows.       *)
LEMMA PhaseKept ==
  ASSUME SessionInv, [SessionNext]_sessionVars
  PROVE  PhaseInv'
<1> USE DEF SessionInv, SessionTypeOK, PhaseInv
<1>1. pieces \in Nat /\ captured \in Nat /\ read \in Nat /\ Len(events) \in Nat /\ MaxItems \in Nat
  BY SessionAssumption DEF EmitterTypeOK
<1>2. CASE Upstream
  <2>1. ASSUME NEW evs \in SeqOf(ScanEvents, MaxEvents), UpstreamDelta(evs) \/ UpstreamEnds(evs)
        PROVE  PhaseInv'
    BY <1>1, <2>1 DEF UpstreamDelta, UpstreamEnds, Polling, Releasable, emitterVars, pingVars, Idle, ResultErr
  <2>2. CASE UpstreamFails \/ UpstreamEndsEmpty
    BY <1>1, <2>2 DEF UpstreamFails, UpstreamEndsEmpty, Polling, emitterVars, pingVars, Idle, ResultErr
  <2>3. QED
    BY <1>2, <2>1, <2>2 DEF Upstream
<1>3. CASE NextEvent
  BY <1>1, <1>3, EventTaken DEF NextEvent, EmitPiece, emitterVars, pingVars
<1>4. CASE TaskSends
  <2>1. Len(<<>>) = 0
    OBVIOUS
  <2>2. QED
    BY <1>1, <1>4, <2>1, EmitterStepFrame DEF TaskSends, pingVars, Idle, ResultErr
<1>5. CASE Conclude
  BY <1>1, <1>5 DEF Conclude, EmitToolCalls, FinishText, pingVars
<1>6. CASE StreamOnceReturns
  BY <1>1, <1>6 DEF StreamOnceReturns, emitterVars, pingVars, Idle, ResultErr
<1>7. CASE AbortKeepalive
  BY <1>1, <1>7 DEF AbortKeepalive, emitterVars, Idle, ResultErr
<1>8. CASE Report
  BY <1>1, <1>8 DEF Report, ErrorFrame, OtherSends, emitterVars, pingVars, Idle
<1>9. CASE Tick \/ Ping \/ Cancelled \/ ClientLeaves
  BY <1>1, <1>9 DEF Tick, Ping, Cancelled, ClientLeaves, Keepalive, OtherSends, Disconnect, emitterVars,
                    taskVars, pingVars, Idle, ResultErr
<1>10. CASE UNCHANGED sessionVars
  BY <1>1, <1>10 DEF sessionVars, emitterVars, Idle, ResultErr
<1>11. QED
  BY <1>2, <1>3, <1>4, <1>5, <1>6, <1>7, <1>8, <1>9, <1>10 DEF SessionNext, Task

(* The Messages stop reason goes out when every call, or none, has been.   *)
LEMMA StopReached ==
  ASSUME EmitterInv, EmitterStep, op'.do = "stop", rxOpen
  PROVE  \/ op.do = "calls" /\ view'.calls = op.all
         \/ op.do = "finish" /\ view'.calls = 0
<1> USE DEF EmitterInv, EmitterTypeOK, Sent, Refused
<1>1. NoOp.do = "none" /\ op \in Op
  BY DEF NoOp, Begun
<1>2. CASE SendReason
  <2>1. view' = Decode(view, Because("reason", Why))
    BY <1>2 DEF SendReason
  <2>2. view'.calls = view.calls
    BY <2>1 DEF Decode, Because
  <2>3. CASE op.do = "calls" /\ op.sent = op.all
    BY <2>2, <2>3 DEF InStep, OpShape, CallsSent, Op
  <2>4. CASE op.do = "finish"
    BY <2>2, <2>4 DEF InStep
  <2>5. QED
    BY <1>2, <2>3, <2>4 DEF SendReason, Concluding
<1>3. CASE SendComplete
  BY <1>1, <1>3 DEF SendComplete
<1>4. CASE EnsureStarted \/ CloseBlock
  BY <1>1, <1>4 DEF EnsureStarted, CloseBlock, OpShape, Ready
<1>5. CASE OpenBlock \/ SendDelta
  BY <1>1, <1>5 DEF OpenBlock, SendDelta
<1>6. CASE SendCall
  BY <1>1, <1>6 DEF SendCall, Op
<1>7. CASE SendCallStop
  BY <1>1, <1>7 DEF SendCallStop, Op
<1>8. QED
  BY <1>2, <1>3, <1>4, <1>5, <1>6, <1>7 DEF EmitterStep

(* Every step keeps the calls being sent equal to the captured ones.       *)
LEMMA CallsKept ==
  ASSUME SessionInv, [SessionNext]_sessionVars
  PROVE  CallsInv'
<1> USE DEF SessionInv, SessionTypeOK, CallsInv
<1>1. EmitterInv'
  BY SessionUsesEmitter, EmitterNextKeeps
<1>2. NoOp.do = "none"
  BY DEF NoOp, Begun
<1>3. CASE Upstream
  BY <1>2, <1>3 DEF Upstream, UpstreamDelta, UpstreamEnds, UpstreamFails, UpstreamEndsEmpty, Polling,
                    emitterVars, Idle
<1>4. CASE NextEvent
  BY <1>2, <1>4 DEF NextEvent, EmitPiece, PieceOp, Begun, emitterVars, Idle, PhaseInv
<1>5. CASE TaskSends
  <2>1. UNCHANGED captured
    BY <1>5 DEF TaskSends
  <2>2. op'.do = "calls" => op'.all = captured'
    BY <1>2, <1>5, <2>1, EmitterStepFrame DEF TaskSends
  <2>3. op'.do = "finish" => captured' = 0
    BY <1>2, <1>5, <2>1, EmitterStepFrame DEF TaskSends
  <2>4. op'.do = "stop" /\ rxOpen' => view'.calls = captured'
    BY <1>5, <2>1, EmitterStepFrame, StopReached DEF TaskSends
  <2>5. ~retired' => view'.calls = 0 /\ view'.outcome = "none"
    <3>1. CASE rxOpen
      BY <1>1, <1>5, <3>1, EmitterStepFrame DEF TaskSends, EmitterInv, InStep
    <3>2. CASE ~rxOpen
      BY <1>5, <3>2, EmitterStepFrame DEF TaskSends
    <3>3. QED
      BY <1>5, <3>1, <3>2
  <2>6. QED
    BY <2>2, <2>3, <2>4, <2>5
<1>6. CASE Conclude
  BY <1>2, <1>6 DEF Conclude, EmitToolCalls, FinishText, CallsOp, FinishOp, Begun
<1>7. CASE Report
  BY <1>2, <1>7 DEF Report, ErrorFrame, OtherSends, emitterVars, PhaseInv, Idle
<1>8. CASE StreamOnceReturns \/ AbortKeepalive \/ Tick \/ Cancelled
  BY <1>8 DEF StreamOnceReturns, AbortKeepalive, Tick, Cancelled, emitterVars, taskVars
<1>9. CASE Ping \/ ClientLeaves
  BY <1>9 DEF Ping, ClientLeaves, Keepalive, OtherSends, Disconnect, Decode, Bare, taskVars
<1>10. CASE UNCHANGED sessionVars
  BY <1>10 DEF sessionVars, emitterVars
<1>11. QED
  BY <1>3, <1>4, <1>5, <1>6, <1>7, <1>8, <1>9, <1>10 DEF SessionNext, Task

(* A new session satisfies the invariant.                                  *)
LEMMA SessionInitially == SessionInit => SessionInv
<1> SUFFICES ASSUME SessionInit PROVE SessionInv
  OBVIOUS
<1>1. EmitterInv
  BY EmitterInitially DEF SessionInit
<1>2. <<>> \in Seq(ScanEvents) /\ Len(<<>>) = 0
  OBVIOUS
<1>3. SessionTypeOK
  BY <1>1, <1>2 DEF SessionInit, SessionTypeOK, EmitterInv
<1>4. PhaseInv
  BY <1>2, SessionAssumption DEF SessionInit, EmitterInit, PhaseInv
<1>5. CallsInv
  BY DEF SessionInit, EmitterInit, CallsInv, NoOp, Begun, BlankView
<1>6. QED
  BY <1>1, <1>3, <1>4, <1>5 DEF SessionInv

(* Every step of the session keeps the invariant.                          *)
LEMMA SessionNextKeeps ==
  ASSUME SessionInv, [SessionNext]_sessionVars PROVE SessionInv'
<1>1. EmitterInv'
  BY SessionUsesEmitter, EmitterNextKeeps DEF SessionInv
<1>2. QED
  BY <1>1, SessionTyped, PhaseKept, CallsKept DEF SessionInv

(* The task's place in the turn, the emitter's fields, the stream as the   *)
(* client reads it and the captured calls always agree (SessionInv),       *)
(* whatever the upstream does and whenever the client leaves.              *)
THEOREM SessionInvariant == SessionSpec => []SessionInv
<1>1. SessionInit => SessionInv
  BY SessionInitially
<1>2. SessionInv /\ [SessionNext]_sessionVars => SessionInv'
  BY SessionNextKeeps
<1>3. QED
  BY <1>1, <1>2, PTL DEF SessionSpec

(* stream_once and the code around it respect the emitter's contract: the  *)
(* session implements EmitterSpec.                                         *)
THEOREM SessionKeepsContract == SessionSpec => UsesEmitterRightly
<1>1. SessionInit => EmitterInit
  BY DEF SessionInit
<1>2. SessionInv /\ [SessionNext]_sessionVars => [EmitterNext]_emitterVars
  BY SessionUsesEmitter
<1>3. QED
  BY <1>1, <1>2, SessionInvariant, PTL DEF SessionSpec, UsesEmitterRightly, EmitterSpec

(* Hence the client of a whole turn, keepalives, error report and all,     *)
(* reads a well-formed reply of its protocol.                              *)
THEOREM SessionKeepsPromise == SessionSpec => WireWellFormed
  BY SessionKeepsContract, EmitterKeepsPromise DEF UsesEmitterRightly

-----------------------------------------------------------------------------
(* What the outcome of a reply says of the turn.  No frame of the emitter  *)
(* follows an outcome; the error frame follows none either.                *)

OutcomeInv == CompleteMeansWhole /\ CallsOnlyFromFinishedTurns /\ ErrorsAreUpstreams

(* Once the client has been given an outcome, the emitter is at rest.      *)
LEMMA OutcomeFinal ==
  ASSUME SessionInv, view.outcome # "none"
  PROVE  /\ retired /\ phase \notin {"drive", "flush"} /\ events = <<>>
         /\ rxOpen => Idle
  BY DEF SessionInv, CallsInv, PhaseInv, EmitterInv, EmitterTypeOK, SessionTypeOK, InStep

(* A frame of the emitter that changes the outcome completes the reply,    *)
(* with every piece and every call of the turn before it.                  *)
LEMMA CompletedWhole ==
  ASSUME EmitterInv, EmitterStep, view'.outcome # view.outcome
  PROVE  /\ rxOpen /\ view'.outcome = "complete"
         /\ view'.deltas = pieces /\ view'.calls = view.calls
         /\ op.do \in {"stop", "finish", "calls"}
         /\ op.do = "finish" => view.calls = 0
         /\ op.do = "calls" => view.calls = op.all
<1> USE DEF EmitterInv, EmitterTypeOK, Sent, Refused, Decode
<1>1. CASE SendComplete
  <2> DEFINE f == IF protocol = "chat" THEN Because("complete", Why) ELSE Bare("complete")
  <2>1. rxOpen /\ view' = Decode(view, f) /\ f.type = "complete"
    BY <1>1 DEF SendComplete, Because, Bare
  <2> HIDE DEF f
  <2>2. view'.outcome = "complete" /\ view'.deltas = view.deltas /\ view'.calls = view.calls
    BY <2>1
  <2>3. op.do = "stop" \/ op.do = "finish" \/ (op.do = "calls" /\ op.sent = op.all)
    BY <1>1 DEF SendComplete, Concluding
  <2>4. view.deltas = pieces
    BY <2>1, <2>3 DEF InStep
  <2>5. op.do = "finish" => view.calls = 0
    BY <2>1 DEF InStep
  <2>6. op.do = "calls" => view.calls = op.all
    BY <2>1, <2>3 DEF InStep, OpShape, CallsSent, Op
  <2>7. QED
    BY <2>1, <2>2, <2>3, <2>4, <2>5, <2>6
<1>2. CASE EnsureStarted
  BY <1>2 DEF EnsureStarted, Bare
<1>3. CASE CloseBlock
  BY <1>3 DEF CloseBlock, Indexed
<1>4. CASE OpenBlock
  BY <1>4 DEF OpenBlock, BlockStart
<1>5. CASE SendDelta
  BY <1>5 DEF SendDelta, Delta
<1>6. CASE SendCall
  BY <1>6 DEF SendCall, Indexed
<1>7. CASE SendCallStop
  BY <1>7 DEF SendCallStop, Indexed
<1>8. CASE SendReason
  BY <1>8 DEF SendReason, Because
<1>9. QED
  BY <1>1, <1>2, <1>3, <1>4, <1>5, <1>6, <1>7, <1>8 DEF EmitterStep

(* A frame of the emitter that adds a call belongs to emit_tool_calls.     *)
LEMMA CallsAdded ==
  ASSUME EmitterInv, EmitterStep, view'.calls # view.calls
  PROVE  op.do = "calls" /\ rxOpen
<1> USE DEF EmitterInv, EmitterTypeOK, Sent, Refused, Decode
<1>1. CASE EnsureStarted \/ CloseBlock \/ OpenBlock
  BY <1>1 DEF EnsureStarted, CloseBlock, OpenBlock, Bare, Indexed, BlockStart
<1>2. CASE SendDelta \/ SendReason \/ SendCallStop
  BY <1>2 DEF SendDelta, SendReason, SendCallStop, Delta, Because, Indexed
<1>3. CASE SendComplete
  BY <1>3 DEF SendComplete, Because, Bare
<1>4. CASE SendCall
  BY <1>4 DEF SendCall
<1>5. QED
  BY <1>1, <1>2, <1>3, <1>4 DEF EmitterStep

(* No step gives the client an outcome the turn does not deserve.          *)
LEMMA OutcomeKept ==
  ASSUME SessionInv, OutcomeInv, [SessionNext]_sessionVars
  PROVE  OutcomeInv'
<1> USE DEF OutcomeInv, CompleteMeansWhole, CallsOnlyFromFinishedTurns, ErrorsAreUpstreams
<1>1. /\ EmitterInv /\ view.calls \in Nat /\ read \in Nat
      /\ view.outcome \in {"none", "complete", "error"}
  BY DEF SessionInv, SessionTypeOK, EmitterInv, EmitterTypeOK, View
<1>2. phase \in {"drive", "flush"} => view.calls = 0 /\ view.outcome = "none"
  BY DEF SessionInv, PhaseInv, CallsInv
<1>3. CASE Upstream
  BY <1>2, <1>3 DEF Upstream, UpstreamDelta, UpstreamEnds, UpstreamFails, UpstreamEndsEmpty, Polling,
                    emitterVars
<1>4. CASE NextEvent
  BY <1>2, <1>4 DEF NextEvent, EmitPiece, emitterVars
<1>5. CASE TaskSends
  <2> USE DEF TaskSends
  <2>1. CASE view.outcome # "none"
    BY <1>1, <1>5, <2>1, OutcomeFinal, EmitterStepFrame DEF SessionInv
  <2>2. CASE view.outcome = "none" /\ UNCHANGED <<view>>
    BY <1>1, <1>5, <2>2
  <2>3. CASE view.outcome = "none" /\ view'.outcome # "none"
    <3>1. /\ rxOpen /\ view'.outcome = "complete" /\ view'.deltas = pieces
          /\ view'.calls = view.calls /\ op.do \in {"stop", "finish", "calls"}
      BY <1>1, <1>5, <2>3, CompletedWhole
    <3>2. retired /\ upstream = "ended" /\ events = <<>>
      BY <3>1, <1>1, EmitterStepFrame, <1>5 DEF SessionInv, PhaseInv, EmitterInv, OpShape
    <3>3. view'.calls = captured
      BY <1>1, <1>5, <2>3, <3>1, CompletedWhole DEF SessionInv, CallsInv
    <3>4. QED
      BY <1>5, <3>1, <3>2, <3>3, EmitterStepFrame, <1>1
  <2>4. CASE view.outcome = "none" /\ view'.outcome = "none"
    <3>1. view'.calls # view.calls => upstream = "ended"
      BY <1>1, <1>5, CallsAdded, EmitterStepFrame DEF SessionInv, PhaseInv, EmitterInv, OpShape
    <3>2. QED
      BY <1>1, <1>5, <2>4, <3>1
  <2>5. QED
    BY <2>1, <2>2, <2>3, <2>4
<1>6. CASE Conclude
  BY <1>2, <1>6 DEF Conclude, EmitToolCalls, FinishText
<1>7. CASE Report
  <2>1. CASE rxOpen /\ ResultErr
    <3>1. ~failed /\ view' = Decode(view, Bare("error"))
      BY <1>7, <2>1 DEF Report, ErrorFrame, OtherSends, SessionInv, EmitterInv, InStep
    <3>2. ~retired
      BY <1>7, <2>1, <3>1 DEF Report, ResultErr, SessionInv, PhaseInv
    <3>3. view.calls = 0 /\ upstream # "open"
      BY <1>7, <3>2 DEF Report, SessionInv, CallsInv, PhaseInv
    <3>4. view'.outcome = "error" /\ view'.calls = 0
      BY <3>1, <3>3 DEF Decode, Bare
    <3>5. upstream' = upstream /\ read' = read
      BY <1>7 DEF Report
    <3>6. upstream = "failed" \/ (upstream = "ended" /\ read = 0)
      BY <2>1, <3>1, <3>3 DEF ResultErr, SessionInv, SessionTypeOK
    <3>7. QED
      BY <3>4, <3>5, <3>6
  <2>2. CASE ~(rxOpen /\ ResultErr)
    BY <1>7, <2>2 DEF Report, ErrorFrame, OtherSends, emitterVars
  <2>3. QED
    BY <2>1, <2>2
<1>8. CASE StreamOnceReturns \/ AbortKeepalive \/ Tick \/ Cancelled
  BY <1>8 DEF StreamOnceReturns, AbortKeepalive, Tick, Cancelled, emitterVars, taskVars
<1>9. CASE Ping \/ ClientLeaves
  BY <1>9 DEF Ping, ClientLeaves, Keepalive, OtherSends, Disconnect, Decode, Bare, taskVars
<1>10. CASE UNCHANGED sessionVars
  BY <1>10 DEF sessionVars, emitterVars
<1>11. QED
  BY <1>3, <1>4, <1>5, <1>6, <1>7, <1>8, <1>9, <1>10 DEF SessionNext, Task

(* At first the client has no outcome and no call.                         *)
LEMMA OutcomeInitially == SessionInit => OutcomeInv
  BY DEF SessionInit, EmitterInit, BlankView, OutcomeInv, CompleteMeansWhole,
         CallsOnlyFromFinishedTurns, ErrorsAreUpstreams

(* What an outcome and a call mean, always.                                *)
LEMMA OutcomeInvariant == SessionSpec => []OutcomeInv
<1>1. SessionInit => OutcomeInv
  BY OutcomeInitially
<1>2. SessionInv /\ OutcomeInv /\ [SessionNext]_sessionVars => OutcomeInv'
  BY OutcomeKept
<1>3. QED
  BY <1>1, <1>2, SessionInvariant, PTL DEF SessionSpec

(* A reply that says it is complete holds every piece and every call of a  *)
(* turn the upstream finished.                                             *)
THEOREM CompleteIsWhole == SessionSpec => []CompleteMeansWhole
<1>1. OutcomeInv => CompleteMeansWhole
  BY DEF OutcomeInv
<1>2. QED
  BY <1>1, OutcomeInvariant, PTL

(* No client is handed a tool call by a reply that may still fail.         *)
THEOREM CallsAreFinal == SessionSpec => []CallsOnlyFromFinishedTurns
<1>1. OutcomeInv => CallsOnlyFromFinishedTurns
  BY DEF OutcomeInv
<1>2. QED
  BY <1>1, OutcomeInvariant, PTL

(* A client that reads an error frame reads of an upstream that failed or  *)
(* sent no text.                                                           *)
THEOREM ErrorsAreHonest == SessionSpec => []ErrorsAreUpstreams
<1>1. OutcomeInv => ErrorsAreUpstreams
  BY DEF OutcomeInv
<1>2. QED
  BY <1>1, OutcomeInvariant, PTL

(* The body never ends under a connected client without an outcome.        *)
THEOREM EndsAreAnnounced == SessionSpec => []NoSilentEnd
<1>1. SessionInv => NoSilentEnd
  BY DEF SessionInv, PhaseInv, EmitterInv, InStep, NoSilentEnd, BodyEnded
<1>2. QED
  BY <1>1, SessionInvariant, PTL
=============================================================================
