------------------------ MODULE StreamEmitterProofs ------------------------
(***************************************************************************)
(* For every bound on pieces and calls: the emitter's fields and a decoder *)
(* of its stream stay in step (EmitterInv), and therefore every frame it   *)
(* sends is one the client's protocol allows next (WireWellFormed).        *)
(***************************************************************************)
EXTENDS StreamEmitter, TLAPS

(* The frame constructors build frames of the type they are named for.     *)
LEMMA FrameTyped ==
  ASSUME NEW i \in Nat, NEW n \in Nat, NEW k \in Kinds, NEW r \in Reasons, NEW t \in FrameTypes
  PROVE  /\ Bare(t) \in Frame /\ Bare(t).type = t
         /\ Indexed(t, i) \in Frame /\ Indexed(t, i).type = t
         /\ Because(t, r) \in Frame /\ Because(t, r).type = t
         /\ BlockStart(i, k) \in Frame /\ BlockStart(i, k).kind = k
         /\ Delta(i, k, n) \in Frame /\ Delta(i, k, n).type = "delta"
  BY DEF Bare, Indexed, BlockStart, Delta, Because, Frame, FrameTypes

(* A decoder's record stays one, whatever well-typed frame it reads.       *)
LEMMA DecodeTyped ==
  ASSUME NEW v \in View, NEW f \in Frame, f.type = "block_start" => f.kind \in Kinds
  PROVE  Decode(v, f) \in View
<1>1. /\ (v.started \/ f.type = "start") \in BOOLEAN
      /\ (v.reason \/ f.type = "reason") \in BOOLEAN
  OBVIOUS
<1>2. /\ v.open \in Kinds \cup {"none", "call"}
      /\ v.next \in Nat /\ v.deltas \in Nat /\ v.calls \in Nat
      /\ v.outcome \in {"none", "complete", "error"}
  BY DEF View
<1>3. QED
  BY <1>1, <1>2 DEF Decode, View

(* Every frame of the emitter leaves a well-typed decoder: what a Sent     *)
(* step and the other senders of the channel have in common.               *)
LEMMA EmittedTyped ==
  ASSUME EmitterInv,
         NEW f, \/ \E t \in FrameTypes \ {"block_start"}, r \in Reasons, i \in Nat :
                     f \in {Bare(t), Indexed(t, i), Because(t, r)}
                \/ \E k \in Kinds, i \in Nat, n \in Nat : f \in {BlockStart(i, k), Delta(i, k, n)}
  PROVE  Decode(view, f) \in View
<1>1. f \in Frame /\ (f.type = "block_start" => f.kind \in Kinds)
  <2>1. CASE \E t \in FrameTypes \ {"block_start"}, r \in Reasons, i \in Nat :
               f \in {Bare(t), Indexed(t, i), Because(t, r)}
    BY <2>1, FrameTyped DEF Kinds
  <2>2. CASE \E k \in Kinds, i \in Nat, n \in Nat : f \in {BlockStart(i, k), Delta(i, k, n)}
    BY <2>2, FrameTyped DEF Reasons, FrameTypes
  <2>3. QED
    BY <2>1, <2>2
<1>2. view \in View
  BY DEF EmitterInv, EmitterTypeOK
<1>3. QED
  BY <1>1, <1>2, DecodeTyped

-----------------------------------------------------------------------------
(* A new emitter satisfies the invariant.                                  *)
LEMMA EmitterInitially == EmitterInit => EmitterInv
<1> SUFFICES ASSUME EmitterInit PROVE EmitterInv
  OBVIOUS
<1>1. EmitterTypeOK
  <2>1. Bare("ping") \in Frame
    BY FrameTyped DEF FrameTypes, Kinds, Reasons
  <2>2. BlankView \in View
    BY <2>1 DEF BlankView, View
  <2>3. NoOp \in Op
    BY DEF NoOp, Begun, Op
  <2>4. QED
    BY <2>2, <2>3 DEF EmitterInit, EmitterTypeOK
<1>2. OpShape
  BY DEF EmitterInit, OpShape, NoOp, Begun
<1>3. InStep
  BY DEF EmitterInit, InStep, NoOp, Begun, BlankView
<1>4. QED
  BY <1>1, <1>2, <1>3 DEF EmitterInv

(* The idle operation is an operation.                                     *)
LEMMA NoOpTyped == NoOp \in Op
  BY DEF NoOp, Begun, Op

-----------------------------------------------------------------------------
(* A refused send ends the operation and changes nothing the decoder sees: *)
(* with the receiver gone, only the shape of the state is left to keep.    *)
LEMMA RefusedKeeps ==
  ASSUME EmitterInv, Refused,
         openBlock' = openBlock \/ openBlock' = "none",
         started' = started \/ (Enveloped /\ started' = TRUE),
         UNCHANGED <<protocol, rxOpen, nextIndex, retired, pieces>>
  PROVE  EmitterInv'
<1> USE DEF EmitterInv, EmitterTypeOK, Refused, Enveloped, Ready
<1>2. EmitterTypeOK'
  BY NoOpTyped
<1>3. OpShape'
  BY DEF NoOp, Begun, OpShape
<1>4. InStep'
  BY DEF InStep
<1>5. QED
  BY <1>2, <1>3, <1>4


(* The start envelope keeps the emitter and the decoder in step.           *)
LEMMA EnsureStartedKeeps == ASSUME EmitterInv, EnsureStarted PROVE EmitterInv'
<1> USE DEF EmitterInv, EmitterTypeOK, EnsureStarted, EmitterUntouched, Idle, Ready, Enveloped
<1>1. CASE Refused
  BY <1>1, RefusedKeeps DEF Refused, Sent
<1>2. CASE Sent(Bare("start"))
  <2>1. Decode(view, Bare("start")) \in View
    BY EmittedTyped DEF FrameTypes, Reasons, OpShape
  <2>2. op' \in Op
    BY <1>2, NoOpTyped DEF Sent, Refused, Op
  <2>3. EmitterTypeOK'
    BY <1>2, <2>1, <2>2 DEF Sent, Refused, OpShape
  <2>4. OpShape'
    BY <1>2 DEF Sent, Refused, NoOp, Begun, OpShape
  <2>5. InStep'
    BY <1>2 DEF Sent, Refused, NoOp, Begun, OpShape, InStep, Op, View, Decode, Bare, CallsSent
  <2>6. QED
    BY <2>3, <2>4, <2>5
<1>3. QED
  BY <1>1, <1>2

(* Closing a block keeps the emitter and the decoder in step.              *)
LEMMA CloseBlockKeeps == ASSUME EmitterInv, CloseBlock PROVE EmitterInv'
<1> USE DEF EmitterInv, EmitterTypeOK, CloseBlock, EmitterUntouched, Idle, Ready, Enveloped
<1>1. CASE Refused
  BY <1>1, RefusedKeeps DEF Refused, Sent
<1>2. CASE Sent(Indexed("block_stop", nextIndex))
  <2>1. Decode(view, Indexed("block_stop", nextIndex)) \in View
    BY EmittedTyped DEF FrameTypes, Reasons, OpShape
  <2>2. op' \in Op
    BY <1>2, NoOpTyped DEF Sent, Refused, Op
  <2>3. EmitterTypeOK'
    BY <1>2, <2>1, <2>2 DEF Sent, Refused, OpShape
  <2>4. OpShape'
    BY <1>2 DEF Sent, Refused, NoOp, Begun, OpShape
  <2>5. InStep'
    BY <1>2 DEF Sent, Refused, NoOp, Begun, OpShape, InStep, Op, View, Decode, Indexed, CallsSent
  <2>6. QED
    BY <2>3, <2>4, <2>5
<1>3. QED
  BY <1>1, <1>2

(* Opening a block keeps the emitter and the decoder in step.              *)
LEMMA OpenBlockKeeps == ASSUME EmitterInv, OpenBlock PROVE EmitterInv'
<1> USE DEF EmitterInv, EmitterTypeOK, OpenBlock, EmitterUntouched, Idle, Ready, Enveloped
<1>1. CASE Refused
  BY <1>1, RefusedKeeps DEF Refused, Sent
<1>2. CASE Sent(BlockStart(nextIndex, op.kind))
  <2>1. Decode(view, BlockStart(nextIndex, op.kind)) \in View
    BY EmittedTyped DEF FrameTypes, OpShape
  <2>2. op' \in Op
    BY <1>2, NoOpTyped DEF Sent, Refused, Op
  <2>3. EmitterTypeOK'
    BY <1>2, <2>1, <2>2 DEF Sent, Refused, OpShape
  <2>4. OpShape'
    BY <1>2 DEF Sent, Refused, NoOp, Begun, OpShape
  <2>5. InStep'
    BY <1>2 DEF Sent, Refused, NoOp, Begun, OpShape, InStep, Op, View, Decode, BlockStart, CallsSent
  <2>6. QED
    BY <2>3, <2>4, <2>5
<1>3. QED
  BY <1>1, <1>2

(* A delta keeps the emitter and the decoder in step.                      *)
LEMMA SendDeltaKeeps == ASSUME EmitterInv, SendDelta PROVE EmitterInv'
<1> USE DEF EmitterInv, EmitterTypeOK, SendDelta, EmitterUntouched, Idle, Ready, Enveloped
<1>1. CASE Refused
  BY <1>1, RefusedKeeps DEF Refused, Sent
<1>2. CASE Sent(Delta(nextIndex, op.kind, pieces))
  <2>1. Decode(view, Delta(nextIndex, op.kind, pieces)) \in View
    BY EmittedTyped DEF FrameTypes, OpShape
  <2>2. op' \in Op
    BY <1>2, NoOpTyped DEF Sent, Refused, Op
  <2>3. EmitterTypeOK'
    BY <1>2, <2>1, <2>2 DEF Sent, Refused, OpShape
  <2>4. OpShape'
    BY <1>2 DEF Sent, Refused, NoOp, Begun, OpShape
  <2>5. InStep'
    BY <1>2 DEF Sent, Refused, NoOp, Begun, OpShape, InStep, Op, View, Decode, Delta, CallsSent
  <2>6. QED
    BY <2>3, <2>4, <2>5
<1>3. QED
  BY <1>1, <1>2

(* The done frame of a call keeps the emitter and the decoder in step.     *)
LEMMA SendCallStopKeeps == ASSUME EmitterInv, SendCallStop PROVE EmitterInv'
<1> USE DEF EmitterInv, EmitterTypeOK, SendCallStop, EmitterUntouched, Idle, Ready, Enveloped
<1>1. CASE Refused
  BY <1>1, RefusedKeeps DEF Refused, Sent
<1>2. CASE Sent(Indexed("call_stop", nextIndex))
  <2>1. Decode(view, Indexed("call_stop", nextIndex)) \in View
    BY EmittedTyped DEF FrameTypes, Reasons, OpShape
  <2>2. /\ op' \in Op
      /\ op'.do = op.do
      /\ op'.kind = op.kind
      /\ op'.sent = op.sent + 1
      /\ op'.all = op.all
      /\ ~op'.half
    <3>1. op.sent + 1 \in Nat /\ FALSE \in BOOLEAN
      BY DEF Op
    <3>2. QED
      BY <1>2, <3>1 DEF Sent, Refused, Op
  <2>3. EmitterTypeOK'
    BY <1>2, <2>1, <2>2 DEF Sent, Refused, OpShape
  <2>4. OpShape'
    BY <1>2, <2>2 DEF Sent, Refused, OpShape, Op
  <2>5. InStep'
    BY <1>2, <2>2 DEF Sent, Refused, NoOp, Begun, OpShape, InStep, Op, View, Decode, Indexed, CallsSent
  <2>6. QED
    BY <2>3, <2>4, <2>5
<1>3. QED
  BY <1>1, <1>2

(* The stop reason keeps the emitter and the decoder in step.              *)
LEMMA SendReasonKeeps == ASSUME EmitterInv, SendReason PROVE EmitterInv'
<1> USE DEF EmitterInv, EmitterTypeOK, SendReason, EmitterUntouched, Idle, Ready, Enveloped, Concluding, Why
<1>1. CASE Refused
  BY <1>1, RefusedKeeps DEF Refused, Sent
<1>2. CASE Sent(Because("reason", Why))
  <2>1. Decode(view, Because("reason", Why)) \in View
    BY EmittedTyped DEF FrameTypes, Reasons, Why, OpShape
  <2>2. /\ op' \in Op
      /\ op'.do = "stop"
      /\ op'.kind = op.kind
      /\ op'.sent = op.sent
      /\ op'.all = op.all
      /\ op'.half = op.half
    BY <1>2 DEF Sent, Refused, Op
  <2>3. EmitterTypeOK'
    BY <1>2, <2>1, <2>2 DEF Sent, Refused, OpShape
  <2>4. OpShape'
    BY <1>2, <2>2 DEF Sent, Refused, OpShape, Op
  <2>5. InStep'
    BY <1>2, <2>2 DEF Sent, Refused, NoOp, Begun, OpShape, InStep, Op, View, Decode, Because, CallsSent
  <2>6. QED
    BY <2>3, <2>4, <2>5
<1>3. QED
  BY <1>1, <1>2

(* The frame that adds a call keeps the emitter and the decoder in step.   *)
LEMMA SendCallKeeps == ASSUME EmitterInv, SendCall PROVE EmitterInv'
<1> USE DEF EmitterInv, EmitterTypeOK, SendCall, EmitterUntouched, Idle, Ready, Enveloped
<1>1. CASE Refused
  BY <1>1, RefusedKeeps DEF Refused, Sent
<1>2. CASE Enveloped /\ Sent(Indexed("call", nextIndex)) /\ op' = [op EXCEPT !.half = TRUE]
  <2>1. Decode(view, Indexed("call", nextIndex)) \in View
    BY EmittedTyped DEF FrameTypes, Reasons
  <2>2. /\ op' \in Op
        /\ op'.do = op.do /\ op'.kind = op.kind
        /\ op'.sent = op.sent /\ op'.all = op.all /\ op'.half
    BY <1>2 DEF Op
  <2>3. EmitterTypeOK'
    BY <1>2, <2>1, <2>2 DEF Sent
  <2>4. OpShape'
    BY <1>2, <2>2 DEF Sent, OpShape, Op
  <2>5. InStep'
    BY <1>2, <2>2 DEF Sent, NoOp, Begun, OpShape, InStep, Op, View, Decode, Indexed, CallsSent
  <2>6. QED
    BY <2>3, <2>4, <2>5
<1>3. CASE ~Enveloped /\ Sent(Indexed("chat_call", op.sent)) /\ op' = [op EXCEPT !.sent = @ + 1]
  <2>1. Decode(view, Indexed("chat_call", op.sent)) \in View
    BY EmittedTyped DEF FrameTypes, Reasons, Op
  <2>2. /\ op' \in Op
        /\ op'.do = op.do /\ op'.kind = op.kind
        /\ op'.sent = op.sent + 1 /\ op'.all = op.all /\ ~op'.half
    BY <1>3 DEF Op
  <2>3. EmitterTypeOK'
    BY <1>3, <2>1, <2>2 DEF Sent
  <2>4. OpShape'
    BY <1>3, <2>2 DEF Sent, OpShape, Op
  <2>5. InStep'
    BY <1>3, <2>2 DEF Sent, NoOp, Begun, OpShape, InStep, Op, View, Decode, Indexed, CallsSent
  <2>6. QED
    BY <2>3, <2>4, <2>5
<1>4. QED
  BY <1>1, <1>2, <1>3

(* The terminal frame keeps the emitter and the decoder in step.           *)
LEMMA SendCompleteKeeps == ASSUME EmitterInv, SendComplete PROVE EmitterInv'
<1> USE DEF EmitterInv, EmitterTypeOK, SendComplete, EmitterUntouched, Idle, Ready, Enveloped
<1>1. CASE Refused
  BY <1>1, RefusedKeeps DEF Refused, Sent
<1>2. CASE rxOpen
  <2> DEFINE f == IF protocol = "chat" THEN Because("complete", Why) ELSE Bare("complete")
  <2>1. Sent(f) /\ op' = NoOp
    BY <1>2 DEF Refused
  <2>2. Decode(view, f) \in View
    BY EmittedTyped DEF FrameTypes, Reasons, Why
  <2>3. f.type = "complete"
    BY DEF Because, Bare
  <2> HIDE DEF f
  <2>4. EmitterTypeOK'
    BY <2>1, <2>2, NoOpTyped DEF Sent
  <2>5. OpShape'
    BY <2>1 DEF Sent, NoOp, Begun, OpShape
  <2>6. InStep'
    BY <2>1, <2>3 DEF Sent, NoOp, Begun, OpShape, InStep, Op, View, Decode, Concluding
  <2>7. QED
    BY <2>4, <2>5, <2>6
<1>3. QED
  BY <1>1, <1>2 DEF Sent

-----------------------------------------------------------------------------
(* The caller and the other senders of the channel.                        *)

(* Beginning an operation keeps the invariant.                             *)
LEMMA BeginKeeps ==
  ASSUME EmitterInv,
         (\E k \in Kinds : EmitPiece(k)) \/ (\E n \in Nat : EmitToolCalls(n)) \/ FinishText
  PROVE  EmitterInv'
<1> USE DEF EmitterInv, EmitterTypeOK, Idle, Ready, Enveloped
<1>1. ASSUME NEW k \in Kinds, EmitPiece(k) PROVE EmitterInv'
  <2>1. PieceOp(k) \in Op
    BY DEF PieceOp, NoOp, Begun, Op
  <2>2. EmitterTypeOK'
    BY <1>1, <2>1 DEF EmitPiece
  <2>3. OpShape'
    BY <1>1 DEF EmitPiece, PieceOp, NoOp, Begun, OpShape
  <2>4. InStep'
    BY <1>1 DEF EmitPiece, PieceOp, NoOp, Begun, OpShape, InStep, CallsSent
  <2>5. QED
    BY <2>2, <2>3, <2>4
<1>2. ASSUME NEW n \in Nat, EmitToolCalls(n) PROVE EmitterInv'
  <2>1. CallsOp(n) \in Op
    BY DEF CallsOp, NoOp, Begun, Op
  <2>2. EmitterTypeOK'
    BY <1>2, <2>1 DEF EmitToolCalls
  <2>3. OpShape'
    BY <1>2 DEF EmitToolCalls, CallsOp, NoOp, Begun, OpShape
  <2>4. InStep'
    BY <1>2 DEF EmitToolCalls, CallsOp, NoOp, Begun, OpShape, InStep, CallsSent
  <2>5. QED
    BY <2>2, <2>3, <2>4
<1>3. ASSUME FinishText PROVE EmitterInv'
  <2>1. FinishOp \in Op
    BY DEF FinishOp, NoOp, Begun, Op
  <2>2. EmitterTypeOK'
    BY <1>3, <2>1 DEF FinishText
  <2>3. OpShape'
    BY <1>3 DEF FinishText, FinishOp, NoOp, Begun, OpShape
  <2>4. InStep'
    BY <1>3 DEF FinishText, FinishOp, NoOp, Begun, OpShape, InStep, CallsSent
  <2>5. QED
    BY <2>2, <2>3, <2>4
<1>4. QED
  BY <1>1, <1>2, <1>3

(* The keepalive, the error report and the client's leaving keep it.       *)
LEMMA OthersKeep ==
  ASSUME EmitterInv, Keepalive \/ ReportError \/ Disconnect PROVE EmitterInv'
<1> USE DEF EmitterInv, EmitterTypeOK, Idle, Ready, Enveloped
<1>1. Decode(view, Bare("ping")) \in View /\ Decode(view, Bare("error")) \in View
  BY EmittedTyped DEF FrameTypes, Reasons
<1>2. CASE Keepalive
  BY <1>1, <1>2 DEF Keepalive, OtherSends, OpShape, InStep, Decode, Bare, View, CallsSent
<1>3. CASE ReportError
  BY <1>1, <1>3 DEF ReportError, ErrorFrame, OtherSends, OpShape, InStep, Decode, Bare, View, NoOp, Begun, CallsSent
<1>4. CASE Disconnect
  BY <1>4 DEF Disconnect, OpShape, InStep
<1>5. QED
  BY <1>2, <1>3, <1>4

(* Every frame of an operation keeps the invariant.                        *)
LEMMA EmitterStepKeeps == ASSUME EmitterInv, EmitterStep PROVE EmitterInv'
  BY EnsureStartedKeeps, CloseBlockKeeps, OpenBlockKeeps, SendDeltaKeeps, SendCallKeeps,
     SendCallStopKeeps, SendReasonKeeps, SendCompleteKeeps DEF EmitterStep

(* Every step of the emitter or around it keeps the invariant.             *)
LEMMA EmitterNextKeeps == ASSUME EmitterInv, [EmitterNext]_emitterVars PROVE EmitterInv'
<1>1. CASE EmitterNext
  BY <1>1, EmitterStepKeeps, BeginKeeps, OthersKeep, EmitterAssumption DEF EmitterNext
<1>2. CASE UNCHANGED emitterVars
  BY <1>2 DEF emitterVars, EmitterInv, EmitterTypeOK, OpShape, InStep, CallsSent, Idle, Ready,
              Enveloped
<1>3. QED
  BY <1>1, <1>2

(* The decoder and the emitter stay in step for ever.                      *)
THEOREM EmitterInvariant == EmitterSpec => []EmitterInv
<1>1. EmitterInit => EmitterInv
  BY EmitterInitially
<1>2. EmitterInv /\ [EmitterNext]_emitterVars => EmitterInv'
  BY EmitterNextKeeps
<1>3. QED
  BY <1>1, <1>2, PTL DEF EmitterSpec


-----------------------------------------------------------------------------
(* Implementation of the promise: in a state where emitter and decoder are *)
(* in step, each frame is one the decoder accepts next.                    *)

(* The instance of ClientStream reads frames as this module does.          *)
LEMMA SameWire ==
  /\ Promise!BlankView = BlankView /\ Promise!Protocols = Protocols
  /\ \A v, f : Promise!Decode(v, f) = Decode(v, f)
  /\ \A p, v : Promise!Acceptable(p, v) = Acceptable(p, v)
  BY DEF Promise!BlankView, BlankView, Promise!Protocols, Protocols, Promise!Decode, Decode,
         Promise!Acceptable, Promise!AcceptableChat, Promise!AcceptableBlocks,
         Promise!AcceptableBetween, Promise!StopReason, Promise!Bare, Promise!Indexed,
         Promise!Because, Promise!BlockStart, Promise!Delta, Promise!Kinds,
         Acceptable, AcceptableChat, AcceptableBlocks, AcceptableBetween, StopReason,
         Bare, Indexed, Because, BlockStart, Delta, Kinds

(* Before the stop reason of an operation under way, no part of the end of *)
(* the reply has been sent.                                                *)
LEMMA MidReply ==
  ASSUME EmitterInv, rxOpen, ~Idle
  PROVE  /\ view.outcome = "none"
         /\ op.do # "stop" => ~view.reason
         /\ Enveloped /\ started => view.started
         /\ view.open = "call" => op.half
         /\ view.next = nextIndex
<1>1. op.do # "none"
  BY DEF EmitterInv, OpShape, Idle
<1>2. op.do \in {"piece", "calls", "finish", "stop"}
  BY <1>1 DEF EmitterInv, EmitterTypeOK, Op
<1>3. openBlock # "call"
  BY DEF EmitterInv, EmitterTypeOK, Kinds
<1>4. QED
  BY <1>2, <1>3 DEF EmitterInv, OpShape, InStep

(* When everything but the last frames is out, the stop reason the code    *)
(* picks from its operation is the one the decoder expects from the calls. *)
LEMMA ConcludingAgrees ==
  ASSUME EmitterInv, Concluding
  PROVE  /\ ~Idle /\ ~op.half /\ op.do # "stop"
         /\ rxOpen => Why = StopReason(view)
<1>1. ~Idle /\ op.do # "stop"
  BY DEF Concluding, Idle, NoOp, Begun
<1>2. ~op.half
  BY DEF Concluding, EmitterInv, EmitterTypeOK, OpShape, Op
<1>3. rxOpen => Why = StopReason(view)
  BY <1>2 DEF Concluding, Why, StopReason, EmitterInv, EmitterTypeOK, OpShape, InStep, CallsSent, Op
<1>4. QED
  BY <1>1, <1>2, <1>3

(* Every frame of an operation is one the client accepts next.             *)
LEMMA EmitterStepPromised ==
  ASSUME EmitterInv, EmitterStep
  PROVE  UNCHANGED view
           \/ \E f \in Acceptable(protocol, view) : view' = Decode(view, f)
<1> USE DEF EmitterInv, EmitterTypeOK, Idle, Ready, Enveloped
<1>1. CASE EnsureStarted
  <2>1. rxOpen => Bare("start") \in Acceptable(protocol, view)
    BY <1>1 DEF EnsureStarted, InStep, Acceptable, AcceptableBlocks
  <2>2. QED
    BY <1>1, <2>1 DEF EnsureStarted, Sent, Refused
<1>2. CASE CloseBlock
  <2>1. rxOpen => Indexed("block_stop", nextIndex) \in Acceptable(protocol, view)
    <3>1. op.do # "stop" /\ ~op.half /\ openBlock \in Kinds
      BY <1>2 DEF CloseBlock, OpShape
    <3>2. QED
      BY <1>2, <3>1, MidReply DEF CloseBlock, InStep, OpShape, Acceptable, AcceptableBlocks, Kinds
  <2>2. QED
    BY <1>2, <2>1 DEF CloseBlock, Sent, Refused
<1>3. CASE OpenBlock
  <2>1. rxOpen => BlockStart(nextIndex, op.kind) \in Acceptable(protocol, view)
    BY <1>3 DEF OpenBlock, InStep, OpShape, Acceptable, AcceptableBlocks, AcceptableBetween
  <2>2. QED
    BY <1>3, <2>1 DEF OpenBlock, Sent, Refused
<1>4. CASE SendDelta
  <2>1. rxOpen => Delta(nextIndex, op.kind, pieces) \in Acceptable(protocol, view)
    BY <1>4 DEF SendDelta, InStep, OpShape, Acceptable, AcceptableBlocks, AcceptableChat, Kinds
  <2>2. QED
    BY <1>4, <2>1 DEF SendDelta, Sent, Refused
<1>5. CASE SendCall
  <2> USE DEF SendCall
  <2>1. ~Idle /\ (rxOpen => view.open = "none")
    BY <1>5 DEF NoOp, Begun, InStep
  <2>2. rxOpen /\ Enveloped => Indexed("call", nextIndex) \in Acceptable(protocol, view)
    BY <1>5, <2>1, MidReply DEF Acceptable, AcceptableBlocks, AcceptableBetween
  <2>3. rxOpen /\ ~Enveloped => Indexed("chat_call", op.sent) \in Acceptable(protocol, view)
    <3>1. rxOpen => view.calls = op.sent
      BY <1>5 DEF InStep, CallsSent, Op
    <3>2. QED
      BY <1>5, <2>1, <3>1, MidReply DEF Acceptable, AcceptableChat
  <2>4. QED
    BY <1>5, <2>2, <2>3 DEF Sent, Refused
<1>6. CASE SendCallStop
  <2>1. ~Idle /\ Enveloped /\ started /\ (rxOpen => view.open = "call")
    BY <1>6 DEF SendCallStop, NoOp, Begun, OpShape, InStep
  <2>2. rxOpen => Indexed("call_stop", nextIndex) \in Acceptable(protocol, view)
    BY <1>6, <2>1, MidReply DEF SendCallStop, Acceptable, AcceptableBlocks
  <2>3. QED
    BY <1>6, <2>2 DEF SendCallStop, Sent, Refused
<1>7. CASE SendReason
  <2>1. /\ ~Idle /\ ~op.half /\ op.do # "stop"
        /\ rxOpen => view.open = "none" /\ Why = StopReason(view)
    BY <1>7, ConcludingAgrees DEF SendReason, InStep
  <2>2. rxOpen => Because("reason", Why) \in Acceptable(protocol, view)
    BY <1>7, <2>1, MidReply DEF SendReason, Acceptable, AcceptableBlocks, AcceptableBetween
  <2>3. QED
    BY <1>7, <2>2 DEF SendReason, Sent, Refused
<1>8. CASE SendComplete
  <2>1. CASE rxOpen /\ protocol = "chat"
    <3>1. ~Idle /\ Why = StopReason(view)
      BY <1>8, <2>1, ConcludingAgrees DEF SendComplete
    <3>2. Because("complete", Why) \in Acceptable(protocol, view)
      BY <2>1, <3>1, MidReply DEF Acceptable, AcceptableChat
    <3>3. QED
      BY <1>8, <2>1, <3>2 DEF SendComplete, Sent, Refused
  <2>2. CASE rxOpen /\ protocol = "responses"
    <3>1. ~Idle /\ ~op.half /\ op.do # "stop" /\ view.open = "none"
      BY <1>8, <2>2, ConcludingAgrees DEF SendComplete, InStep
    <3>2. Bare("complete") \in Acceptable(protocol, view)
      BY <1>8, <2>2, <3>1, MidReply DEF SendComplete, Acceptable, AcceptableBlocks,
                                        AcceptableBetween
    <3>3. QED
      BY <1>8, <2>2, <3>2 DEF SendComplete, Sent, Refused
  <2>3. CASE rxOpen /\ protocol = "messages"
    <3>1. ~Idle /\ started /\ view.reason
      BY <1>8, <2>3 DEF SendComplete, NoOp, Begun, OpShape, InStep
    <3>2. Bare("complete") \in Acceptable(protocol, view)
      BY <2>3, <3>1, MidReply DEF Acceptable, AcceptableBlocks
    <3>3. QED
      BY <1>8, <2>3, <3>2 DEF SendComplete, Sent, Refused
  <2>4. QED
    BY <1>8, <2>1, <2>2, <2>3 DEF SendComplete, Sent, Refused, Protocols
<1>9. QED
  BY <1>1, <1>2, <1>3, <1>4, <1>5, <1>6, <1>7, <1>8 DEF EmitterStep

(* So are the frames the other senders put on the channel.                 *)
LEMMA OthersPromised ==
  ASSUME EmitterInv, Keepalive \/ ReportError
  PROVE  UNCHANGED view
           \/ \E f \in Acceptable(protocol, view) : view' = Decode(view, f)
<1>1. CASE Keepalive
  BY <1>1 DEF Keepalive, OtherSends, Acceptable
<1>2. CASE ReportError
  <2>1. rxOpen => view.outcome = "none"
    BY <1>2 DEF EmitterInv, InStep, ReportError, Idle
  <2>2. QED
    BY <1>2, <2>1 DEF ReportError, ErrorFrame, OtherSends, Acceptable
<1>3. QED
  BY <1>1, <1>2

(* What the emitter, the keepalive and the error report put on the channel *)
(* is a well-formed reply, for any number of pieces and calls and however  *)
(* the client's disconnect falls.                                          *)
THEOREM EmitterKeepsPromise == EmitterSpec => WireWellFormed
<1>1. EmitterInit => Promise!Init
  BY SameWire DEF EmitterInit, Promise!Init
<1>2. EmitterInv /\ [EmitterNext]_emitterVars => [Promise!Next]_(Promise!vars)
  <2> SUFFICES ASSUME EmitterInv, [EmitterNext]_emitterVars
               PROVE  [Promise!Next]_(Promise!vars)
    OBVIOUS
  <2> USE DEF Promise!Next, Promise!vars
  <2>1. CASE EmitterStep
    <3>1. UNCHANGED protocol
      BY <2>1 DEF EmitterStep, EnsureStarted, CloseBlock, OpenBlock, SendDelta, SendCall,
                  SendCallStop, SendReason, SendComplete, EmitterUntouched
    <3>2. QED
      BY <2>1, <3>1, EmitterStepPromised, SameWire
  <2>2. CASE Keepalive \/ ReportError
    <3>1. UNCHANGED protocol
      BY <2>2 DEF Keepalive, ReportError, ErrorFrame, OtherSends
    <3>2. QED
      BY <2>2, <3>1, OthersPromised, SameWire
  <2>3. CASE \/ \E k \in Kinds : EmitPiece(k)
             \/ \E n \in 1..MaxCalls : EmitToolCalls(n)
             \/ FinishText \/ Disconnect
    BY <2>3 DEF EmitPiece, EmitToolCalls, FinishText, Disconnect
  <2>4. CASE UNCHANGED emitterVars
    BY <2>4 DEF emitterVars
  <2>5. QED
    BY <2>1, <2>2, <2>3, <2>4 DEF EmitterNext
<1>3. QED
  BY <1>1, <1>2, EmitterInvariant, PTL DEF EmitterSpec, WireWellFormed, Promise!Spec
=============================================================================
