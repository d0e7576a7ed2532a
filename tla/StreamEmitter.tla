---------------------------- MODULE StreamEmitter ---------------------------
(***************************************************************************)
(* NativeStreamEmitter (src/src/bridge.rs): turns reasoning and text       *)
(* pieces, then tool calls or the end of the text, into frames of the      *)
(* client's protocol.  One action is one send_event_now, so the keepalive  *)
(* task and the client's disconnect fall between any two frames.  A send   *)
(* fails exactly when the receiver is gone; the operation then returns Err *)
(* and keeps whatever it had already changed (started and open_block are   *)
(* set before the send, next_index after it).                              *)
(*                                                                         *)
(* The caller (stream_once) is the environment here: pieces in any order,  *)
(* then at most one emit_tool_calls or finish_text.  OtherSender stands    *)
(* for the two clones of the sender outside the emitter.                   *)
(***************************************************************************)
EXTENDS Wire

CONSTANTS MaxPieces,     \* bound on the pieces of one turn
          MaxCalls       \* bound on the tool calls of one turn

ASSUME EmitterAssumption == MaxPieces \in Nat /\ MaxCalls \in Nat

VARIABLES protocol,      \* the client's protocol, fixed for the turn
          started,       \* the start envelope has been attempted
          openBlock,     \* kind of the open block / item, or "none"
          nextIndex,     \* index of the next block / item
          op,            \* the operation under way
          failed,        \* some operation has returned Err
          retired,       \* no further operation: the emitter's last call was made
          pieces,        \* history: pieces handed to emit_piece
          rxOpen,        \* the receiver (the HTTP body) is alive
          view           \* history: a decoder that has read every frame enqueued

emitterVars == <<protocol, started, openBlock, nextIndex, op, failed, retired, pieces, rxOpen, view>>

(* The operation under way: a piece and its kind, the calls still to send  *)
(* out of `all` (`half`: added but not done), the end of the text, or the  *)
(* final frame after the Messages stop reason.                             *)
Op == [do : {"none", "piece", "calls", "finish", "stop"}, kind : Kinds \cup {"none"},
       sent : Nat, all : Nat, half : BOOLEAN]

Begun(do, k, n) == [do |-> do, kind |-> k, sent |-> 0, all |-> n, half |-> FALSE]

NoOp == Begun("none", "none", 0)
PieceOp(k) == Begun("piece", k, 0)
CallsOp(n) == Begun("calls", "none", n)
FinishOp == Begun("finish", "none", 0)

Idle == op = NoOp

(* Responses and Messages wrap everything in an envelope; Chat does not.   *)
Enveloped == protocol # "chat"
Ready == Enveloped => started

(* send_event_now: a frame reaches the channel, or the operation ends Err. *)
Sent(f) == rxOpen /\ view' = Decode(view, f) /\ UNCHANGED failed
Refused == ~rxOpen /\ op' = NoOp /\ failed' = TRUE /\ UNCHANGED view

EmitterUntouched == UNCHANGED <<protocol, rxOpen>>

-----------------------------------------------------------------------------
(* The caller's side.                                                      *)

EmitPiece(k) ==
  /\ Idle /\ ~retired /\ pieces < MaxPieces
  /\ op' = PieceOp(k)
  /\ pieces' = pieces + 1
  /\ UNCHANGED <<protocol, started, openBlock, nextIndex, failed, retired, rxOpen, view>>

EmitToolCalls(n) ==
  /\ Idle /\ ~retired /\ n > 0
  /\ op' = CallsOp(n)
  /\ retired' = TRUE
  /\ UNCHANGED <<protocol, started, openBlock, nextIndex, failed, pieces, rxOpen, view>>

FinishText ==
  /\ Idle /\ ~retired
  /\ op' = FinishOp
  /\ retired' = TRUE
  /\ UNCHANGED <<protocol, started, openBlock, nextIndex, failed, pieces, rxOpen, view>>

-----------------------------------------------------------------------------
(* The frames of one operation, in the order the code sends them.          *)

EnsureStarted ==
  /\ ~Idle /\ Enveloped /\ ~started
  /\ started' = TRUE
  /\ \/ Sent(Bare("start")) /\ UNCHANGED op
     \/ Refused
  /\ UNCHANGED <<openBlock, nextIndex, retired, pieces>> /\ EmitterUntouched

(* A mutant: next_index += 1 is lost when a block is closed.               *)
CloseBlockMutant ==
  /\ ~Idle /\ Ready /\ openBlock # "none"
  /\ op.do = "piece" => op.kind # openBlock
  /\ openBlock' = "none"
  /\ \/ Sent(Indexed("block_stop", nextIndex)) /\ UNCHANGED op
     \/ Refused
  /\ UNCHANGED <<started, nextIndex, retired, pieces>> /\ EmitterUntouched

(* open_block.take() comes before the send, next_index += 1 after it.      *)
CloseBlock ==
  /\ ~Idle /\ Ready /\ openBlock # "none"
  /\ op.do = "piece" => op.kind # openBlock
  /\ openBlock' = "none"
  /\ \/ /\ Sent(Indexed("block_stop", nextIndex))
        /\ nextIndex' = nextIndex + 1
        /\ UNCHANGED op
     \/ Refused /\ UNCHANGED nextIndex
  /\ UNCHANGED <<started, retired, pieces>> /\ EmitterUntouched

OpenBlock ==
  /\ op.do = "piece" /\ Enveloped /\ started /\ openBlock = "none"
  /\ \/ Sent(BlockStart(nextIndex, op.kind)) /\ openBlock' = op.kind /\ UNCHANGED op
     \/ Refused /\ UNCHANGED openBlock
  /\ UNCHANGED <<started, nextIndex, retired, pieces>> /\ EmitterUntouched

SendDelta ==
  /\ op.do = "piece"
  /\ Enveloped => started /\ openBlock = op.kind
  /\ \/ Sent(Delta(nextIndex, op.kind, pieces)) /\ op' = NoOp
     \/ Refused
  /\ UNCHANGED <<started, openBlock, nextIndex, retired, pieces>> /\ EmitterUntouched

(* Chat sends one frame per call, at the call's own index.                 *)
SendCall ==
  /\ op.do = "calls" /\ Ready /\ openBlock = "none" /\ ~op.half /\ op.sent < op.all
  /\ \/ /\ Enveloped
        /\ Sent(Indexed("call", nextIndex))
        /\ op' = [op EXCEPT !.half = TRUE]
     \/ /\ ~Enveloped
        /\ Sent(Indexed("chat_call", op.sent))
        /\ op' = [op EXCEPT !.sent = @ + 1]
     \/ Refused
  /\ UNCHANGED <<started, openBlock, nextIndex, retired, pieces>> /\ EmitterUntouched

(* A mutant: the call's index is taken for the next call as well.          *)
SendCallStopMutant ==
  /\ op.do = "calls" /\ op.half
  /\ \/ /\ Sent(Indexed("call_stop", nextIndex))
        /\ op' = [op EXCEPT !.half = FALSE, !.sent = @ + 1]
     \/ Refused
  /\ UNCHANGED <<started, openBlock, nextIndex, retired, pieces>> /\ EmitterUntouched

SendCallStop ==
  /\ op.do = "calls" /\ op.half
  /\ \/ /\ Sent(Indexed("call_stop", nextIndex))
        /\ nextIndex' = nextIndex + 1
        /\ op' = [op EXCEPT !.half = FALSE, !.sent = @ + 1]
     \/ Refused /\ UNCHANGED nextIndex
  /\ UNCHANGED <<started, openBlock, retired, pieces>> /\ EmitterUntouched

(* Everything but the last frame is out.                                   *)
Concluding == \/ op.do = "calls" /\ op.sent = op.all
              \/ op.do = "finish"

Why == IF op.do = "calls" THEN "tool_use" ELSE "end_turn"

SendReason ==
  /\ protocol = "messages" /\ Concluding /\ started /\ openBlock = "none"
  /\ \/ Sent(Because("reason", Why)) /\ op' = [op EXCEPT !.do = "stop"]
     \/ Refused
  /\ UNCHANGED <<started, openBlock, nextIndex, retired, pieces>> /\ EmitterUntouched

SendComplete ==
  /\ IF protocol = "messages" THEN op.do = "stop"
                              ELSE Concluding /\ Ready /\ openBlock = "none"
  /\ \/ /\ Sent(IF protocol = "chat" THEN Because("complete", Why) ELSE Bare("complete"))
        /\ op' = NoOp
     \/ Refused
  /\ UNCHANGED <<started, openBlock, nextIndex, retired, pieces>> /\ EmitterUntouched

EmitterStep == \/ EnsureStarted \/ CloseBlock \/ OpenBlock \/ SendDelta
               \/ SendCall \/ SendCallStop \/ SendReason \/ SendComplete

-----------------------------------------------------------------------------
(* The other holders of the sender, and the client.                        *)

OtherSends(f) ==
  /\ view' = IF rxOpen THEN Decode(view, f) ELSE view
  /\ UNCHANGED <<protocol, started, openBlock, nextIndex, op, failed, pieces, rxOpen>>

Keepalive == OtherSends(Bare("ping")) /\ UNCHANGED retired

(* The error frame that ends a turn; the emitter is gone by then.          *)
ErrorFrame == OtherSends(Bare("error")) /\ retired' = TRUE

(* What the contract allows: only for a turn that did not conclude well.   *)
ReportError == Idle /\ (retired => failed) /\ ErrorFrame

Disconnect ==
  /\ rxOpen
  /\ rxOpen' = FALSE
  /\ UNCHANGED <<protocol, started, openBlock, nextIndex, op, failed, retired, pieces, view>>

-----------------------------------------------------------------------------
EmitterInit ==
  /\ protocol \in Protocols
  /\ started = FALSE /\ openBlock = "none" /\ nextIndex = 0
  /\ op = NoOp /\ failed = FALSE /\ retired = FALSE /\ pieces = 0
  /\ rxOpen = TRUE /\ view = BlankView

EmitterNext ==
  \/ \E k \in Kinds : EmitPiece(k)
  \/ \E n \in 1..MaxCalls : EmitToolCalls(n)
  \/ FinishText
  \/ EmitterStep
  \/ Keepalive \/ ReportError \/ Disconnect

EmitterSpec == EmitterInit /\ [][EmitterNext]_emitterVars

-----------------------------------------------------------------------------
EmitterTypeOK ==
  /\ protocol \in Protocols
  /\ started \in BOOLEAN /\ openBlock \in Kinds \cup {"none"} /\ nextIndex \in Nat
  /\ op \in Op /\ failed \in BOOLEAN /\ retired \in BOOLEAN /\ pieces \in Nat
  /\ rxOpen \in BOOLEAN /\ view \in View

(* What the fields of the emitter say of each other.                      *)
OpShape ==
  /\ op.do = "none" => op = NoOp
  /\ op.do = "piece" => op.kind \in Kinds /\ ~retired
  /\ op.do \in {"calls", "finish", "stop"} => retired
  /\ op.do = "calls" => 0 < op.all /\ op.sent <= op.all
  /\ op.do \in {"piece", "finish"} => op.all = 0 /\ op.sent = 0
  /\ op.half => op.do = "calls" /\ op.sent < op.all /\ Enveloped
  /\ op.half \/ 0 < op.sent \/ op.do = "stop" => openBlock = "none" /\ Ready
  /\ op.do = "stop" => protocol = "messages"
  /\ openBlock # "none" => started
  /\ ~Enveloped => ~started /\ openBlock = "none" /\ nextIndex = 0

(* How many calls of the turn the decoder has been given.                  *)
CallsSent == op.sent + (IF op.half THEN 1 ELSE 0)

(* While the client is connected, a decoder of the stream and the emitter  *)
(* agree on the envelope, the open block, the next index, the number of    *)
(* deltas and calls so far and whether the turn is over; nothing has been  *)
(* refused.  This is the strengthening that makes WireWellFormed           *)
(* inductive: the indices the code writes come from next_index alone.      *)
InStep ==
  rxOpen =>
    /\ ~failed
    /\ view.started <=> started
    /\ view.open = IF op.half THEN "call" ELSE openBlock
    /\ view.next = nextIndex
    /\ view.deltas = IF op.do = "piece" THEN pieces - 1 ELSE pieces
    /\ op.do = "piece" => 0 < pieces
    /\ ~retired => view.calls = 0 /\ ~view.reason
    /\ op.do = "calls" => view.calls = CallsSent
    /\ op.do = "finish" => view.calls = 0
    /\ op.do \in {"calls", "finish"} => ~view.reason
    /\ op.do = "stop" => view.reason
    /\ view.outcome = "none" <=> (~retired \/ ~Idle)

EmitterInv == EmitterTypeOK /\ OpShape /\ InStep

(* The emitter, seen from the channel, is the promise made to the client.  *)
Promise == INSTANCE ClientStream

(* Every frame the code sends is one a strict decoder of that protocol     *)
(* accepts next: envelope first, one block open at a time, indices         *)
(* contiguous across close_*, add and done, one outcome, a stop reason     *)
(* that agrees with the calls, and no delta skipped or repeated.           *)
WireWellFormed == Promise!Spec
=============================================================================
