-------------------------------- MODULE Wire --------------------------------
(***************************************************************************)
(* The frames one bridged turn puts on the client's SSE stream, and the    *)
(* state of a decoder that has read a prefix of that stream.  Every frame  *)
(* is one `data: {json}` (or `: keepalive`) chunk handed to the unbounded  *)
(* channel between the bridge task and the HTTP body.  The channel is FIFO *)
(* and loses nothing while its receiver lives, so the decoder's state after *)
(* everything enqueued is a function of what was sent.                     *)
(*                                                                         *)
(* Names shared by the three client protocols:                             *)
(*   start       response.created | message_start          (chat: none)    *)
(*   block_start response.output_item.added | content_block_start          *)
(*   delta       a reasoning or text delta, the nth of the turn            *)
(*   block_stop  response.output_item.done | content_block_stop            *)
(*   call        the added / start frame of a tool call    (chat: none)    *)
(*   call_stop   the done / stop frame of that call        (chat: none)    *)
(*   chat_call   a tool_calls delta at the call's own index    (chat only) *)
(*   reason      message_delta with its stop_reason        (Messages only) *)
(*   complete    response.completed | message_stop | the chat chunk with a *)
(*               finish_reason                                             *)
(*   error       {"error": ...}          ping  the `: keepalive` comment   *)
(***************************************************************************)
EXTENDS Naturals

Protocols == {"chat", "responses", "messages"}

Kinds == {"Thinking", "Text"}

FrameTypes == {"start", "block_start", "delta", "block_stop", "call", "call_stop",
               "chat_call", "reason", "complete", "error", "ping"}

Reasons == {"end_turn", "tool_use"}

Frame == [type : FrameTypes, index : Nat, kind : Kinds \cup Reasons \cup {"none"}, nth : Nat]

Bare(type) == [type |-> type, index |-> 0, kind |-> "none", nth |-> 0]
Indexed(type, i) == [type |-> type, index |-> i, kind |-> "none", nth |-> 0]
BlockStart(i, k) == [type |-> "block_start", index |-> i, kind |-> k, nth |-> 0]
Delta(i, k, n) == [type |-> "delta", index |-> i, kind |-> k, nth |-> n]
Because(type, reason) == [type |-> type, index |-> 0, kind |-> reason, nth |-> 0]

(* What a decoder knows after a prefix of the stream. *)
View == [started : BOOLEAN,
         open    : Kinds \cup {"none", "call"},
         next    : Nat,
         deltas  : Nat,
         calls   : Nat,
         reason  : BOOLEAN,
         outcome : {"none", "complete", "error"},
         last    : Frame]

BlankView == [started |-> FALSE, open |-> "none", next |-> 0, deltas |-> 0, calls |-> 0,
              reason |-> FALSE, outcome |-> "none", last |-> Bare("ping")]

(* The decoder's bookkeeping for a frame it takes at face value.           *)
Decode(v, f) ==
  [started |-> v.started \/ f.type = "start",
   open    |-> IF f.type = "block_start" THEN f.kind
               ELSE IF f.type = "call" THEN "call"
               ELSE IF f.type \in {"block_stop", "call_stop"} THEN "none" ELSE v.open,
   next    |-> IF f.type \in {"block_stop", "call_stop"} THEN v.next + 1 ELSE v.next,
   deltas  |-> IF f.type = "delta" THEN v.deltas + 1 ELSE v.deltas,
   calls   |-> IF f.type \in {"call", "chat_call"} THEN v.calls + 1 ELSE v.calls,
   reason  |-> v.reason \/ f.type = "reason",
   outcome |-> IF f.type \in {"complete", "error"} THEN f.type ELSE v.outcome,
   last    |-> f]

-----------------------------------------------------------------------------
(* The grammar of a reply: the frames a strict decoder may be given next.  *)

StopReason(v) == IF v.calls > 0 THEN "tool_use" ELSE "end_turn"

(* Chat has no blocks: deltas, then calls numbered from 0, then the chunk  *)
(* with the finish_reason.                                                 *)
AcceptableChat(v) ==
  {Delta(0, k, v.deltas + 1) : k \in {kk \in Kinds : v.calls = 0}}
    \cup {Indexed("chat_call", v.calls), Because("complete", StopReason(v))}

(* Between two blocks: another block, a call, or the end of the reply.     *)
AcceptableBetween(p, v) ==
  {BlockStart(v.next, k) : k \in {kk \in Kinds : v.calls = 0}}
    \cup {Indexed("call", v.next)}
    \cup {IF p = "responses" THEN Bare("complete") ELSE Because("reason", StopReason(v))}

AcceptableBlocks(p, v) ==
  IF ~v.started THEN {Bare("start")}
  ELSE IF v.reason THEN {Bare("complete")}
  ELSE IF v.open = "none" THEN AcceptableBetween(p, v)
  ELSE IF v.open = "call" THEN {Indexed("call_stop", v.next)}
  ELSE {Delta(v.next, v.open, v.deltas + 1), Indexed("block_stop", v.next)}

(* A comment frame may come at any time, an error at any time before the   *)
(* outcome, and after the outcome nothing but comments.                    *)
Acceptable(p, v) ==
  {Bare("ping")} \cup
  IF v.outcome # "none" THEN {}
  ELSE {Bare("error")} \cup
       IF p = "chat" THEN AcceptableChat(v) ELSE AcceptableBlocks(p, v)
=============================================================================
