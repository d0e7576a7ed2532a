----------------------------- MODULE SseRewriter ----------------------------
(***************************************************************************)
(* SseModelRewriter and rewrite_sse_model_stream (src/src/bridge.rs): the  *)
(* body of a streamed passthrough turn, whose complete frames are sent on  *)
(* with the model the client asked for.  One action is one poll of the     *)
(* upstream or one turn of the loop in push.                               *)
(***************************************************************************)
EXTENDS SseBody

VARIABLES pending,       \* SseModelRewriter.pending
          rewritten,     \* history: the frames rewritten by push
          out,           \* history: the bytes sent to the client
          rewriter       \* polling, pushing, or how the body ended

rewriterVars == <<pending, rewritten, out, rewriter>>

(* str::from_utf8 refuses a frame with half a character in it.             *)
Utf8(f) ==
  \A i \in DOMAIN f :
    /\ f[i] = "c1" => i < Len(f) /\ f[i + 1] = "c2"
    /\ f[i] = "c2" => i > 1 /\ f[i - 1] = "c1"

(* rewrite_model_in_value: only a model that is there is overwritten.      *)
ClientModel(p) == [i \in DOMAIN p |-> IF p[i] = "json" THEN "own" ELSE p[i]]

(* A mutant: a data line is rewritten without a look at its value.         *)
RewriteLineMutant(l) == IF IsDataLine(l) THEN <<"data:">> \o ClientModel(Trim(Tail(l))) ELSE l

(* A data line with a value is serialised again; any other line is kept.   *)
RewriteLine(l) ==
  IF IsDataLine(l) /\ IsJson(Tail(l)) THEN <<"data:">> \o ClientModel(Trim(Tail(l))) ELSE l

(* Lines are joined by a line feed; empty ones before the first are lost.  *)
JoinRewritten(ls) ==
  LET full == {i \in DOMAIN ls : ls[i] # <<>>}
  IN  IF full = {} THEN <<>> ELSE Join(From(ls, Min(full)))

(* rewrite_sse_frame_bytes, of a frame without a blank line inside.        *)
RewriteFrame(f) ==
  LET lines == Lines(f)
  IN  IF ~Utf8(f) THEN f
      ELSE IF Trim(f) = <<>> THEN <<>>
      ELSE JoinRewritten([i \in DOMAIN lines |-> RewriteLine(lines[i])])

(* A mutant: the bytes are decoded before they are held back.              *)
PushMutant(n) ==
  /\ rewriter = "polling"
  /\ Arrives(n)
  /\ pending' = pending \o Lossy(Chunk(n))
  /\ rewriter' = "pushing"
  /\ UNCHANGED <<rewritten, out>>

Push(n) ==
  /\ rewriter = "polling"
  /\ Arrives(n)
  /\ pending' = pending \o Chunk(n)
  /\ rewriter' = "pushing"
  /\ UNCHANGED <<rewritten, out>>

RewriteNext ==
  /\ rewriter = "pushing" /\ Separator(pending) # 0
  /\ out' = out \o RewriteFrame(Frame(pending)) \o SeparatorOf(pending)
  /\ pending' = Behind(pending)
  /\ rewritten' = rewritten + 1
  /\ UNCHANGED <<bodyVars, rewriter>>

(* A mutant: what has come of a frame is sent on at once.                  *)
PushedMutant ==
  /\ rewriter = "pushing" /\ Separator(pending) = 0
  /\ out' = out \o pending
  /\ pending' = <<>>
  /\ rewriter' = "polling"
  /\ UNCHANGED <<bodyVars, rewritten>>

Pushed ==
  /\ rewriter = "pushing" /\ Separator(pending) = 0
  /\ rewriter' = "polling"
  /\ UNCHANGED <<bodyVars, pending, rewritten, out>>

(* The connection breaks: the client's body fails, a begun frame is lost.  *)
ConnectionBreaks ==
  /\ rewriter = "polling"
  /\ rewriter' = "failed"
  /\ UNCHANGED <<bodyVars, pending, rewritten, out>>

(* finish: what is left is rewritten as a frame.                           *)
Finished ==
  /\ rewriter = "polling" /\ Exhausted
  /\ out' = out \o (IF pending = <<>> THEN <<>> ELSE RewriteFrame(pending))
  /\ pending' = <<>>
  /\ rewriter' = "finished"
  /\ UNCHANGED <<bodyVars, rewritten>>

RewriterInit == pending = <<>> /\ rewritten = 0 /\ out = <<>> /\ rewriter = "polling"

RewriterNext == (\E n \in 1..Len(body) : Push(n)) \/ RewriteNext \/ Pushed \/ ConnectionBreaks \/ Finished

RewriterSpec == BodyInit /\ RewriterInit /\ [][RewriterNext]_<<bodyVars, rewriterVars>>

-----------------------------------------------------------------------------
RewriterTypeOK ==
  /\ body \in Seq(STRING) /\ taken \in 0..Len(body)
  /\ pending \in Seq(STRING) /\ out \in Seq(Atoms) /\ rewritten \in Nat
  /\ rewriter \in {"polling", "pushing", "finished", "failed"}

(* What is held back is the end of what has arrived, byte for byte, and    *)
(* never a frame that is complete.                                         *)
RewriterBufferInv ==
  /\ Len(pending) <= taken
  /\ rewriter # "finished" => pending = SubSeq(body, taken - Len(pending) + 1, taken)
  /\ rewriter = "polling" => Separator(pending) = 0

RewriterInv == RewriterTypeOK /\ RewriterBufferInv
=============================================================================
