------------------------------ MODULE SseReader -----------------------------
(***************************************************************************)
(* drive_successful_stream (src/src/upstream.rs): the reader of a bridged  *)
(* turn.  It decodes every chunk by itself, cuts the buffer at blank lines *)
(* and hands the text of each frame to the turn.  One action is one poll   *)
(* of the body or one turn of the inner loop.                              *)
(***************************************************************************)
EXTENDS SseBody

VARIABLES buffer,        \* the decoded text behind the last complete frame
          read,          \* history: the frames cut from it
          deltas,        \* history: the calls of on_delta
          reader         \* polling, draining, or how the function returned

readerVars == <<buffer, read, deltas, reader>>

Poll(n) ==
  /\ reader = "polling"
  /\ Arrives(n)
  /\ buffer' = buffer \o Lossy(Chunk(n))
  /\ reader' = "draining"
  /\ UNCHANGED <<read, deltas>>

(* parse_sse_frame: no data, the end mark, text, or an error.              *)
Silent(data) == data \in {<<>>, <<"[DONE]">>}
Invalid(data) == ~Silent(data) /\ ~IsJson(data)
Given(data) == IF Silent(data) \/ Delta(data) = <<>> THEN <<>> ELSE <<Delta(data)>>

(* A mutant: one frame for every chunk.                                    *)
DrainedMutant ==
  /\ reader = "draining" /\ (Separator(buffer) = 0 \/ read = 1)
  /\ reader' = "polling"
  /\ UNCHANGED <<bodyVars, buffer, read, deltas>>

Drained ==
  /\ reader = "draining" /\ Separator(buffer) = 0
  /\ reader' = "polling"
  /\ UNCHANGED <<bodyVars, buffer, read, deltas>>

TakeFrame ==
  /\ reader = "draining" /\ Separator(buffer) # 0
  /\ buffer' = Behind(buffer)
  /\ read' = read + 1
  /\ deltas' = deltas \o (IF Invalid(Data(Frame(buffer))) THEN <<>> ELSE Given(Data(Frame(buffer))))
  /\ reader' = IF Invalid(Data(Frame(buffer))) THEN "invalid" ELSE "draining"
  /\ UNCHANGED bodyVars

(* `chunk?`: the connection breaks.                                        *)
TransportError ==
  /\ reader = "polling"
  /\ reader' = "broken"
  /\ UNCHANGED <<bodyVars, buffer, read, deltas>>

(* The end of the body: what is left counts as a frame.                    *)
StreamEnds ==
  /\ reader = "polling" /\ Exhausted
  /\ deltas' = deltas \o (IF Invalid(Data(buffer)) THEN <<>> ELSE Given(Data(buffer)))
  /\ reader' = IF Invalid(Data(buffer)) THEN "invalid"
               ELSE IF deltas' = <<>> THEN "empty" ELSE "ok"
  /\ UNCHANGED <<bodyVars, buffer, read>>

ReaderInit == buffer = <<>> /\ read = 0 /\ deltas = <<>> /\ reader = "polling"

Returned == reader \notin {"polling", "draining"}

ReaderNext ==
  (\E n \in 1..Len(body) : Poll(n)) \/ TakeFrame \/ Drained \/ TransportError \/ StreamEnds

ReaderSpec == BodyInit /\ ReaderInit /\ [][ReaderNext]_<<bodyVars, readerVars>>

-----------------------------------------------------------------------------
ReaderTypeOK ==
  /\ body \in Seq(STRING) /\ taken \in 0..Len(body)
  /\ buffer \in Seq(Atoms) /\ read \in Nat /\ deltas \in Seq(Seq(Atoms))
  /\ reader \in {"polling", "draining", "ok", "invalid", "empty", "broken"}

(* While it runs, the buffer is the end of what has arrived, a halved      *)
(* character aside, and between two chunks no complete frame is left in it.*)
Damaged(t, whole) ==
  /\ Len(t) = Len(whole)
  /\ \A i \in DOMAIN t : t[i] = whole[i] \/ (t[i] = "?" /\ whole[i] \in {"c1", "c2"})

ReaderBufferInv ==
  /\ Len(buffer) <= taken
  /\ ~Returned => Damaged(buffer, SubSeq(body, taken - Len(buffer) + 1, taken))
  /\ reader = "polling" => Separator(buffer) = 0

ReaderInv == ReaderTypeOK /\ ReaderBufferInv
=============================================================================
