------------------------------- MODULE Framing ------------------------------
(***************************************************************************)
(* What a reader of an event stream promises, whatever the chunks: the     *)
(* frames that are complete in what has arrived only ever grow at their    *)
(* end; they are handled one by one, in order and none twice; and no frame *)
(* that is complete waits for a later chunk or misses the end.             *)
(***************************************************************************)
EXTENDS Naturals, SequencesExt

VARIABLES complete,      \* the complete frames of what has arrived
          handled,       \* how many of them have been handled
          stage          \* "open", or how the stream was left

framingVars == <<complete, handled, stage>>

FramingInit == complete = <<>> /\ handled = 0 /\ stage = "open"

(* More may arrive after the reader has left; it goes unread.              *)
Arrive ==
  /\ stage = "open" => handled = Len(complete)
  /\ IsPrefix(complete, complete')
  /\ UNCHANGED <<handled, stage>>

Handle ==
  /\ stage = "open" /\ handled < Len(complete)
  /\ handled' = handled + 1
  /\ UNCHANGED <<complete, stage>>

(* The last frame handled may be the one that stops the reader.            *)
Fail ==
  /\ stage = "open" /\ stage' = "failed"
  /\ handled' \in {handled, handled + 1} /\ handled' <= Len(complete)
  /\ UNCHANGED complete

End ==
  /\ stage = "open" /\ handled = Len(complete)
  /\ stage' = "ended"
  /\ UNCHANGED <<complete, handled>>

FramingNext == Arrive \/ Handle \/ Fail \/ End

FramingSpec == FramingInit /\ [][FramingNext]_framingVars
=============================================================================
