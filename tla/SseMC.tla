-------------------------------- MODULE SseMC -------------------------------
(***************************************************************************)
(* The bodies that the two readers are checked on.                         *)
(***************************************************************************)
EXTENDS SseTurns

CONSTANT MaxFrames       \* bound on the blank lines of a body

Value == <<"data:", "json", "c1", "c2", "end">>
Opening == <<"data:", "json">>
Closing == <<"data:", "a", "end">>

(* The lines before a blank line: one value in one line or in two, half of *)
(* one, an event line, the end mark, none.  The last lines of a body may   *)
(* lack the blank line, or even their break.                               *)
Contents == {<<>>, <<Value>>, <<Opening, Closing>>, <<Opening>>, <<<<"ev">>, Value>>, <<<<"ev">>>>,
             <<<<"data:", "[DONE]">>>>}

Terminated(ls, break) == FlattenSeq([i \in DOMAIN ls |-> ls[i] \o break])
FramesSpelled(break) == {Terminated(Append(ls, <<>>), break) : ls \in Contents}
Tails(break) == {<<>>, Value, Value \o break}
Spelled(break) ==
  {FlattenSeq(fs) \o tail : fs \in BoundedSeq(FramesSpelled(break), MaxFrames), tail \in Tails(break)}
MCBodies == Spelled(<<"n">>) \cup Spelled(<<"r", "n">>)
=============================================================================
