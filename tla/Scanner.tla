------------------------------- MODULE Scanner ------------------------------
(***************************************************************************)
(* The streaming scanner (src/src/stream.rs): text arrives in chunks cut   *)
(* anywhere; prose is handed on as soon as it cannot be the beginning of a *)
(* tool call, and what looks like one is captured until it can be parsed.  *)
(* One action is one turn of the loop in feed.  The text of the turn is    *)
(* one of Documents; the upstream may end it anywhere.                     *)
(***************************************************************************)
EXTENDS XmlText

CONSTANT Documents       \* the texts a model may answer with

ASSUME DocumentsAssumption == \A d \in Documents : d \in Seq(STRING)

VARIABLES doc,           \* the text the upstream is sending
          given,         \* how much of it has been fed
          buf,           \* Scanner.buf
          capturing,     \* the tag whose closer ends the capture, or "none"
          mode,          \* between calls, in feed's loop, or finished
          out            \* history: the events returned so far

scannerVars == <<doc, given, buf, capturing, mode, out>>

(* START_MARKERS: an opening tag and the tag whose closer ends it.         *)
Markers == {"tool_call", "function_calls", "invoke", "name", "arguments"}
EndOf(m) == IF m = "name" THEN "tool_call" ELSE m

(* One event for every atom of emitted text, so that the events do not     *)
(* tell how the text was cut.                                              *)
Word(a) == [what |-> "text", name |-> <<a>>, arguments |-> <<>>]
Emitted(t) == [i \in 1..Len(t) |-> Word(t[i])]

(* A mutant: text that looked like a call and is none is dropped.          *)
ParsedMutant(full) == ParseToolCalls(full)

(* flush_parsed: calls, or the text where there are none.                  *)
Parsed(full) ==
  LET calls == ParseToolCalls(full) IN IF calls = <<>> THEN Emitted(full) ELSE calls

FirstMarker == FindOpen(buf, Markers, 1)

(* A mutant: a marker whose next character is unknown is not held back.    *)
AmbiguousLengthMutant ==
  IF buf # <<>> /\ Last(buf) = "<" THEN 1 ELSE 0

(* ambiguous_prefix_len                                                    *)
AmbiguousLength ==
  IF buf # <<>> /\ Last(buf) = "<" THEN 1
  ELSE IF Len(buf) >= 2 /\ buf[Len(buf) - 1] = "<" /\ Last(buf) \in Markers THEN 2
  ELSE 0

-----------------------------------------------------------------------------
Feed(n) ==
  /\ mode = "idle" /\ given + n <= Len(doc)
  /\ given' = given + n
  /\ buf' = buf \o SubSeq(doc, given + 1, given + n)
  /\ mode' = "feeding"
  /\ UNCHANGED <<doc, capturing, out>>

Capture == mode = "feeding" /\ capturing # "none"
Search == mode = "feeding" /\ capturing = "none"

EndMarker == CloseEnd(buf, {capturing}, 1)
Fragment == NextFragment(buf, 1, FALSE)

CutCapture(last) ==
  /\ out' = out \o Parsed(SubSeq(buf, 1, last))
  /\ buf' = From(buf, last + 1)
  /\ capturing' = "none"
  /\ UNCHANGED <<doc, given, mode>>

CutAtEndMarker ==
  Capture /\ EndMarker # 0 /\ CutCapture(EndMarker)

(* A mutant: the fragment is parsed and forgotten, with its calls.         *)
CutAtFragmentMutant ==
  /\ Capture /\ EndMarker = 0 /\ Fragment # NoFragment
  /\ buf' = From(buf, Fragment.last + 1)
  /\ capturing' = "none"
  /\ UNCHANGED <<doc, given, mode, out>>

(* The inner structure is complete before the end marker has come.         *)
CutAtFragment ==
  Capture /\ EndMarker = 0 /\ Fragment # NoFragment /\ CutCapture(Fragment.last)

(* A mutant: a capture that can be neither ended nor cut is given up.      *)
AwaitMoreMutant ==
  /\ Capture /\ EndMarker = 0 /\ Fragment = NoFragment
  /\ capturing' = "none"
  /\ UNCHANGED <<doc, given, buf, mode, out>>

AwaitMore ==
  /\ Capture /\ EndMarker = 0 /\ Fragment = NoFragment
  /\ mode' = "idle"
  /\ UNCHANGED <<doc, given, buf, capturing, out>>

(* A mutant: the prose before the marker is captured with it.              *)
StartCaptureMutant ==
  /\ Search /\ FirstMarker # 0
  /\ capturing' = EndOf(buf[FirstMarker + 1])
  /\ UNCHANGED <<doc, given, buf, mode, out>>

StartCapture ==
  /\ Search /\ FirstMarker # 0
  /\ out' = out \o Emitted(SubSeq(buf, 1, FirstMarker - 1))
  /\ buf' = From(buf, FirstMarker)
  /\ capturing' = EndOf(buf[FirstMarker + 1])
  /\ UNCHANGED <<doc, given, mode>>

EmitSafe ==
  /\ Search /\ FirstMarker = 0
  /\ out' = out \o Emitted(SubSeq(buf, 1, Len(buf) - AmbiguousLength))
  /\ buf' = From(buf, Len(buf) - AmbiguousLength + 1)
  /\ mode' = "idle"
  /\ UNCHANGED <<doc, given, capturing>>

Finish ==
  /\ mode = "idle"
  /\ IF buf = <<>> THEN UNCHANGED <<capturing, out>>
     ELSE capturing' = "none" /\ out' = out \o Parsed(buf)
  /\ buf' = <<>>
  /\ mode' = "finished"
  /\ UNCHANGED <<doc, given>>

-----------------------------------------------------------------------------
ScannerInit ==
  /\ doc \in Documents /\ given = 0
  /\ buf = <<>> /\ capturing = "none" /\ mode = "idle" /\ out = <<>>

Loop == CutAtEndMarker \/ CutAtFragment \/ AwaitMore \/ StartCapture \/ EmitSafe

ScannerNext == (\E n \in 1..Len(doc) : Feed(n)) \/ Loop \/ Finish

ScannerSpec == ScannerInit /\ [][ScannerNext]_scannerVars

-----------------------------------------------------------------------------
Outputs == [what : {"text", "call"}, name : Seq(STRING), arguments : Seq(STRING)]

ScannerTypeOK ==
  /\ doc \in Documents /\ given \in 0..Len(doc)
  /\ buf \in Seq(STRING) /\ out \in Seq(Outputs)
  /\ capturing \in {"none"} \cup Markers
  /\ mode \in {"idle", "feeding", "finished"}

(* The buffer is always the end of what was fed.  Between two calls it is  *)
(* a capture from its marker on, or at most the beginning of a marker, so  *)
(* that text is late only while it may still become a tool call; after     *)
(* finish it is empty.                                                     *)
Held == {<<>>, <<"<">>} \cup {<<"<", m>> : m \in Markers}

BufferInv ==
  /\ Len(buf) <= given /\ buf = SubSeq(doc, given - Len(buf) + 1, given)
  /\ mode = "idle" /\ capturing = "none" => buf \in Held
  /\ capturing # "none" => \E m \in Markers : capturing = EndOf(m) /\ Opens(buf, 1, {m})
  /\ mode = "finished" => buf = <<>> /\ capturing = "none"

ScannerInv == ScannerTypeOK /\ BufferInv

(* What the reply would carry without streaming (bridge_json): the calls   *)
(* of the whole text.                                                      *)
Fed == SubSeq(doc, 1, given)
WholeCalls == ParseToolCalls(Fed)

Markup ==
  {"<", "/", ">", "[[", "]]", "name", "name="} \cup Wrappers \cup ArgumentTags \cup ParameterTags
IsCall(e) == e.what = "call"
IsText(e) == e.what = "text"
EmittedText == FlattenSeq([i \in DOMAIN out |-> IF IsText(out[i]) THEN out[i].name ELSE <<>>])

IsWord(a) == a \notin Markup
Words(t) == SelectSeq(t, IsWord)
Content(e) == e.name \o e.arguments

(* Cut anywhere, a turn hands over the calls of its whole text, as a       *)
(* non-streaming reply does: none lost, none twice, none from a part.      *)
CallsAgree == mode = "finished" => SelectSeq(out, IsCall) = WholeCalls

(* Every word of the turn comes out exactly once and in its place, in the  *)
(* prose or in a call, however the text was cut and wherever it stopped:   *)
(* what only looked like a call is forwarded, and prose and calls keep the *)
(* order of the source.  (A text that stops inside a tag with an attribute *)
(* does not keep its promise: function calls may be read without that tag.)*)
StopsInTag == \E i \in DOMAIN Fed : Opens(Fed, i, Wrappers \cup ParameterTags) /\ TagEnd(Fed, i) = 0
NothingLost ==
  mode = "finished" /\ ~StopsInTag =>
    Words(FlattenSeq([i \in DOMAIN out |-> Content(out[i])])) = Words(Fed)

(* While the text streams, no opening tag of a call is ever emitted: a cut *)
(* inside the tag does not make prose of its first half.  (An arguments    *)
(* element that belongs to no call is prose.)                              *)
OpenersHidden ==
  mode # "finished" =>
    FindOpen(EmittedText, Markers \ {"arguments"}, 1) = 0

(* feed's loop terminates: every turn of it that does not return shortens  *)
(* the buffer, or starts a capture that the next turn shortens or awaits.  *)
Pending == 2 * Len(buf) + (IF capturing = "none" THEN 1 ELSE 0)
FeedAdvances ==
  [][mode = "feeding" /\ mode' = "feeding" => Pending' < Pending]_scannerVars

(* README.md: prose "that precedes or surrounds the tool_call blocks is    *)
(* forwarded": no prose of the whole text's reply is missing here.         *)
WholeText == IF WholeCalls = <<>> THEN Fed ELSE RemoveFragments(Fed)
ProseForwarded ==
  mode = "finished" /\ given = Len(doc)
    => Words(EmittedText) = Words(WholeText)

(* stream.rs: a ToolCall event means "a complete tool-call block was       *)
(* intercepted and parsed", and such blocks "never reach the client": of a *)
(* text that is nothing but blocks, nothing comes out but their calls,     *)
(* each with all of its arguments.                                         *)
BlocksIntercepted ==
  mode = "finished" /\ Fed = doc /\ RemoveFragments(doc) = <<>> => out = WholeCalls
=============================================================================
