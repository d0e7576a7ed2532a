-------------------------- MODULE ThinkingSplitter --------------------------
(***************************************************************************)
(* The splitter of leaked thinking (src/src/stream.rs): the text of a turn *)
(* that begins with "Thinking..." and a quoted line is thinking up to the  *)
(* first blank line.  It receives the text in chunks that may end between  *)
(* any two atoms, also inside the marker; "Thin" and "king..." are its     *)
(* halves, the other atoms are words.  The turn's text is one of Texts;    *)
(* the upstream may end it anywhere.                                       *)
(***************************************************************************)
EXTENDS TextLines

CONSTANTS Words,         \* the atoms that mean nothing to the splitter
          Texts          \* the texts a model may answer with

Markup == {"Thin", "king...", ">", "n", "r", " "}
Atoms == Markup \cup Words

ASSUME TextsAssumption == Words \cap Markup = {} /\ \A t \in Texts : t \in Seq(Atoms)

VARIABLES text,          \* the text of the turn
          fed,           \* how much of it has been fed
          state,         \* ThinkingSplitter.state, or "Finished"
          buf,           \* ThinkingSplitter.buf
          out,           \* history: the pieces returned
          shown          \* history: the thoughts among them, and their text as one

splitterVars == <<text, fed, state, buf, out, shown>>

Title == <<"Thin", "king...">>
LfMarker == Title \o <<"n", ">">>
CrlfMarker == Title \o <<"r", "n", ">">>

Marked(t) == IsPrefix(LfMarker, t) \/ IsPrefix(CrlfMarker, t)
MayBecomeMarked(t) == IsPrefix(t, LfMarker) \/ IsPrefix(t, CrlfMarker)
Unmarked(t) == From(t, IF IsPrefix(LfMarker, t) THEN 4 ELSE 5)

Thinking(t) == IF t = <<>> THEN <<>> ELSE <<[kind |-> "Thinking", content |-> t]>>
Text(t) == IF t = <<>> THEN <<>> ELSE <<[kind |-> "Text", content |-> t]>>

View(thoughts, words) == [thoughts |-> thoughts, text |-> words]
Thought(t) == IF t = <<>> THEN <<>> ELSE <<t>>
ReturnsThought(t) == out' = out \o Thinking(t) /\ shown' = View(shown.thoughts \o Thought(t), shown.text)
ReturnsText(t) == out' = out \o Text(t) /\ shown' = View(shown.thoughts, shown.text \o t)

(* strip_thinking_prefixes                                                 *)
WithoutSpace(l) == IF l # <<>> /\ Head(l) = " " THEN Tail(l) ELSE l
Unquoted(l) == IF l # <<>> /\ Head(l) = ">" THEN WithoutSpace(Tail(l)) ELSE l
UnquotedLines(ls) == Trim(Join([i \in DOMAIN ls |-> Unquoted(ls[i])]))
StripPrefixes(t) == UnquotedLines(Lines(t))

(* first_blank_line splits a text as find_sse_separator does a stream.     *)
HasBlankLine(t) == Separator(t) # 0

-----------------------------------------------------------------------------
Receive(n) ==
  /\ state # "Finished" /\ fed + n <= Len(text)
  /\ fed' = fed + n
  /\ UNCHANGED text

Arrived(n) == buf \o SubSeq(text, fed + 1, fed + n)

(* A mutant: what cannot be told yet is taken for text.                    *)
HoldMarkerMutant(n) ==
  /\ Receive(n) /\ state = "Initial"
  /\ ~Marked(Arrived(n)) /\ MayBecomeMarked(Arrived(n))
  /\ ReturnsText(Arrived(n)) /\ buf' = <<>>
  /\ state' = "Text"

(* feed: the beginning of a marker is kept until it can be told from text. *)
HoldMarker(n) ==
  /\ Receive(n) /\ state = "Initial"
  /\ ~Marked(Arrived(n)) /\ MayBecomeMarked(Arrived(n))
  /\ buf' = Arrived(n)
  /\ UNCHANGED <<state, out, shown>>

StartText(n) ==
  /\ Receive(n) /\ state = "Initial"
  /\ ~Marked(Arrived(n)) /\ ~MayBecomeMarked(Arrived(n))
  /\ ReturnsText(Arrived(n)) /\ buf' = <<>>
  /\ state' = "Text"

(* A mutant: the text behind the blank line waits for the next chunk.      *)
FlushThinkingMutant(t) ==
  \/ /\ ~HasBlankLine(t)
     /\ buf' = t /\ state' = "Thinking"
     /\ UNCHANGED <<out, shown>>
  \/ /\ HasBlankLine(t)
     /\ ReturnsThought(StripPrefixes(Frame(t)))
     /\ buf' = Behind(t) /\ state' = "Text"

(* flush_thinking, of a buffer without the marker's first line.            *)
FlushThinking(t) ==
  \/ /\ ~HasBlankLine(t)
     /\ buf' = t /\ state' = "Thinking"
     /\ UNCHANGED <<out, shown>>
  \/ /\ HasBlankLine(t)
     /\ out' = out \o Thinking(StripPrefixes(Frame(t))) \o Text(Behind(t))
     /\ shown' = View(shown.thoughts \o Thought(StripPrefixes(Frame(t))), shown.text \o Behind(t))
     /\ buf' = <<>> /\ state' = "Text"

StartThinking(n) ==
  /\ Receive(n) /\ state = "Initial"
  /\ Marked(Arrived(n))
  /\ FlushThinking(Unmarked(Arrived(n)))

ContinueThinking(n) ==
  /\ Receive(n) /\ state = "Thinking"
  /\ FlushThinking(Arrived(n))

(* A mutant: text that begins a new thought is split off again.            *)
ContinueTextMutant(n) ==
  /\ Receive(n) /\ state = "Text"
  /\ \/ Marked(Arrived(n)) /\ FlushThinking(Unmarked(Arrived(n)))
     \/ ~Marked(Arrived(n)) /\ ReturnsText(Arrived(n)) /\ buf' = <<>> /\ UNCHANGED state

ContinueText(n) ==
  /\ Receive(n) /\ state = "Text"
  /\ ReturnsText(Arrived(n)) /\ buf' = <<>>
  /\ UNCHANGED state

(* A mutant: what is left of a thought is not looked at.                   *)
FinishMutant ==
  /\ state # "Finished" /\ state' = "Finished"
  /\ IF state = "Thinking" THEN UNCHANGED <<out, shown>> ELSE ReturnsText(buf)
  /\ buf' = <<>>
  /\ UNCHANGED <<text, fed>>

Finish ==
  /\ state # "Finished" /\ state' = "Finished"
  /\ IF state = "Thinking" THEN ReturnsThought(StripPrefixes(buf)) ELSE ReturnsText(buf)
  /\ buf' = <<>>
  /\ UNCHANGED <<text, fed>>

SplitterInit ==
  /\ text \in Texts /\ fed = 0 /\ state = "Initial" /\ buf = <<>>
  /\ out = <<>> /\ shown = View(<<>>, <<>>)

Feed(n) == HoldMarker(n) \/ StartText(n) \/ StartThinking(n) \/ ContinueThinking(n) \/ ContinueText(n)

SplitterNext == (\E n \in 1..Len(text) : Feed(n)) \/ Finish

SplitterSpec == SplitterInit /\ [][SplitterNext]_splitterVars

-----------------------------------------------------------------------------
SplitterTypeOK ==
  /\ text \in Seq(Atoms) /\ fed \in 0..Len(text)
  /\ state \in {"Initial", "Thinking", "Text", "Finished"}
  /\ buf \in Seq(Atoms)
  /\ out \in Seq([kind : {"Thinking", "Text"}, content : Seq(Atoms)])
  /\ shown \in [thoughts : Seq(Seq(Atoms)), text : Seq(Atoms)]

(* What the buffer may hold in each state: text that has been released is  *)
(* not held, and what is held has not been released.                       *)
Prefix == SubSeq(text, 1, fed)
HoldInv ==
  /\ state = "Initial" => out = <<>> /\ buf = Prefix /\ MayBecomeMarked(buf) /\ ~Marked(buf)
  /\ state = "Thinking" =>
       out = <<>> /\ Marked(Prefix) /\ buf = Unmarked(Prefix) /\ ~HasBlankLine(buf)
  /\ state \in {"Text", "Finished"} => buf = <<>>

SplitterInv == SplitterTypeOK /\ HoldInv

(* What StreamSession assumes of the splitter (Releasable): thinking is    *)
(* released at most once and before any text.                              *)
ThinkingLeads == \A i \in DOMAIN out : out[i].kind = "Thinking" => i = 1

-----------------------------------------------------------------------------
(* The splitting of a whole text, without a buffer.                        *)
ViewOfQuoted(t, over) ==
  IF HasBlankLine(t) THEN View(Thought(StripPrefixes(Frame(t))), Behind(t))
  ELSE View(IF over THEN Thought(StripPrefixes(t)) ELSE <<>>, <<>>)
ViewOf(t, over) ==
  IF Marked(t) THEN ViewOfQuoted(Unmarked(t), over)
  ELSE IF MayBecomeMarked(t) /\ ~over THEN View(<<>>, <<>>)
  ELSE View(<<>>, t)

(* What has been released, and so what a client has seen, is determined by *)
(* the text that has arrived: how the upstream cut it does not show, and   *)
(* nothing is held that can no longer be the beginning of a thought.       *)
CutsDoNotShow == shown = ViewOf(Prefix, state = "Finished")

(* No word is lost on the way, none is repeated, and all keep their order. *)
WordsOf(t) == Kept(t, Words)
NoWordLost ==
  state = "Finished" => WordsOf(FlattenSeq(shown.thoughts) \o shown.text) = WordsOf(Prefix)

(* str::trim_start.                                                        *)
TrimStart(t) ==
  LET solid == {i \in DOMAIN t : t[i] \notin Blanks}
  IN  IF solid = {} THEN <<>> ELSE From(t, Min(solid))

(* split_leading_thinking (src/src/upstream.rs), which splits the whole    *)
(* text of a reply that is not streamed; it returns None when no thought   *)
(* ends, and when the one that ends is nothing but quotation marks.        *)
NotSplit == [thinking |-> <<>>, text |-> <<>>]

(* A mutant: only a blank line of line feeds ends the thought.             *)
SplitAtBlankLineMutant(t) ==
  LET at == FirstOf({i \in DOMAIN t : LfLf(t, i)})
      thinking == StripPrefixes(SubSeq(t, 1, at - 1))
  IN  IF at # 0 /\ thinking # <<>> THEN [thinking |-> thinking, text |-> TrimStart(From(t, at + 2))]
      ELSE NotSplit

SplitAtBlankLine(t) ==
  IF HasBlankLine(t) /\ StripPrefixes(Frame(t)) # <<>>
  THEN [thinking |-> StripPrefixes(Frame(t)), text |-> TrimStart(Behind(t))]
  ELSE NotSplit
SplitLeadingThinking(t) == IF Marked(t) THEN SplitAtBlankLine(Unmarked(t)) ELSE NotSplit

(* What a reply that is not streamed shows of a text: what is not split is *)
(* its text as it stands, marker included.                                 *)
WholeReply(t) ==
  LET split == SplitLeadingThinking(t)
  IN  IF split = NotSplit THEN View(<<>>, t) ELSE View(<<split.thinking>>, split.text)

(* A streamed reply and one that is not show the same thoughts and,        *)
(* leading blanks apart, the same text.  They part on two texts, both of   *)
(* which the reply that is not streamed leaves as they are: of a thought   *)
(* that never ended the stream shows no text, all of it being thinking;    *)
(* and of a thought of nothing but quotation marks that did end, the       *)
(* stream drops the marker and the marks and no word.                      *)
StreamAgreesWithReply ==
  LET reply == WholeReply(Prefix)
      left == Marked(Prefix) /\ reply = View(<<>>, Prefix)
  IN  state = "Finished" =>
        \/ shown.thoughts = reply.thoughts /\ reply.text \in {shown.text, TrimStart(shown.text)}
        \/ left /\ ~HasBlankLine(Unmarked(Prefix)) /\ shown.text = <<>>
        \/ left /\ shown.thoughts = <<>> /\ WordsOf(shown.text) = WordsOf(Prefix)
=============================================================================
