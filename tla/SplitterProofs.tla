---------------------------- MODULE SplitterProofs --------------------------
(***************************************************************************)
(* What holds of the thinking splitter for every set of texts and every    *)
(* way of cutting them: what it has released is determined by what has     *)
(* arrived, and a thought comes before everything else.                    *)
(***************************************************************************)
EXTENDS ThinkingSplitter, TextLinesProofs

(* A prefix of a text is one of the longer text.                           *)
LEMMA PrefixGrows ==
  ASSUME NEW A, NEW s \in Seq(A), NEW t \in Seq(A), NEW c \in Seq(A), IsPrefix(s, t)
  PROVE  IsPrefix(s, t \o c)
<1>1. Len(s) <= Len(t) /\ \A i \in 1..Len(s) : s[i] = t[i]
  BY PrefixByPlaces
<1>2. t \o c \in Seq(A) /\ Len(t \o c) = Len(t) + Len(c)
  OBVIOUS
<1>3. Len(s) <= Len(t \o c) /\ \A i \in 1..Len(s) : s[i] = (t \o c)[i]
  BY <1>1, <1>2
<1> QED
  BY <1>2, <1>3, PrefixByPlaces

(* Of a text and the beginning of a longer one, one is a prefix of the     *)
(* other: which one, tells their lengths.                                  *)
LEMMA PrefixOfBeginning ==
  ASSUME NEW A, NEW s \in Seq(A), NEW t \in Seq(A), NEW c \in Seq(A), IsPrefix(s, t \o c)
  PROVE  /\ Len(s) <= Len(t) => IsPrefix(s, t)
         /\ Len(t) <= Len(s) => IsPrefix(t, s)
<1>1. t \o c \in Seq(A) /\ Len(t \o c) = Len(t) + Len(c)
  OBVIOUS
<1> DEFINE u == t \o c
<1>a. u \in Seq(A) /\ IsPrefix(s, u)
  BY <1>1
<1> HIDE DEF u
<1>b. \A i \in 1..Len(s) : s[i] = u[i]
  BY <1>a, PrefixByPlaces
<1>2. \A i \in 1..Len(s) : s[i] = (t \o c)[i]
  BY <1>b DEF u
<1>3. ASSUME NEW i \in 1..Len(s), i <= Len(t) PROVE s[i] = t[i]
  BY <1>2, <1>3
<1>4. ASSUME Len(s) <= Len(t) PROVE IsPrefix(s, t)
  <2>1. \A i \in 1..Len(s) : s[i] = t[i]
    BY <1>3, <1>4
  <2> QED
    BY <1>4, <2>1, PrefixByPlaces
<1>5. ASSUME Len(t) <= Len(s) PROVE IsPrefix(t, s)
  <2>1. \A i \in 1..Len(t) : t[i] = s[i]
    BY <1>3, <1>5
  <2> QED
    BY <1>5, <2>1, PrefixByPlaces
<1> QED
  BY <1>4, <1>5

(* What begins as a longer text does begins as the text does.              *)
LEMMA BeginningIsPrefix ==
  ASSUME NEW A, NEW s \in Seq(A), NEW t \in Seq(A), NEW c \in Seq(A), IsPrefix(t \o c, s)
  PROVE  IsPrefix(t, s)
<1>1. t \o c \in Seq(A) /\ Len(t \o c) = Len(t) + Len(c)
  OBVIOUS
<1>2. Len(t) + Len(c) <= Len(s) /\ \A i \in 1..(Len(t) + Len(c)) : (t \o c)[i] = s[i]
  BY <1>1, PrefixByPlaces
<1>3. Len(t) <= Len(s) /\ \A i \in 1..Len(t) : t[i] = s[i]
  BY <1>2
<1> QED
  BY <1>3, PrefixByPlaces

-----------------------------------------------------------------------------
(* The two markers.                                                        *)
LEMMA MarkerShapes ==
  /\ LfMarker \in Seq(Atoms) /\ Len(LfMarker) = 4
  /\ CrlfMarker \in Seq(Atoms) /\ Len(CrlfMarker) = 5
<1>1. /\ "Thin" \in Atoms /\ "king..." \in Atoms
      /\ "n" \in Atoms /\ "r" \in Atoms /\ ">" \in Atoms
  BY DEF Atoms, Markup
<1>2. ASSUME NEW a \in Atoms, NEW b \in Atoms, NEW c \in Atoms
      PROVE  /\ <<a, b>> \in Seq(Atoms) /\ Len(<<a, b>>) = 2
             /\ <<a, b, c>> \in Seq(Atoms) /\ Len(<<a, b, c>>) = 3
  OBVIOUS
<1> DEFINE lf == <<"n", ">">>
           crlf == <<"r", "n", ">">>
<1>4. /\ Title \in Seq(Atoms) /\ Len(Title) = 2
      /\ lf \in Seq(Atoms) /\ Len(lf) = 2
      /\ crlf \in Seq(Atoms) /\ Len(crlf) = 3
  BY <1>1, <1>2, Zenon DEF Title
<1>5. LfMarker = Title \o lf /\ CrlfMarker = Title \o crlf
  BY DEF LfMarker, CrlfMarker
<1> HIDE DEF lf, crlf
<1>6. Title \o lf \in Seq(Atoms) /\ Len(Title \o lf) = Len(Title) + Len(lf)
  BY <1>4, ConcatShape, Zenon
<1>7. Title \o crlf \in Seq(Atoms) /\ Len(Title \o crlf) = Len(Title) + Len(crlf)
  BY <1>4, ConcatShape, Zenon
<1> QED
  BY <1>4, <1>5, <1>6, <1>7

(* A marked text stays marked, and what follows its first line grows.      *)
LEMMA MarkedStays ==
  ASSUME NEW t \in Seq(Atoms), NEW c \in Seq(Atoms), Marked(t)
  PROVE  /\ Marked(t \o c)
         /\ Unmarked(t) \in Seq(Atoms)
         /\ Unmarked(t \o c) = Unmarked(t) \o c
<1>1. Marked(t \o c)
  BY MarkerShapes, PrefixGrows DEF Marked
<1>2. Len(t) >= 4 /\ (~IsPrefix(LfMarker, t) => Len(t) >= 5)
  <2>1. IsPrefix(LfMarker, t) => Len(LfMarker) <= Len(t)
    BY MarkerShapes, PrefixByPlaces
  <2>2. IsPrefix(CrlfMarker, t) => Len(CrlfMarker) <= Len(t)
    BY MarkerShapes, PrefixByPlaces
  <2>3. Len(t) \in Nat
    OBVIOUS
  <2> QED
    BY <2>1, <2>2, <2>3, MarkerShapes DEF Marked
<1>3. IsPrefix(LfMarker, t \o c) <=> IsPrefix(LfMarker, t)
  BY <1>2, MarkerShapes, PrefixGrows, PrefixOfBeginning
<1> DEFINE i == IF IsPrefix(LfMarker, t) THEN 4 ELSE 5
<1>4. i \in 1..(Len(t) + 1)
  BY <1>2
<1>5. Unmarked(t) = From(t, i) /\ Unmarked(t \o c) = From(t \o c, i)
  BY <1>3 DEF Unmarked
<1> HIDE DEF i
<1>6. From(t, i) \in Seq(Atoms)
  BY <1>4, FromRest
<1>7. From(t \o c, i) = From(t, i) \o c
  BY <1>4, FromConcat
<1> QED
  BY <1>1, <1>5, <1>6, <1>7

(* A text that is no marker and cannot become one never does.              *)
LEMMA UnmarkedStays ==
  ASSUME NEW t \in Seq(Atoms), NEW c \in Seq(Atoms), ~Marked(t), ~MayBecomeMarked(t)
  PROVE  ~Marked(t \o c) /\ ~MayBecomeMarked(t \o c)
<1>1. ASSUME NEW m \in Seq(Atoms), ~IsPrefix(m, t), ~IsPrefix(t, m)
      PROVE  ~IsPrefix(m, t \o c) /\ ~IsPrefix(t \o c, m)
  <2>1. Len(m) <= Len(t) \/ Len(t) <= Len(m)
    OBVIOUS
  <2> QED
    BY <1>1, <2>1, PrefixOfBeginning, BeginningIsPrefix
<1> QED
  BY <1>1, MarkerShapes DEF Marked, MayBecomeMarked

-----------------------------------------------------------------------------
(* The contents of pieces: StripPrefixes is left as it is.                 *)
Stripped == {StripPrefixes(t) : t \in Seq(Atoms)}
Pieces == [kind : {"Thinking", "Text"}, content : Seq(Atoms) \cup Stripped]

TextInv ==
  /\ text \in Seq(Atoms) /\ fed \in 0..Len(text)
  /\ state \in {"Initial", "Thinking", "Text", "Finished"}
  /\ buf \in Seq(Atoms)
  /\ out \in Seq(Pieces)
  /\ shown = View(shown.thoughts, shown.text)
  /\ shown.thoughts \in Seq(Stripped) /\ shown.text \in Seq(Atoms)

(* In the text, the thought is over or there never was one.                *)
TextState ==
  state = "Text" =>
    \/ Marked(Prefix) /\ HasBlankLine(Unmarked(Prefix))
    \/ ~Marked(Prefix) /\ ~MayBecomeMarked(Prefix)

SplitInv == TextInv /\ HoldInv /\ TextState /\ CutsDoNotShow /\ ThinkingLeads

(* The pieces of a thought and of a text.                                  *)
LEMMA PieceShapes ==
  /\ \A t \in Seq(Atoms) : /\ Text(t) \in Seq(Pieces)
                            /\ \A i \in DOMAIN Text(t) : Text(t)[i].kind = "Text"
  /\ \A t \in Stripped : /\ Thinking(t) \in Seq(Pieces) /\ Len(Thinking(t)) <= 1
                         /\ Thought(t) \in Seq(Stripped)
<1>1. ASSUME NEW t \in Seq(Atoms)
      PROVE  Text(t) \in Seq(Pieces) /\ \A i \in DOMAIN Text(t) : Text(t)[i].kind = "Text"
  <2> DEFINE p == [kind |-> "Text", content |-> t]
  <2>1. p \in Pieces /\ p.kind = "Text"
    BY DEF Pieces
  <2>2. Text(t) = <<>> \/ Text(t) = <<p>>
    BY DEF Text
  <2> HIDE DEF p
  <2>3. <<p>> \in Seq(Pieces) /\ \A i \in DOMAIN <<p>> : <<p>>[i].kind = "Text"
    BY <2>1
  <2>4. <<>> \in Seq(Pieces) /\ DOMAIN <<>> = {}
    OBVIOUS
  <2> QED
    BY <2>2, <2>3, <2>4
<1>2. ASSUME NEW t \in Stripped
      PROVE  Thinking(t) \in Seq(Pieces) /\ Len(Thinking(t)) <= 1 /\ Thought(t) \in Seq(Stripped)
  <2> DEFINE p == [kind |-> "Thinking", content |-> t]
  <2>1. p \in Pieces
    BY DEF Pieces
  <2>2. Thinking(t) = <<>> \/ Thinking(t) = <<p>>
    BY DEF Thinking
  <2>3. Thought(t) = <<>> \/ Thought(t) = <<t>>
    BY DEF Thought
  <2> DEFINE q == <<p>>
             e == <<>>
  <2> HIDE DEF p
  <2>4. q \in Seq(Pieces) /\ Len(q) = 1 /\ <<t>> \in Seq(Stripped)
    BY <2>1
  <2>5. e \in Seq(Pieces) /\ Len(e) = 0 /\ e \in Seq(Stripped)
    OBVIOUS
  <2>6. Thinking(t) = e \/ Thinking(t) = q
    BY <2>2
  <2> HIDE DEF q, e
  <2>7. Thinking(t) \in Seq(Pieces) /\ Len(Thinking(t)) <= 1
    <3>1. CASE Thinking(t) = e
      BY <2>5, <3>1
    <3>2. CASE Thinking(t) = q
      <4>1. q \in Seq(Pieces) /\ Len(q) <= 1
        BY <2>4
      <4> QED
        BY <3>2, <4>1, Zenon
    <3> QED
      BY <2>6, <3>1, <3>2
  <2>8. Thought(t) \in Seq(Stripped)
    BY <2>3, <2>4, <2>5 DEF e
  <2> QED
    BY <2>7, <2>8
<1> QED
  BY <1>1, <1>2

(* Text behind pieces that keep the order keeps it.                        *)
LEMMA TextBehind ==
  ASSUME NEW s \in Seq(Pieces), \A i \in DOMAIN s : s[i].kind = "Thinking" => i = 1,
         NEW t \in Seq(Atoms)
  PROVE  /\ s \o Text(t) \in Seq(Pieces)
         /\ \A i \in DOMAIN (s \o Text(t)) : (s \o Text(t))[i].kind = "Thinking" => i = 1
<1> DEFINE u == Text(t)
<1>1. u \in Seq(Pieces) /\ \A i \in 1..Len(u) : u[i].kind = "Text"
  BY PieceShapes
<1> HIDE DEF u
<1>2. s \o u \in Seq(Pieces) /\ Len(s \o u) = Len(s) + Len(u) /\ DOMAIN (s \o u) = 1..(Len(s) + Len(u))
  BY <1>1
<1>3. ASSUME NEW i \in 1..(Len(s) + Len(u)), (s \o u)[i].kind = "Thinking" PROVE i = 1
  <2>1. CASE i <= Len(s)
    <3>1. i \in DOMAIN s /\ (s \o u)[i] = s[i]
      BY <1>1, <2>1
    <3> QED
      BY <1>3, <3>1
  <2>2. CASE i > Len(s)
    <3>1. i - Len(s) \in 1..Len(u) /\ (s \o u)[i] = u[i - Len(s)]
      BY <1>1, <2>2
    <3>2. u[i - Len(s)].kind = "Text"
      BY <1>1, <3>1
    <3> QED
      BY <1>3, <3>1, <3>2
  <2>3. i <= Len(s) \/ i > Len(s)
    BY <1>1
  <2> QED
    BY <2>1, <2>2, <2>3
<1> QED
  BY <1>2, <1>3 DEF u

-----------------------------------------------------------------------------
(* Initially nothing has arrived and nothing is held.                      *)
LEMMA SplitterInitially == SplitterInit => SplitInv
<1> SUFFICES ASSUME SplitterInit PROVE SplitInv
  OBVIOUS
<1>1. /\ text \in Seq(Atoms) /\ fed = 0 /\ state = "Initial" /\ buf = <<>> /\ out = <<>>
      /\ shown = View(<<>>, <<>>)
  BY TextsAssumption DEF SplitterInit
<1>2. Prefix = <<>>
  BY <1>1, SubSeqEmpty DEF Prefix
<1>3. MayBecomeMarked(<<>>) /\ ~Marked(<<>>)
  <2>1. <<>> \in Seq(Atoms) /\ Len(<<>>) = 0
    OBVIOUS
  <2>2. /\ Len(<<>>) <= Len(LfMarker) /\ ~(Len(LfMarker) <= Len(<<>>)) /\ ~(Len(CrlfMarker) <= Len(<<>>))
        /\ \A i \in 1..Len(<<>>) : <<>>[i] = LfMarker[i]
    BY <2>1, MarkerShapes
  <2>3. IsPrefix(<<>>, LfMarker) /\ ~IsPrefix(LfMarker, <<>>) /\ ~IsPrefix(CrlfMarker, <<>>)
    BY <2>1, <2>2, MarkerShapes, PrefixByPlaces, Zenon
  <2> QED
    BY <2>3 DEF MayBecomeMarked, Marked
<1>4. TextInv
  <2>1. shown.thoughts = <<>> /\ shown.text = <<>>
    BY <1>1 DEF View
  <2>2. <<>> \in Seq(Pieces) /\ <<>> \in Seq(Stripped) /\ <<>> \in Seq(Atoms) /\ 0 \in 0..Len(text)
    BY <1>1
  <2> QED
    BY <1>1, <2>1, <2>2 DEF TextInv
<1>5. HoldInv /\ TextState
  BY <1>1, <1>2, <1>3 DEF HoldInv, TextState
<1>6. CutsDoNotShow
  BY <1>1, <1>2, <1>3 DEF CutsDoNotShow, ViewOf
<1>7. ThinkingLeads
  BY <1>1 DEF ThinkingLeads
<1> QED
  BY <1>4, <1>5, <1>6, <1>7 DEF SplitInv

(* A chunk is a text that joins the prefix behind what was fed.            *)
LEMMA PrefixReceives ==
  ASSUME SplitInv, NEW n \in 1..Len(text), Receive(n)
  PROVE  LET c == SubSeq(text, fed + 1, fed + n)
         IN  /\ c \in Seq(Atoms) /\ Prefix \in Seq(Atoms)
             /\ Prefix' = Prefix \o c /\ Arrived(n) = buf \o c
             /\ fed' \in 0..Len(text') /\ text' = text
<1>1. text \in Seq(Atoms) /\ fed \in 0..Len(text) /\ n \in Nat /\ fed + n \in fed..Len(text)
  BY DEF SplitInv, TextInv, Receive
<1>2. SubSeq(text, fed + 1, fed + n) \in Seq(Atoms)
  BY <1>1, SubSeqProperties
<1>3. Prefix \in Seq(Atoms)
  BY <1>1, SubSeqProperties DEF Prefix
<1>4. Prefix \o SubSeq(text, fed + 1, fed + n) = SubSeq(text, 1, fed + n)
  <2>1. 1 \in 1..(Len(text) + 1) /\ fed \in (1 - 1)..Len(text) /\ fed + n \in fed..Len(text)
    BY <1>1
  <2> QED
    BY <1>1, <2>1, ConcatAdjacentSubSeq DEF Prefix
<1>5. fed' = fed + n /\ text' = text
  BY DEF Receive
<1> QED
  BY <1>1, <1>2, <1>3, <1>4, <1>5 DEF Prefix, Arrived

(* The frame before a blank line is a text.                                *)
LEMMA FrameIsText ==
  ASSUME NEW t \in Seq(Atoms), HasBlankLine(t)
  PROVE  Frame(t) \in Seq(Atoms) /\ StripPrefixes(Frame(t)) \in Stripped
<1>1. Separator(t) \in 1..Len(t)
  BY SeparatorInside DEF HasBlankLine
<1>2. Frame(t) \in Seq(Atoms)
  <2>1. 1 \in 1..(Len(t) + 1) /\ Separator(t) - 1 \in (1 - 1)..Len(t)
    BY <1>1
  <2> QED
    BY <2>1, SubSeqProperties DEF Frame
<1> QED
  BY <1>2 DEF Stripped

(* Before the text nothing has been returned.                              *)
LEMMA NothingYet ==
  ASSUME SplitInv, state \in {"Initial", "Thinking"}
  PROVE  out = <<>> /\ shown.thoughts = <<>> /\ shown.text = <<>>
<1>1. out = <<>>
  BY DEF SplitInv, HoldInv
<1>2. shown = View(<<>>, <<>>)
  <2>1. CASE state = "Initial"
    BY <2>1 DEF SplitInv, HoldInv, CutsDoNotShow, ViewOf
  <2>2. CASE state = "Thinking"
    BY <2>2 DEF SplitInv, HoldInv, CutsDoNotShow, ViewOf, ViewOfQuoted
  <2> QED
    BY <2>1, <2>2
<1> QED
  BY <1>1, <1>2 DEF View

(* A chunk that may end in the marker is kept.                             *)
LEMMA HoldMarkerKeeps ==
  ASSUME SplitInv, NEW n \in 1..Len(text), HoldMarker(n)
  PROVE  SplitInv'
<1> DEFINE c == SubSeq(text, fed + 1, fed + n)
<1>1. Receive(n) /\ state = "Initial"
  BY DEF HoldMarker
<1>2. /\ c \in Seq(Atoms) /\ Prefix \in Seq(Atoms) /\ Prefix' = Prefix \o c
      /\ Arrived(n) = buf \o c /\ fed' \in 0..Len(text') /\ text' = text
  BY <1>1, PrefixReceives
<1> HIDE DEF c
<1>3. buf = Prefix
  BY <1>1 DEF SplitInv, HoldInv
<1>4. /\ buf' = Prefix' /\ Prefix' \in Seq(Atoms) /\ ~Marked(Prefix') /\ MayBecomeMarked(Prefix')
      /\ state' = "Initial" /\ out' = out /\ shown' = shown
  BY <1>1, <1>2, <1>3 DEF HoldMarker
<1>5. out = <<>> /\ shown.thoughts = <<>> /\ shown.text = <<>>
  BY <1>1, NothingYet
<1>6. TextInv'
  BY <1>2, <1>4 DEF SplitInv, TextInv
<1>7. HoldInv'
  BY <1>4, <1>5 DEF HoldInv
<1>8. TextState'
  BY <1>4 DEF TextState
<1>9. CutsDoNotShow'
  <2>1. shown' = View(<<>>, <<>>)
    BY <1>4, <1>5 DEF SplitInv, TextInv
  <2> QED
    BY <1>4, <2>1 DEF CutsDoNotShow, ViewOf
<1>10. ThinkingLeads'
  BY <1>4, <1>5 DEF ThinkingLeads
<1> QED
  BY <1>6, <1>7, <1>8, <1>9, <1>10 DEF SplitInv

(* A text that is no thought is returned.                                  *)
LEMMA StartTextKeeps ==
  ASSUME SplitInv, NEW n \in 1..Len(text), StartText(n)
  PROVE  SplitInv'
<1> DEFINE c == SubSeq(text, fed + 1, fed + n)
<1>1. Receive(n) /\ state = "Initial"
  BY DEF StartText
<1>2. /\ c \in Seq(Atoms) /\ Prefix \in Seq(Atoms) /\ Prefix' = Prefix \o c
      /\ Arrived(n) = buf \o c /\ fed' \in 0..Len(text') /\ text' = text
  BY <1>1, PrefixReceives
<1> HIDE DEF c
<1>3. buf = Prefix /\ text \in Seq(Atoms)
  BY <1>1 DEF SplitInv, HoldInv, TextInv
<1>4. out = <<>> /\ shown.thoughts = <<>> /\ shown.text = <<>>
  BY <1>1, NothingYet
<1>5. /\ Prefix' \in Seq(Atoms) /\ ~Marked(Prefix') /\ ~MayBecomeMarked(Prefix')
      /\ state' = "Text" /\ buf' = <<>>
      /\ out' = out \o Text(Prefix') /\ shown' = View(shown.thoughts, shown.text \o Prefix')
  BY <1>1, <1>2, <1>3 DEF StartText, ReturnsText
<1>6. shown' = View(<<>>, Prefix')
  BY <1>4, <1>5, ConcatEmptySeq
<1>7. out' \in Seq(Pieces) /\ ThinkingLeads'
  <2>1. out \in Seq(Pieces) /\ \A i \in DOMAIN out : out[i].kind = "Thinking" => i = 1
    BY DEF SplitInv, TextInv, ThinkingLeads
  <2> QED
    BY <1>5, <2>1, TextBehind DEF ThinkingLeads
<1>8. TextInv'
  <2>1. shown'.thoughts = <<>> /\ shown'.text = Prefix'
    BY <1>6 DEF View
  <2>2. <<>> \in Seq(Stripped) /\ <<>> \in Seq(Atoms)
    OBVIOUS
  <2> QED
    BY <1>2, <1>3, <1>5, <1>6, <1>7, <2>1, <2>2 DEF TextInv
<1>9. HoldInv' /\ TextState'
  BY <1>5 DEF HoldInv, TextState
<1>10. CutsDoNotShow'
  BY <1>5, <1>6 DEF CutsDoNotShow, ViewOf
<1> QED
  BY <1>7, <1>8, <1>9, <1>10 DEF SplitInv

(* A marked text is a thought as far as its first blank line: it is kept   *)
(* until that has arrived, and then returned with the text behind it.      *)
LEMMA FlushThinkingKeeps ==
  ASSUME SplitInv, state \in {"Initial", "Thinking"}, Marked(Prefix'),
         Prefix' \in Seq(Atoms), Unmarked(Prefix') \in Seq(Atoms),
         fed' \in 0..Len(text'), text' = text, FlushThinking(Unmarked(Prefix'))
  PROVE  SplitInv'
<1> DEFINE t == Unmarked(Prefix')
<1>1. /\ t \in Seq(Atoms) /\ FlushThinking(t) /\ text \in Seq(Atoms)
      /\ shown = View(shown.thoughts, shown.text)
  BY DEF SplitInv, TextInv
<1>2. out = <<>> /\ shown.thoughts = <<>> /\ shown.text = <<>>
  BY NothingYet
<1>3. <<>> \in Seq(Stripped) /\ <<>> \in Seq(Atoms) /\ <<>> \in Seq(Pieces)
  OBVIOUS
<1>4. CASE ~HasBlankLine(t)
  <2>1. state' = "Thinking" /\ buf' = t /\ out' = out /\ shown' = shown
    BY <1>1, <1>4 DEF FlushThinking
  <2>2. TextInv'
    BY <1>1, <1>2, <1>3, <2>1 DEF TextInv
  <2>3. HoldInv' /\ TextState'
    BY <1>2, <1>4, <2>1 DEF HoldInv, TextState
  <2>4. CutsDoNotShow'
    <3>1. shown' = View(<<>>, <<>>)
      BY <1>1, <1>2, <2>1
    <3> QED
      BY <1>4, <2>1, <3>1 DEF CutsDoNotShow, ViewOf, ViewOfQuoted
  <2>5. ThinkingLeads'
    BY <1>2, <2>1 DEF ThinkingLeads
  <2> QED
    BY <2>2, <2>3, <2>4, <2>5 DEF SplitInv
<1>5. CASE HasBlankLine(t)
  <2> DEFINE q == StripPrefixes(Frame(t))
             b == Behind(t)
  <2>1. q \in Stripped /\ b \in Seq(Atoms)
    BY <1>1, <1>5, FrameIsText, BehindShorter DEF HasBlankLine
  <2>2. /\ state' = "Text" /\ buf' = <<>>
        /\ out' = out \o Thinking(q) \o Text(b)
        /\ shown' = View(shown.thoughts \o Thought(q), shown.text \o b)
    BY <1>1, <1>5 DEF FlushThinking
  <2> HIDE DEF q, b
  <2>3. Thinking(q) \in Seq(Pieces) /\ Len(Thinking(q)) <= 1 /\ Thought(q) \in Seq(Stripped)
    BY <2>1, PieceShapes
  <2>4. out' = Thinking(q) \o Text(b) /\ shown' = View(Thought(q), b)
    <3>1. out \o Thinking(q) = Thinking(q)
      BY <1>2, <2>3, ConcatEmptySeq, Zenon
    <3>2. shown.thoughts \o Thought(q) = Thought(q) /\ shown.text \o b = b
      BY <1>2, <2>1, <2>3, ConcatEmptySeq, Zenon
    <3> QED
      BY <2>2, <3>1, <3>2
  <2>5. out' \in Seq(Pieces) /\ ThinkingLeads'
    <3>1. \A i \in DOMAIN Thinking(q) : Thinking(q)[i].kind = "Thinking" => i = 1
      BY <2>3
    <3> QED
      BY <2>1, <2>3, <2>4, <3>1, TextBehind DEF ThinkingLeads
  <2>6. TextInv'
    <3>1. shown'.thoughts = Thought(q) /\ shown'.text = b
      BY <2>4 DEF View
    <3> QED
      BY <1>1, <1>3, <2>1, <2>2, <2>3, <2>4, <2>5, <3>1 DEF TextInv
  <2>7. HoldInv' /\ TextState'
    BY <1>5, <2>2 DEF HoldInv, TextState
  <2>8. CutsDoNotShow'
    BY <1>5, <2>2, <2>4 DEF CutsDoNotShow, ViewOf, ViewOfQuoted, q, b
  <2> QED
    BY <2>5, <2>6, <2>7, <2>8 DEF SplitInv
<1> QED
  BY <1>4, <1>5

(* The chunk that completes the marker begins the thought.                 *)
LEMMA StartThinkingKeeps ==
  ASSUME SplitInv, NEW n \in 1..Len(text), StartThinking(n)
  PROVE  SplitInv'
<1> DEFINE c == SubSeq(text, fed + 1, fed + n)
<1>1. Receive(n) /\ state = "Initial"
  BY DEF StartThinking
<1>2. /\ c \in Seq(Atoms) /\ Prefix \in Seq(Atoms) /\ Prefix' = Prefix \o c
      /\ Arrived(n) = buf \o c /\ fed' \in 0..Len(text') /\ text' = text
  BY <1>1, PrefixReceives
<1> HIDE DEF c
<1>3. buf = Prefix
  BY <1>1 DEF SplitInv, HoldInv
<1>4. Prefix' \in Seq(Atoms) /\ Marked(Prefix') /\ FlushThinking(Unmarked(Prefix'))
  BY <1>2, <1>3 DEF StartThinking
<1>5. Unmarked(Prefix') \in Seq(Atoms)
  BY <1>4, EmptySeq, MarkedStays
<1> QED
  BY <1>1, <1>2, <1>4, <1>5, FlushThinkingKeeps

(* A chunk of a thought grows it behind the marker.                        *)
LEMMA ContinueThinkingKeeps ==
  ASSUME SplitInv, NEW n \in 1..Len(text), ContinueThinking(n)
  PROVE  SplitInv'
<1> DEFINE c == SubSeq(text, fed + 1, fed + n)
<1>1. Receive(n) /\ state = "Thinking"
  BY DEF ContinueThinking
<1>2. /\ c \in Seq(Atoms) /\ Prefix \in Seq(Atoms) /\ Prefix' = Prefix \o c
      /\ Arrived(n) = buf \o c /\ fed' \in 0..Len(text') /\ text' = text
  BY <1>1, PrefixReceives
<1> HIDE DEF c
<1>3. Marked(Prefix) /\ buf = Unmarked(Prefix)
  BY <1>1 DEF SplitInv, HoldInv
<1>4. /\ Marked(Prefix \o c) /\ Unmarked(Prefix) \in Seq(Atoms)
      /\ Unmarked(Prefix \o c) = Unmarked(Prefix) \o c
  BY <1>2, <1>3, MarkedStays
<1>5. Prefix' \in Seq(Atoms) /\ Marked(Prefix') /\ Unmarked(Prefix') \in Seq(Atoms)
  BY <1>2, <1>4
<1>6. FlushThinking(Unmarked(Prefix'))
  BY <1>2, <1>3, <1>4 DEF ContinueThinking
<1> QED
  BY <1>1, <1>2, <1>5, <1>6, FlushThinkingKeeps

(* Text behind what was returned goes to the end of the text.              *)
LEMMA ReturnsTextKeeps ==
  ASSUME SplitInv, NEW t \in Seq(Atoms), ReturnsText(t), buf' = <<>>,
         fed' \in 0..Len(text'), text' = text, state' \in {"Text", "Finished"}
  PROVE  TextInv' /\ HoldInv' /\ ThinkingLeads'
<1>1. /\ out \in Seq(Pieces) /\ \A i \in DOMAIN out : out[i].kind = "Thinking" => i = 1
      /\ text \in Seq(Atoms) /\ shown.thoughts \in Seq(Stripped) /\ shown.text \in Seq(Atoms)
  BY DEF SplitInv, TextInv, ThinkingLeads
<1>2. out' = out \o Text(t) /\ shown' = View(shown.thoughts, shown.text \o t)
  BY DEF ReturnsText
<1>3. out' \in Seq(Pieces) /\ ThinkingLeads'
  BY <1>1, <1>2, TextBehind DEF ThinkingLeads
<1>4. shown'.thoughts = shown.thoughts /\ shown'.text = shown.text \o t
  BY <1>2 DEF View
<1>5. shown.text \o t \in Seq(Atoms) /\ <<>> \in Seq(Atoms)
  BY <1>1
<1>6. TextInv'
  BY <1>1, <1>2, <1>3, <1>4, <1>5 DEF TextInv
<1>7. HoldInv'
  BY DEF HoldInv
<1> QED
  BY <1>3, <1>6, <1>7

(* In the text every chunk is text.                                        *)
LEMMA ContinueTextKeeps ==
  ASSUME SplitInv, NEW n \in 1..Len(text), ContinueText(n)
  PROVE  SplitInv'
<1> DEFINE c == SubSeq(text, fed + 1, fed + n)
<1>1. Receive(n) /\ state = "Text" /\ state' = "Text" /\ buf' = <<>>
  BY DEF ContinueText
<1>2. /\ c \in Seq(Atoms) /\ Prefix \in Seq(Atoms) /\ Prefix' = Prefix \o c
      /\ Arrived(n) = buf \o c /\ fed' \in 0..Len(text') /\ text' = text
  BY <1>1, PrefixReceives
<1> HIDE DEF c
<1>3. Arrived(n) = c
  <2>1. buf = <<>>
    BY <1>1 DEF SplitInv, HoldInv
  <2> QED
    BY <1>2, <2>1, ConcatEmptySeq
<1>4. ReturnsText(c)
  BY <1>3 DEF ContinueText
<1>5. TextInv' /\ HoldInv' /\ ThinkingLeads'
  BY <1>1, <1>2, <1>4, ReturnsTextKeeps
<1>6. shown' = View(shown.thoughts, shown.text \o c)
  BY <1>4 DEF ReturnsText
<1>7. CASE Marked(Prefix) /\ HasBlankLine(Unmarked(Prefix))
  <2> DEFINE t == Unmarked(Prefix)
  <2>1. t \in Seq(Atoms) /\ Marked(Prefix') /\ Unmarked(Prefix') = t \o c
    BY <1>2, <1>7, MarkedStays
  <2>2. Separator(t) # 0
    BY <1>7 DEF HasBlankLine
  <2>3. Separator(t \o c) # 0 /\ Frame(t \o c) = Frame(t) /\ Behind(t \o c) = Behind(t) \o c
    BY <1>2, <2>1, <2>2, SeparatorStays, CutStays
  <2>4. shown = View(Thought(StripPrefixes(Frame(t))), Behind(t))
    BY <1>7 DEF SplitInv, CutsDoNotShow, ViewOf, ViewOfQuoted
  <2>5. shown' = View(Thought(StripPrefixes(Frame(t))), Behind(t) \o c)
    BY <1>6, <2>4 DEF View
  <2> HIDE DEF t
  <2>6. HasBlankLine(Unmarked(Prefix'))
    BY <2>1, <2>3 DEF HasBlankLine
  <2>7. CutsDoNotShow'
    BY <2>1, <2>3, <2>5, <2>6 DEF CutsDoNotShow, ViewOf, ViewOfQuoted
  <2>8. TextState'
    BY <2>1, <2>6 DEF TextState
  <2> QED
    BY <1>5, <2>7, <2>8 DEF SplitInv
<1>8. CASE ~Marked(Prefix) /\ ~MayBecomeMarked(Prefix)
  <2>1. ~Marked(Prefix') /\ ~MayBecomeMarked(Prefix')
    BY <1>2, <1>8, UnmarkedStays
  <2>2. shown = View(<<>>, Prefix)
    BY <1>8 DEF SplitInv, CutsDoNotShow, ViewOf
  <2>3. shown' = View(<<>>, Prefix')
    BY <1>2, <1>6, <2>2 DEF View
  <2>4. CutsDoNotShow' /\ TextState'
    BY <2>1, <2>3 DEF CutsDoNotShow, ViewOf, TextState
  <2> QED
    BY <1>5, <2>4 DEF SplitInv
<1> QED
  BY <1>1, <1>7, <1>8 DEF SplitInv, TextState

(* At the end what is kept is returned as what it has turned out to be.    *)
LEMMA FinishKeeps ==
  ASSUME SplitInv, Finish
  PROVE  SplitInv'
<1>1. state' = "Finished" /\ buf' = <<>> /\ text' = text /\ fed' = fed /\ Prefix' = Prefix
  BY DEF Finish, Prefix
<1>2. /\ text \in Seq(Atoms) /\ fed \in 0..Len(text) /\ buf \in Seq(Atoms)
      /\ shown = View(shown.thoughts, shown.text)
      /\ state \in {"Initial", "Thinking", "Text"}
  BY DEF SplitInv, TextInv, Finish
<1>3. TextState'
  BY <1>1 DEF TextState
<1>4. CASE state = "Thinking"
  <2> DEFINE q == StripPrefixes(buf)
  <2>1. q \in Stripped
    BY <1>2 DEF Stripped
  <2>2. out' = out \o Thinking(q) /\ shown' = View(shown.thoughts \o Thought(q), shown.text)
    BY <1>4 DEF Finish, ReturnsThought
  <2> HIDE DEF q
  <2>3. Thinking(q) \in Seq(Pieces) /\ Len(Thinking(q)) <= 1 /\ Thought(q) \in Seq(Stripped)
    BY <2>1, PieceShapes
  <2>4. out' = Thinking(q) /\ shown' = View(Thought(q), <<>>)
    <3>1. out = <<>> /\ shown.thoughts = <<>> /\ shown.text = <<>>
      BY <1>4, NothingYet
    <3>2. out \o Thinking(q) = Thinking(q) /\ shown.thoughts \o Thought(q) = Thought(q)
      BY <2>3, <3>1, ConcatEmptySeq, Zenon
    <3> QED
      BY <2>2, <3>1, <3>2
  <2>5. TextInv'
    <3>1. shown'.thoughts = Thought(q) /\ shown'.text = <<>>
      BY <2>4 DEF View
    <3>2. <<>> \in Seq(Atoms)
      OBVIOUS
    <3> QED
      BY <1>1, <1>2, <2>3, <2>4, <3>1, <3>2 DEF TextInv
  <2>6. HoldInv'
    BY <1>1 DEF HoldInv
  <2>7. CutsDoNotShow'
    BY <1>1, <1>4, <2>4 DEF SplitInv, HoldInv, CutsDoNotShow, ViewOf, ViewOfQuoted, q
  <2>8. ThinkingLeads'
    BY <2>3, <2>4 DEF ThinkingLeads
  <2> QED
    BY <1>3, <2>5, <2>6, <2>7, <2>8 DEF SplitInv
<1>5. CASE state # "Thinking"
  <2>1. ReturnsText(buf)
    BY <1>5 DEF Finish
  <2>2. TextInv' /\ HoldInv' /\ ThinkingLeads'
    BY <1>1, <1>2, <2>1, ReturnsTextKeeps
  <2>3. shown' = View(shown.thoughts, shown.text \o buf)
    BY <2>1 DEF ReturnsText
  <2>4. CASE state = "Initial"
    <3>1. shown.thoughts = <<>> /\ shown.text = <<>> /\ buf = Prefix /\ ~Marked(Prefix)
      BY <2>4, NothingYet DEF SplitInv, HoldInv
    <3>2. shown.text \o buf = Prefix
      BY <1>2, <3>1, ConcatEmptySeq
    <3> QED
      BY <1>1, <1>3, <2>2, <2>3, <3>1, <3>2 DEF SplitInv, CutsDoNotShow, ViewOf
  <2>5. CASE state = "Text"
    <3>1. buf = <<>> /\ shown.text \in Seq(Atoms)
      BY <2>5 DEF SplitInv, HoldInv, TextInv
    <3>2. shown.text \o buf = shown.text
      BY <3>1, ConcatEmptySeq
    <3>3. shown' = shown
      BY <1>2, <2>3, <3>2
    <3>4. CutsDoNotShow'
      BY <1>1, <2>5, <3>3 DEF SplitInv, TextState, CutsDoNotShow, ViewOf, ViewOfQuoted
    <3> QED
      BY <1>3, <2>2, <3>4 DEF SplitInv
  <2> QED
    BY <1>2, <1>5, <2>4, <2>5
<1> QED
  BY <1>4, <1>5

(* A step that changes nothing.                                            *)
LEMMA StutterKeeps ==
  ASSUME SplitInv, UNCHANGED splitterVars
  PROVE  SplitInv'
BY DEF SplitInv, splitterVars, TextInv, HoldInv, TextState, CutsDoNotShow, ThinkingLeads, Prefix

(* The splitter keeps the invariant.                                       *)
THEOREM SplitterKeeps == SplitterSpec => []SplitInv
<1>1. SplitInv /\ [SplitterNext]_splitterVars => SplitInv'
  <2> SUFFICES ASSUME SplitInv, [SplitterNext]_splitterVars PROVE SplitInv'
    OBVIOUS
  <2>1. ASSUME NEW n \in 1..Len(text), Feed(n) PROVE SplitInv'
    BY <2>1, HoldMarkerKeeps, StartTextKeeps, StartThinkingKeeps, ContinueThinkingKeeps,
       ContinueTextKeeps DEF Feed
  <2> QED
    BY <2>1, FinishKeeps, StutterKeeps DEF SplitterNext
<1> QED
  BY <1>1, SplitterInitially, PTL DEF SplitterSpec

(* What the buffer holds in each state is exactly what may yet turn out to *)
(* be thinking (ThinkingSplitter::feed): nothing else is kept back.        *)
THEOREM HoldsOnlyTheUndecided == SplitterSpec => []HoldInv
<1>1. SplitInv => HoldInv
  BY DEF SplitInv
<1> QED
  BY <1>1, SplitterKeeps, PTL

(* For every text and every way of cutting it the pieces released so far   *)
(* show the splitting of the part that has arrived: how the upstream cut   *)
(* the text never shows (ThinkingSplitter::feed, flush_thinking, finish).  *)
THEOREM CutsNeverShow == SplitterSpec => []CutsDoNotShow
<1>1. SplitInv => CutsDoNotShow
  BY DEF SplitInv
<1> QED
  BY <1>1, SplitterKeeps, PTL

(* Thinking is released at most once and before any text, which is what    *)
(* the streaming turn takes for granted of its splitter.                   *)
THEOREM ThoughtComesFirst == SplitterSpec => []ThinkingLeads
<1>1. SplitInv => ThinkingLeads
  BY DEF SplitInv
<1> QED
  BY <1>1, SplitterKeeps, PTL

-----------------------------------------------------------------------------
(* Words are atoms, and neither blank nor markup.                          *)
LEMMA AtomsMeet ==
  /\ Words \subseteq Atoms /\ Words \cap Blanks = {} /\ Words \cap {">", "Thin", "king...", "n", "r", " "} = {}
  /\ "n" \in Atoms /\ "r" \in Atoms
BY TextsAssumption DEF Atoms, Markup, Blanks

(* Taking the quotation mark off a line leaves its words.                  *)
LEMMA UnquotedKeeps ==
  ASSUME NEW l \in Seq(Atoms)
  PROVE  Unquoted(l) \in Seq(Atoms) /\ WordsOf(Unquoted(l)) = WordsOf(l)
<1>1. ASSUME NEW s \in Seq(Atoms), s # <<>>, Head(s) \notin Words
      PROVE  Tail(s) \in Seq(Atoms) /\ WordsOf(Tail(s)) = WordsOf(s)
  <2>1. s = <<Head(s)>> \o Tail(s) /\ Head(s) \in Atoms /\ Tail(s) \in Seq(Atoms)
    BY <1>1
  <2>2. <<Head(s)>> \in Seq(Atoms) /\ Kept(<<Head(s)>>, Words) = <<>>
    BY <1>1, <2>1, KeptSkips
  <2> DEFINE h == <<Head(s)>>
             u == Tail(s)
  <2>a. h \in Seq(Atoms) /\ u \in Seq(Atoms)
    BY <2>1, <2>2
  <2> HIDE DEF h, u
  <2>3. Kept(h \o u, Words) = Kept(h, Words) \o Kept(u, Words) /\ Kept(u, Words) \in Seq(Atoms)
    <3>1. Kept(u, Words) \in Seq(Atoms)
      BY <2>a, KeptType
    <3> QED
      BY <2>a, <3>1, KeptConcat
  <2> QED
    BY <2>1, <2>2, <2>3, ConcatEmptySeq DEF WordsOf, h, u
<1>2. ASSUME NEW s \in Seq(Atoms)
      PROVE  WithoutSpace(s) \in Seq(Atoms) /\ WordsOf(WithoutSpace(s)) = WordsOf(s)
  BY <1>1, AtomsMeet DEF WithoutSpace
<1>3. CASE l # <<>> /\ Head(l) = ">"
  <2>1. Tail(l) \in Seq(Atoms) /\ WordsOf(Tail(l)) = WordsOf(l)
    BY <1>1, <1>3, AtomsMeet
  <2> QED
    BY <1>2, <1>3, <2>1 DEF Unquoted
<1>4. CASE ~(l # <<>> /\ Head(l) = ">")
  BY <1>4 DEF Unquoted
<1> QED
  BY <1>3, <1>4

(* Stripping the quotation marks of a thought leaves its words, in order.  *)
LEMMA StripKeeps ==
  ASSUME NEW t \in Seq(Atoms)
  PROVE  StripPrefixes(t) \in Seq(Atoms) /\ WordsOf(StripPrefixes(t)) = WordsOf(t)
<1> DEFINE ls == Lines(t)
           us == [i \in DOMAIN ls |-> Unquoted(ls[i])]
           V == Seq(Atoms)
<1>1. ls \in Seq(V)
  BY LinesType
<1>2. Kept(FlattenSeq(ls), Words) = Kept(t, Words)
  BY LinesKeep, AtomsMeet
<1>3. StripPrefixes(t) = Trim(Join(us))
  BY DEF StripPrefixes, UnquotedLines
<1> HIDE DEF ls
<1>4. \A i \in DOMAIN ls : /\ ls[i] \in V /\ Unquoted(ls[i]) \in V
                           /\ Kept(Unquoted(ls[i]), Words) = Kept(ls[i], Words)
  <2>1. \A i \in DOMAIN ls : ls[i] \in V
    <3> HIDE DEF V
    <3> QED
      BY <1>1
  <2> QED
    BY <2>1, UnquotedKeeps DEF WordsOf
<1>5. us \in Seq(V)
  <2> HIDE DEF V
  <2> QED
    BY <1>1, <1>4
<1>6. EachKept(us, Words) = EachKept(ls, Words)
  BY <1>4 DEF EachKept
<1> HIDE DEF us
<1>7. Kept(FlattenSeq(us), Words) = Kept(FlattenSeq(ls), Words)
  BY <1>1, <1>5, <1>6, KeptFlatten
<1>8. Join(us) \in Seq(Atoms) /\ Kept(Join(us), Words) = Kept(FlattenSeq(us), Words)
  BY <1>5, AtomsMeet, JoinType, JoinKeeps
<1>9. Trim(Join(us)) \in Seq(Atoms) /\ Kept(Trim(Join(us)), Words) = Kept(Join(us), Words)
  BY <1>8, AtomsMeet, TrimKeeps
<1> QED
  BY <1>2, <1>3, <1>7, <1>8, <1>9 DEF WordsOf

(* The types, for every text: a thought is of atoms too.                   *)
LEMMA StrippedIsText == Stripped \subseteq Seq(Atoms)
BY StripKeeps DEF Stripped

(* The invariant the splitter is checked against, its types included,      *)
(* holds for every text and every way of cutting it                        *)
(* (ThinkingSplitter::feed, finish).                                       *)
THEOREM SplitterInvariant == SplitterSpec => []SplitterInv
<1>1. SplitInv => SplitterInv
  <2> SUFFICES ASSUME SplitInv PROVE SplitterInv
    OBVIOUS
  <2>1. /\ text \in Seq(Atoms) /\ fed \in 0..Len(text) /\ buf \in Seq(Atoms)
        /\ state \in {"Initial", "Thinking", "Text", "Finished"} /\ HoldInv
        /\ out \in Seq(Pieces) /\ shown = View(shown.thoughts, shown.text)
        /\ shown.thoughts \in Seq(Stripped) /\ shown.text \in Seq(Atoms)
    BY DEF SplitInv, TextInv
  <2>2. Seq(Atoms) \cup Stripped = Seq(Atoms)
    BY StrippedIsText
  <2>3. out \in Seq([kind : {"Thinking", "Text"}, content : Seq(Atoms)])
    BY <2>1, <2>2 DEF Pieces
  <2>4. shown.thoughts \in Seq(Seq(Atoms))
    BY <2>1, StrippedIsText, SeqMonotonic
  <2>5. shown \in [thoughts : Seq(Seq(Atoms)), text : Seq(Atoms)]
    BY <2>1, <2>4 DEF View
  <2> QED
    BY <2>1, <2>3, <2>5 DEF SplitterInv, SplitterTypeOK
<1> QED
  BY <1>1, SplitterKeeps, PTL

-----------------------------------------------------------------------------
(* The words of a text's parts.                                            *)
LEMMA WordsConcat ==
  ASSUME NEW s \in Seq(Atoms), NEW t \in Seq(Atoms)
  PROVE  /\ WordsOf(s) \in Seq(Atoms)
         /\ WordsOf(s \o t) = WordsOf(s) \o WordsOf(t)
<1>1. Kept(s, Words) \in Seq(Atoms)
  BY KeptType
<1>2. Kept(s \o t, Words) = Kept(s, Words) \o Kept(t, Words)
  BY KeptConcat
<1> QED
  BY <1>1, <1>2 DEF WordsOf

(* A beginning without words may be cut off.                               *)
LEMMA WordlessBeginning ==
  ASSUME NEW t \in Seq(Atoms), NEW k \in 0..Len(t), \A i \in 1..k : t[i] \notin Words
  PROVE  WordsOf(From(t, k + 1)) = WordsOf(t) /\ From(t, k + 1) \in Seq(Atoms)
<1> DEFINE n == Len(t)
           x == SubSeq(t, 1, k)
           y == From(t, k + 1)
<1>1. n \in Nat /\ k \in 0..n /\ \A i \in 1..n : t[i] \in Atoms
  OBVIOUS
<1>2. SubSeq(t, 1, k) \o SubSeq(t, k + 1, n) = SubSeq(t, 1, n)
  <2>1. 1 \in 1..(n + 1) /\ k \in (1 - 1)..n /\ n \in k..n
    BY <1>1
  <2> QED
    BY <2>1, ConcatAdjacentSubSeq
<1>3. t = x \o y
  BY <1>2, SubSeqFull DEF From
<1>4. x \in Seq(Atoms) /\ Len(x) = k /\ \A i \in 1..k : x[i] = t[i]
  BY <1>1, SubSeqProperties
<1>5. y \in Seq(Atoms)
  <2>1. k + 1 \in 1..(Len(t) + 1)
    BY <1>1
  <2> HIDE DEF n, x
  <2>2. From(t, k + 1) \in Seq(Atoms)
    BY <2>1, FromRest
  <2> QED
    BY <2>2
<1> HIDE DEF x, y, n
<1>6. WordsOf(x) = <<>>
  BY <1>4, KeptNone DEF WordsOf
<1>7. WordsOf(x \o y) = WordsOf(x) \o WordsOf(y) /\ WordsOf(y) \in Seq(Atoms)
  BY <1>4, <1>5, WordsConcat
<1> QED
  BY <1>3, <1>5, <1>6, <1>7, ConcatEmptySeq DEF y

(* The marker has no words.                                                *)
LEMMA UnmarkedKeeps ==
  ASSUME NEW t \in Seq(Atoms), Marked(t)
  PROVE  Unmarked(t) \in Seq(Atoms) /\ WordsOf(Unmarked(t)) = WordsOf(t)
<1>1. /\ LfMarker[1] = "Thin" /\ LfMarker[2] = "king..." /\ LfMarker[3] = "n"
      /\ CrlfMarker[1] = "Thin" /\ CrlfMarker[2] = "king..." /\ CrlfMarker[3] = "r" /\ CrlfMarker[4] = "n"
  BY DEF LfMarker, CrlfMarker, Title
<1>2. CASE IsPrefix(LfMarker, t)
  <2>1. 4 <= Len(t) /\ \A i \in 1..4 : LfMarker[i] = t[i]
    BY <1>2, MarkerShapes, PrefixByPlaces, SMTT(20)
  <2>2. 3 \in 0..Len(t) /\ \A i \in 1..3 : t[i] \notin Words
    <3>1. t[1] = "Thin" /\ t[2] = "king..." /\ t[3] = "n"
      BY <1>1, <2>1
    <3>2. \A i \in 1..3 : i = 1 \/ i = 2 \/ i = 3
      OBVIOUS
    <3>3. 3 \in 0..Len(t)
      BY <2>1
    <3>4. \A i \in 1..3 : t[i] \notin Words
      BY <3>1, <3>2, AtomsMeet
    <3> QED
      BY <3>3, <3>4
  <2>3. Unmarked(t) = From(t, 3 + 1)
    BY <1>2 DEF Unmarked
  <2> DEFINE k == 3
  <2> HIDE DEF k
  <2>4. k \in 0..Len(t) /\ (\A i \in 1..k : t[i] \notin Words) /\ Unmarked(t) = From(t, k + 1)
    BY <2>2, <2>3 DEF k
  <2> QED
    BY <2>4, WordlessBeginning
<1>3. CASE ~IsPrefix(LfMarker, t)
  <2>0. IsPrefix(CrlfMarker, t)
    BY <1>3 DEF Marked
  <2>1. 5 <= Len(t) /\ \A i \in 1..5 : CrlfMarker[i] = t[i]
    BY <2>0, MarkerShapes, PrefixByPlaces, SMTT(20)
  <2>2. 4 \in 0..Len(t) /\ \A i \in 1..4 : t[i] \notin Words
    <3>1. t[1] = "Thin" /\ t[2] = "king..." /\ t[3] = "r" /\ t[4] = "n"
      BY <1>1, <2>1
    <3>2. \A i \in 1..4 : i = 1 \/ i = 2 \/ i = 3 \/ i = 4
      OBVIOUS
    <3>3. 4 \in 0..Len(t)
      BY <2>1
    <3>4. \A i \in 1..4 : t[i] \notin Words
      BY <3>1, <3>2, AtomsMeet
    <3> QED
      BY <3>3, <3>4
  <2>3. Unmarked(t) = From(t, 4 + 1)
    BY <1>3 DEF Unmarked
  <2> DEFINE k == 4
  <2> HIDE DEF k
  <2>4. k \in 0..Len(t) /\ (\A i \in 1..k : t[i] \notin Words) /\ Unmarked(t) = From(t, k + 1)
    BY <2>2, <2>3 DEF k
  <2> QED
    BY <2>4, WordlessBeginning
<1> QED
  BY <1>2, <1>3

(* Nor has a blank line.                                                   *)
LEMMA CutKeeps ==
  ASSUME NEW t \in Seq(Atoms), HasBlankLine(t)
  PROVE  /\ Frame(t) \in Seq(Atoms) /\ Behind(t) \in Seq(Atoms)
         /\ WordsOf(t) = WordsOf(Frame(t)) \o WordsOf(Behind(t))
<1> DEFINE n == Len(t)
           p == Separator(t)
           d == SeparatorLength(t, p)
           x == Frame(t)
           y == From(t, p)
<1>1. p \in 1..n /\ d \in {2, 4} /\ p + d \in 1..(n + 1) /\ n \in Nat
  BY SeparatorInside DEF HasBlankLine
<1>2. p \in BlankLines(t)
  BY <1>1, BlankLinesArePlaces, FirstOfPlaces
<1>3. \A i \in p..(p + d - 1) : t[i] \notin Words
  <2>1. CASE LfLf(t, p)
    <3>1. d = 2 /\ t[p] = "n" /\ t[p + 1] = "n"
      BY <2>1 DEF SeparatorLength, LfLf
    <3>2. \A i \in p..(p + 2 - 1) : i = p \/ i = p + 1
      BY <1>1
    <3> HIDE DEF p, d
    <3> QED
      BY <3>1, <3>2, AtomsMeet
  <2>2. CASE ~LfLf(t, p)
    <3>1. CrlfCrlf(t, p)
      BY <1>2, <2>2 DEF BlankLines
    <3>2. d = 4 /\ t[p] = "r" /\ t[p + 1] = "n" /\ t[p + 2] = "r" /\ t[p + 3] = "n"
      BY <2>2, <3>1 DEF SeparatorLength, CrlfCrlf
    <3>3. \A i \in p..(p + 4 - 1) : i = p \/ i = p + 1 \/ i = p + 2 \/ i = p + 3
      BY <1>1
    <3> HIDE DEF p, d
    <3> QED
      BY <3>2, <3>3, AtomsMeet
  <2> QED
    BY <2>1, <2>2
<1>4. Frame(t) = SubSeq(t, 1, p - 1) /\ Behind(t) = From(t, p + d)
  BY DEF Frame, Behind
<1> HIDE DEF p, d
<1>5. x \in Seq(Atoms)
  <2>1. \A i \in 1..(p - 1) : t[i] \in Atoms
    BY <1>1
  <2> QED
    BY <1>1, <1>4, <2>1, SubSeqProperties
<1>6. y \in Seq(Atoms) /\ Len(y) = n - p + 1 /\ \A k \in 1..(n - p + 1) : y[k] = t[p + k - 1]
  <2>1. p \in 1..(Len(t) + 1)
    BY <1>1
  <2> QED
    BY <2>1, FromRest
<1>7. t = x \o y
  <2>1. 1 \in 1..(n + 1) /\ p - 1 \in (1 - 1)..n /\ n \in (p - 1)..n /\ (p - 1) + 1 = p
    BY <1>1
  <2>2. SubSeq(t, 1, p - 1) \o SubSeq(t, (p - 1) + 1, n) = SubSeq(t, 1, n)
    BY <2>1, ConcatAdjacentSubSeq
  <2> QED
    BY <1>4, <2>1, <2>2, SubSeqFull DEF From
<1>8. Behind(t) = From(y, d + 1) /\ d \in 0..Len(y) /\ \A i \in 1..d : y[i] \notin Words
  <2>1. d \in 0..Len(y) /\ d + 1 \in 1..(Len(y) + 1) /\ p + d \in 1..(Len(t) + 1)
    BY <1>1, <1>6
  <2>2. \A i \in 1..d : y[i] \notin Words
    <3> SUFFICES ASSUME NEW i \in 1..d PROVE y[i] \notin Words
      OBVIOUS
    <3> DEFINE j == p + i - 1
    <3>1. i \in 1..(n - p + 1) /\ j \in p..(p + d - 1)
      BY <1>1
    <3> HIDE DEF j
    <3>2. t[j] \notin Words
      BY <1>3, <3>1
    <3> QED
      BY <1>6, <3>1, <3>2 DEF j
  <2> HIDE DEF y
  <2>3. /\ From(y, d + 1) \in Seq(Atoms) /\ Len(From(y, d + 1)) = Len(y) - (d + 1) + 1
        /\ \A k \in 1..(Len(y) - (d + 1) + 1) : From(y, d + 1)[k] = y[(d + 1) + k - 1]
    BY <1>6, <2>1, FromRest
  <2>4. /\ From(t, p + d) \in Seq(Atoms) /\ Len(From(t, p + d)) = Len(t) - (p + d) + 1
        /\ \A k \in 1..(Len(t) - (p + d) + 1) : From(t, p + d)[k] = t[(p + d) + k - 1]
    BY <2>1, FromRest
  <2> DEFINE m == n - p - d + 1
  <2>5. m = Len(y) - (d + 1) + 1 /\ m = Len(t) - (p + d) + 1
    BY <1>1, <1>6
  <2>6. ASSUME NEW k \in 1..m PROVE From(y, d + 1)[k] = From(t, p + d)[k]
    <3>1. d + k \in 1..(n - p + 1) /\ (d + 1) + k - 1 = d + k /\ (p + d) + k - 1 = p + (d + k) - 1
      BY <1>1
    <3> DEFINE j == d + k
    <3> HIDE DEF j
    <3>2. y[j] = t[p + j - 1]
      BY <1>6, <3>1 DEF j
    <3>3. From(y, d + 1)[k] = y[j] /\ From(t, p + d)[k] = t[p + j - 1]
      BY <2>3, <2>4, <2>5, <3>1 DEF j
    <3> QED
      BY <3>2, <3>3
  <2> HIDE DEF m
  <2>7. From(y, d + 1) = From(t, p + d)
    <3> DEFINE g == From(y, d + 1)
               h == From(t, p + d)
    <3>1. g \in Seq(Atoms) /\ h \in Seq(Atoms) /\ Len(g) = m /\ Len(h) = m /\ \A k \in 1..m : g[k] = h[k]
      BY <2>3, <2>4, <2>5, <2>6
    <3> HIDE DEF g, h
    <3>2. g = h
      BY <3>1, SeqEqual
    <3> QED
      BY <3>2 DEF g, h
  <2> QED
    BY <1>4, <2>1, <2>2, <2>7
<1> HIDE DEF x, y
<1>9. WordsOf(Behind(t)) = WordsOf(y) /\ Behind(t) \in Seq(Atoms)
  BY <1>6, <1>8, WordlessBeginning
<1>10. WordsOf(t) = WordsOf(x) \o WordsOf(y)
  BY <1>5, <1>6, <1>7, WordsConcat
<1> QED
  BY <1>5, <1>9, <1>10 DEF x

(* A thought is its text, and no thought none.                             *)
LEMMA ThoughtWords ==
  ASSUME NEW t \in Seq(Atoms)
  PROVE  FlattenSeq(Thought(t)) = t
BY FlattenOne, FlattenNil DEF Thought

(* No word of the text is missing from what has been shown, or there twice.*)
LEMMA ShownKeepsWords == SplitInv => NoWordLost
<1> SUFFICES ASSUME SplitInv, state = "Finished"
             PROVE  WordsOf(FlattenSeq(shown.thoughts) \o shown.text) = WordsOf(Prefix)
  BY DEF NoWordLost
<1>1. shown = ViewOf(Prefix, TRUE)
  BY DEF SplitInv, CutsDoNotShow
<1>2. Prefix \in Seq(Atoms)
  <2>1. text \in Seq(Atoms) /\ fed \in 0..Len(text)
    BY DEF SplitInv, TextInv
  <2> QED
    BY <2>1, SubSeqProperties DEF Prefix
<1>3. <<>> \in Seq(Atoms)
  OBVIOUS
<1>4. CASE ~Marked(Prefix)
  <2>1. shown.thoughts = <<>> /\ shown.text = Prefix
    BY <1>1, <1>4 DEF ViewOf, View
  <2> QED
    BY <1>2, <2>1, FlattenNil, ConcatEmptySeq
<1> DEFINE u == Unmarked(Prefix)
<1>5. CASE Marked(Prefix) /\ ~HasBlankLine(u)
  <2>1. shown.thoughts = Thought(StripPrefixes(u)) /\ shown.text = <<>>
    BY <1>1, <1>5 DEF ViewOf, ViewOfQuoted, View
  <2>2. u \in Seq(Atoms) /\ WordsOf(u) = WordsOf(Prefix)
    BY <1>2, <1>5, UnmarkedKeeps
  <2> HIDE DEF u
  <2>3. StripPrefixes(u) \in Seq(Atoms) /\ WordsOf(StripPrefixes(u)) = WordsOf(u)
    BY <2>2, StripKeeps
  <2> QED
    BY <2>1, <2>2, <2>3, ThoughtWords, ConcatEmptySeq
<1>6. CASE Marked(Prefix) /\ HasBlankLine(u)
  <2>1. shown.thoughts = Thought(StripPrefixes(Frame(u))) /\ shown.text = Behind(u)
    BY <1>1, <1>6 DEF ViewOf, ViewOfQuoted, View
  <2>2. u \in Seq(Atoms) /\ WordsOf(u) = WordsOf(Prefix)
    BY <1>2, <1>6, UnmarkedKeeps
  <2> HIDE DEF u
  <2>3. /\ Frame(u) \in Seq(Atoms) /\ Behind(u) \in Seq(Atoms)
        /\ WordsOf(u) = WordsOf(Frame(u)) \o WordsOf(Behind(u))
    BY <1>6, <2>2, CutKeeps
  <2>4. StripPrefixes(Frame(u)) \in Seq(Atoms) /\ WordsOf(StripPrefixes(Frame(u))) = WordsOf(Frame(u))
    BY <2>3, StripKeeps
  <2>5. FlattenSeq(shown.thoughts) = StripPrefixes(Frame(u))
    BY <2>1, <2>4, ThoughtWords
  <2> QED
    BY <2>1, <2>2, <2>3, <2>4, <2>5, WordsConcat
<1> QED
  BY <1>4, <1>5, <1>6

(* No word of a text is lost or repeated, whatever the text and however    *)
(* the upstream cut it.                                                    *)
THEOREM WordsSurvive == SplitterSpec => []NoWordLost
BY ShownKeepsWords, SplitterKeeps, PTL

(* What is not split is not split for one of two reasons, and what is      *)
(* split has a thought.                                                    *)
LEMMA RepliesSplit ==
  ASSUME NEW t
  PROVE  /\ ~Marked(t) => WholeReply(t) = View(<<>>, t)
         /\ Marked(t) /\ ~HasBlankLine(Unmarked(t)) => WholeReply(t) = View(<<>>, t)
         /\ Marked(t) /\ StripPrefixes(Frame(Unmarked(t))) = <<>> => WholeReply(t) = View(<<>>, t)
         /\ Marked(t) /\ HasBlankLine(Unmarked(t)) /\ StripPrefixes(Frame(Unmarked(t))) # <<>> =>
              WholeReply(t) = View(<<StripPrefixes(Frame(Unmarked(t)))>>, TrimStart(Behind(Unmarked(t))))
BY DEF WholeReply, SplitLeadingThinking, SplitAtBlankLine, NotSplit

(* A streamed reply shows the same thinking and the same text as one that  *)
(* is not streamed, whatever the text and however the upstream cut it,     *)
(* but for thoughts that never ended and thoughts without a word           *)
(* (ThinkingSplitter, split_leading_thinking).                             *)
THEOREM StreamsAgreeWithReplies == SplitterSpec => []StreamAgreesWithReply
<1>1. SplitInv => StreamAgreesWithReply
  <2> SUFFICES ASSUME SplitInv PROVE StreamAgreesWithReply
    OBVIOUS
  <2> DEFINE reply == WholeReply(Prefix)
             u == Unmarked(Prefix)
             left == Marked(Prefix) /\ reply = View(<<>>, Prefix)
  <2>1. SUFFICES ASSUME state = "Finished"
                 PROVE  \/ /\ shown.thoughts = reply.thoughts
                           /\ reply.text \in {shown.text, TrimStart(shown.text)}
                        \/ left /\ ~HasBlankLine(u) /\ shown.text = <<>>
                        \/ left /\ shown.thoughts = <<>> /\ WordsOf(shown.text) = WordsOf(Prefix)
    BY DEF StreamAgreesWithReply
  <2>2. shown = ViewOf(Prefix, TRUE)
    BY <2>1 DEF SplitInv, CutsDoNotShow
  <2>3. CASE ~Marked(Prefix)
    BY <2>2, <2>3, RepliesSplit DEF ViewOf
  <2>4. CASE Marked(Prefix) /\ ~HasBlankLine(u)
    <3>1. shown.text = <<>>
      BY <2>2, <2>4 DEF ViewOf, ViewOfQuoted, View
    <3> QED
      BY <2>4, <3>1, RepliesSplit
  <2> DEFINE thought == StripPrefixes(Frame(u))
  <2>5. CASE Marked(Prefix) /\ HasBlankLine(u) /\ thought # <<>>
    <3>1. shown.thoughts = <<thought>> /\ shown.text = Behind(u)
      BY <2>2, <2>5 DEF ViewOf, ViewOfQuoted, View, Thought
    <3>2. reply = View(<<thought>>, TrimStart(Behind(u)))
      BY <2>5, RepliesSplit
    <3> QED
      BY <3>1, <3>2 DEF View
  <2>6. CASE Marked(Prefix) /\ HasBlankLine(u) /\ thought = <<>>
    <3>1. shown.thoughts = <<>>
      BY <2>2, <2>6 DEF ViewOf, ViewOfQuoted, View, Thought
    <3>2. left
      BY <2>6, RepliesSplit
    <3>3. WordsOf(<<>> \o shown.text) = WordsOf(Prefix)
      BY <2>1, <3>1, ShownKeepsWords, FlattenNil DEF NoWordLost
    <3>4. shown.text \in Seq(Atoms)
      BY DEF SplitInv, TextInv
    <3> QED
      BY <3>1, <3>2, <3>3, <3>4, ConcatEmptySeq
  <2> QED
    BY <2>3, <2>4, <2>5, <2>6
<1> QED
  BY <1>1, SplitterKeeps, PTL
=============================================================================
