---------------------------- MODULE ScannerProofs ---------------------------
(***************************************************************************)
(* What holds of the scanner for every set of documents, every cut and     *)
(* every document's length: its invariant, and that feed's loop            *)
(* terminates.  The parser's recursions are walks over a text, whose       *)
(* readings are calls at every place.                                      *)
(***************************************************************************)
EXTENDS Scanner, TextLinesProofs

(* What FirstOf finds is one of the places.                                *)
LEMMA FirstOfMember ==
  ASSUME NEW S \in SUBSET (Nat \ {0})
  PROVE  FirstOf(S) \in S \cup {0}
BY FirstOfPlaces

(* What find_next_open_tag finds is an opening tag inside the text.        *)
LEMMA FindOpenFound ==
  ASSUME NEW t \in Seq(STRING), NEW names, NEW from \in Nat \ {0},
         FindOpen(t, names, from) # 0
  PROVE  /\ FindOpen(t, names, from) \in from..Len(t)
         /\ Opens(t, FindOpen(t, names, from), names)
<1> DEFINE S == {i \in from..Len(t) : Opens(t, i, names)}
<1>1. S \in SUBSET (Nat \ {0})
  OBVIOUS
<1>2. FirstOf(S) \in S
  BY <1>1, FirstOfMember DEF FindOpen
<1> QED
  BY <1>2 DEF FindOpen

(* The end of a closing tag lies inside the text, or there is none.        *)
LEMMA CloseEndRange ==
  ASSUME NEW t \in Seq(STRING), NEW names, NEW from \in Nat \ {0}
  PROVE  CloseEnd(t, names, from) \in {0} \cup from..Len(t)
<1> DEFINE S == {i \in from..Len(t) : i >= from + 3 /\ Closes(t, i - 3, names)}
<1>1. S \in SUBSET (Nat \ {0})
  OBVIOUS
<1>2. FirstOf(S) \in S \cup {0}
  BY <1>1, FirstOfMember
<1>3. S \subseteq from..Len(t)
  OBVIOUS
<1>4. FirstOf(S) \in {0} \cup from..Len(t)
  BY <1>2, <1>3
<1> QED
  BY <1>4 DEF CloseEnd

(* The end of bare arguments lies inside the text, or there is none.       *)
LEMMA OrphanEndRange ==
  ASSUME NEW t \in Seq(STRING), NEW from \in Nat \ {0}
  PROVE  OrphanEnd(t, from) \in {0} \cup from..Len(t)
<1> DEFINE S == {i \in from..Len(t) :
                   \/ i >= from + 3 /\ Closes(t, i - 3, ArgumentTags \cup {"tool_call"})
                   \/ Opens(t, i + 1, Wrappers \cup {"name"})}
<1>1. S \in SUBSET (Nat \ {0})
  OBVIOUS
<1>2. FirstOf(S) \in S \cup {0}
  BY <1>1, FirstOfMember
<1>3. S \subseteq from..Len(t)
  OBVIOUS
<1>4. FirstOf(S) \in {0} \cup from..Len(t)
  BY <1>2, <1>3
<1> QED
  BY <1>4 DEF OrphanEnd

(* A fragment of t lies inside t, behind the cursor, and is not empty.     *)
Inside(t, cursor) ==
  {f \in [first : 1..Len(t), last : 1..Len(t)] : cursor <= f.first /\ f.first <= f.last}

(* A fragment from a place of the text up to another lies inside it.       *)
LEMMA UptoInside ==
  ASSUME NEW t \in Seq(STRING), NEW cursor \in Nat \ {0}, NEW first \in cursor..Len(t),
         NEW end \in {0} \cup first..Len(t), NEW allowIncomplete
  PROVE  Upto(t, first, end, allowIncomplete) \in Inside(t, cursor) \cup {NoFragment}
<1>1. first \in 1..Len(t) /\ Len(t) \in 1..Len(t) /\ cursor <= first
  OBVIOUS
<1>2. end # 0 => end \in 1..Len(t) /\ first <= end
  OBVIOUS
<1> QED
  BY <1>1, <1>2 DEF Upto, Inside

(* Leftmost chooses one of the fragments.                                  *)
LEMMA LeftmostMember ==
  ASSUME NEW F, \A f \in F : f.first \in Nat, F # {}
  PROVE  Leftmost(F) \in F
<1> DEFINE S == {f.first : f \in F}
<1>0. S \in SUBSET Nat /\ S # {}
  OBVIOUS
<1>1. PICK x \in S : \A y \in S : x <= y
  BY <1>0, LeastMember
<1>2. PICK f \in F : f.first = x
  OBVIOUS
<1>3. \A g \in F : f.first <= g.first
  BY <1>1, <1>2
<1> QED
  BY <1>3 DEF Leftmost

(* What next_wrapped_tool_fragment finds lies inside the text.             *)
LEMMA WrappedInside ==
  ASSUME NEW t \in Seq(STRING), NEW cursor \in Nat \ {0}, NEW allowIncomplete
  PROVE  NextWrapped(t, cursor, allowIncomplete) \in Inside(t, cursor) \cup {NoFragment}
<1> DEFINE p == FindOpen(t, Wrappers, cursor)
<1>1. CASE p = 0
  BY <1>1 DEF NextWrapped, WrappedAt
<1>2. CASE p # 0
  <2>1. p \in cursor..Len(t)
    BY <1>2, FindOpenFound
  <2>2. p + 3 \in Nat \ {0}
    BY <2>1
  <2>3. CloseEnd(t, {t[p + 1]}, p + 3) \in {0} \cup p..Len(t)
    <3>1. CloseEnd(t, {t[p + 1]}, p + 3) \in {0} \cup (p + 3)..Len(t)
      BY <2>2, CloseEndRange
    <3> QED
      BY <2>1, <3>1
  <2> HIDE DEF p
  <2>4. WrappedAt(t, p, allowIncomplete) \in Inside(t, cursor) \cup {NoFragment}
    BY <1>2, <2>1, <2>3, UptoInside DEF WrappedAt
  <2> QED
    BY <2>4 DEF NextWrapped, p
<1> QED
  BY <1>1, <1>2

(* What next_orphan_tool_fragment finds lies inside the text.              *)
LEMMA OrphanInside ==
  ASSUME NEW t \in Seq(STRING), NEW cursor \in Nat \ {0}, NEW allowIncomplete
  PROVE  NextOrphan(t, cursor, allowIncomplete) \in Inside(t, cursor) \cup {NoFragment}
<1> DEFINE At(i) == OrphanAt(t, i, CloseEnd(t, {"name"}, i + 3), allowIncomplete)
           F == {At(i) : i \in {i \in cursor..Len(t) : Opens(t, i, {"name"})}} \ {NoFragment}
<1>1. ASSUME NEW i \in cursor..Len(t)
      PROVE  At(i) \in Inside(t, cursor) \cup {NoFragment}
  <2> DEFINE e == CloseEnd(t, {"name"}, i + 3)
  <2>1. e \in {0} \cup (i + 3)..Len(t)
    BY CloseEndRange
  <2>2. e + 1 \in Nat \ {0} /\ (e # 0 => i <= e)
    BY <2>1
  <2>3. OrphanEnd(t, e + 1) \in {0} \cup (e + 1)..Len(t)
    BY <2>2, OrphanEndRange
  <2>4. e # 0 => OrphanEnd(t, e + 1) \in {0} \cup i..Len(t)
    BY <2>1, <2>2, <2>3
  <2> HIDE DEF e
  <2>5. OrphanAt(t, i, e, allowIncomplete) \in Inside(t, cursor) \cup {NoFragment}
    BY <2>4, UptoInside DEF OrphanAt
  <2> QED
    BY <2>5 DEF e
<1> HIDE DEF At
<1>2. F \subseteq Inside(t, cursor)
  BY <1>1
<1>3. Leftmost(F) \in F \/ Leftmost(F) = NoFragment
  BY <1>2, LeftmostMember DEF Inside, Leftmost
<1>4. NextOrphan(t, cursor, allowIncomplete) = Leftmost(F)
  BY DEF NextOrphan, At
<1> QED
  BY <1>2, <1>3, <1>4

(* What next_tool_fragment finds lies inside the text and is not empty.    *)
LEMMA FragmentInside ==
  ASSUME NEW t \in Seq(STRING), NEW cursor \in Nat \ {0}, NEW allowIncomplete
  PROVE  NextFragment(t, cursor, allowIncomplete) \in Inside(t, cursor) \cup {NoFragment}
<1> DEFINE w == NextWrapped(t, cursor, allowIncomplete)
           o == NextOrphan(Before(t, w), cursor, allowIncomplete)
           F == {w, o} \ {NoFragment}
<1>1. w \in Inside(t, cursor) \cup {NoFragment}
  BY WrappedInside
<1> HIDE DEF w
<1>2. Before(t, w) \in Seq(STRING) /\ Len(Before(t, w)) <= Len(t)
  <2>1. CASE w = NoFragment
    BY <2>1 DEF Before
  <2>2. CASE w # NoFragment
    <3>1. w.first - 1 \in 0..Len(t)
      BY <1>1, <2>2 DEF Inside
    <3>2. \A k \in 0..Len(t) : SubSeq(t, 1, k) \in Seq(STRING) /\ Len(SubSeq(t, 1, k)) = k
      BY SubSeqProperties
    <3> QED
      BY <2>2, <3>1, <3>2 DEF Before
  <2> QED
    BY <2>1, <2>2
<1>3. o \in Inside(Before(t, w), cursor) \cup {NoFragment}
  BY <1>2, OrphanInside
<1>4. Inside(Before(t, w), cursor) \subseteq Inside(t, cursor)
  BY <1>2 DEF Inside
<1> HIDE DEF o
<1>5. F \subseteq Inside(t, cursor)
  BY <1>1, <1>3, <1>4
<1>6. Leftmost(F) \in F \/ Leftmost(F) = NoFragment
  BY <1>5, LeftmostMember DEF Inside, Leftmost
<1>7. NextFragment(t, cursor, allowIncomplete) = Leftmost(F)
  BY DEF NextFragment, OrphanOr, w, o
<1> QED
  BY <1>5, <1>6, <1>7

-----------------------------------------------------------------------------
(* Walks.  The parser goes through a text by a function that computes the  *)
(* readings from a place on: those at the place, then those from a later   *)
(* place on.                                                               *)

(* From which places it stops, and what it does at the others.             *)
Walk(D, B, rank, N, stop, head, next) ==
  /\ N \in Nat /\ rank \in [D -> Nat] /\ (\A i \in D : rank[i] < N)
  /\ head \in [D -> Seq(B)] /\ next \in [D -> D]
  /\ \A i \in D : i \notin stop => rank[next[i]] < rank[i]
Walked(D, stop, head, next, g) ==
  \A i \in D : g[i] = IF i \in stop THEN <<>> ELSE head[i] \o g[next[i]]

(* A walk may also leave out the readings of a place that has none.        *)
Stepped(D, stop, head, next, g) ==
  \A i \in D : IF i \in stop THEN g[i] = <<>>
              ELSE \/ g[i] = head[i] \o g[next[i]]
                   \/ head[i] = <<>> /\ g[i] = g[next[i]]

(* There is such a function.                                               *)
LEMMA WalkExists ==
  ASSUME NEW D, NEW B, NEW rank, NEW N, NEW stop, NEW head, NEW next,
         Walk(D, B, rank, N, stop, head, next)
  PROVE  \E g \in [D -> Seq(B)] : Walked(D, stop, head, next, g)
<1> DEFINE V == Seq(B)
           at(f, i) == IF i \in stop THEN <<>> ELSE head[i] \o f[next[i]]
           e == [x \in [D -> V] \X D |-> at(x[1], x[2])]
<1>1. ASSUME NEW f \in [D -> V], NEW i \in D PROVE at(f, i) \in V
  <2>1. <<>> \in V
    OBVIOUS
  <2>2. head[i] \in Seq(B) /\ f[next[i]] \in Seq(B)
    BY DEF Walk
  <2> DEFINE h == head[i]
             x == f[next[i]]
  <2> HIDE DEF h, x
  <2>3. h \o x \in V
    BY <2>2, ConcatShape DEF h, x
  <2> QED
    BY <2>1, <2>3 DEF h, x
<1>2. ASSUME NEW f \in [D -> V], NEW i \in D PROVE e[<<f, i>>] = at(f, i)
  OBVIOUS
<1>3. ASSUME NEW f \in [D -> V], NEW g \in [D -> V], NEW i \in D,
             \A j \in D : rank[j] < rank[i] => f[j] = g[j]
      PROVE  at(f, i) = at(g, i)
  BY <1>3 DEF Walk
<1>4. e \in [[D -> V] \X D -> V]
  <2>1. ASSUME NEW x \in [D -> V] \X D PROVE e[x] \in V
    <3>1. x = <<x[1], x[2]>> /\ x[1] \in [D -> V] /\ x[2] \in D
      OBVIOUS
    <3>2. e[x] = at(x[1], x[2])
      OBVIOUS
    <3> HIDE DEF e, V, at
    <3> QED
      BY <1>1, <3>1, <3>2
  <2> HIDE DEF V, at
  <2> QED
    BY <2>1
<1>5. V # {}
  <2>1. <<>> \in V
    OBVIOUS
  <2> HIDE DEF V
  <2> QED
    BY <2>1
<1> HIDE DEF e, V, at
<1>6. \A f \in [D -> V], g \in [D -> V], i \in D :
        (\A j \in D : rank[j] < rank[i] => f[j] = g[j]) => e[<<f, i>>] = e[<<g, i>>]
  BY <1>2, <1>3
<1>7. Recursive(D, V, rank, N, e)
  BY <1>4, <1>5, <1>6 DEF Recursive, Walk
<1>8. PICK g \in [D -> V] : \A i \in D : g[i] = e[<<g, i>>]
  <2>1. Solvable(D, V, e)
    BY <1>7, Recursion
  <2> QED
    BY <2>1 DEF Solvable, Solution
<1>9. \A i \in D : g[i] = at(g, i)
  BY <1>2, <1>8
<1> QED
  BY <1>8, <1>9 DEF Walked, V, at

(* And every one is a sequence at every place.                             *)
LEMMA WalkTyped ==
  ASSUME NEW D, NEW B, NEW rank, NEW N, NEW stop, NEW head, NEW next,
         Walk(D, B, rank, N, stop, head, next), NEW g, Stepped(D, stop, head, next, g)
  PROVE  \A i \in D : g[i] \in Seq(B)
<1> DEFINE S == {i \in D : g[i] \in Seq(B)}
<1>1. rank \in [D -> Nat]
  BY DEF Walk
<1>2. ASSUME NEW i \in D, \A j \in D : rank[j] < rank[i] => j \in S PROVE i \in S
  <2>1. CASE i \in stop
    <3>1. <<>> \in Seq(B)
      OBVIOUS
    <3> QED
      BY <2>1, <3>1 DEF Stepped
  <2>2. CASE i \notin stop
    <3> DEFINE h == head[i]
               x == g[next[i]]
    <3>1. h \in Seq(B) /\ x \in Seq(B)
      BY <1>2, <2>2 DEF Walk
    <3>2. g[i] = h \o x \/ g[i] = x
      BY <2>2 DEF Stepped
    <3> HIDE DEF h, x
    <3> QED
      BY <3>1, <3>2, ConcatShape
  <2> QED
    BY <2>1, <2>2
<1> HIDE DEF S
<1>3. \A i \in D : (\A j \in D : rank[j] < rank[i] => j \in S) => i \in S
  BY <1>2
<1>4. D \subseteq S
  BY <1>1, <1>3, RankInduction
<1> QED
  BY <1>4 DEF S

-----------------------------------------------------------------------------
(* What the parser makes of a text is texts.                               *)

(* A part of a text.                                                       *)
LEMMA PartType ==
  ASSUME NEW A, NEW t \in Seq(A), NEW i \in Nat \ {0}, NEW k \in Int, k <= Len(t)
  PROVE  SubSeq(t, i, k) \in Seq(A)
<1>1. Len(t) \in Nat /\ \A j \in 1..Len(t) : t[j] \in A
  OBVIOUS
<1>2. \A j \in i..k : j \in 1..Len(t)
  BY <1>1
<1>3. \A j \in i..k : t[j] \in A
  BY <1>1, <1>2
<1> QED
  BY <1>3, SubSeqProperties

(* The rest of one.                                                        *)
LEMMA RestType ==
  ASSUME NEW A, NEW t \in Seq(A), NEW i \in Nat \ {0}
  PROVE  From(t, i) \in Seq(A)
<1>1. Len(t) \in Int /\ Len(t) <= Len(t)
  OBVIOUS
<1> QED
  BY <1>1, PartType DEF From

(* Without its CDATA brackets.                                             *)
LEMMA UnwrappedType ==
  ASSUME NEW A, NEW raw \in Seq(A)
  PROVE  Unwrapped(raw) \in Seq(A) /\ StripCdata(raw) \in Seq(A)
<1>1. Unwrapped(raw) \in Seq(A)
  <2>1. CASE raw = <<>>
    BY <2>1 DEF Unwrapped
  <2>2. CASE raw # <<>>
    <3>1. Tail(raw) \in Seq(A)
      BY <2>2, HeadTailProperties
    <3>2. SubSeq(raw, 2, Len(raw) - 1) \in Seq(A)
      <4>1. 2 \in Nat \ {0} /\ Len(raw) - 1 \in Int /\ Len(raw) - 1 <= Len(raw)
        OBVIOUS
      <4> QED
        BY <4>1, PartType
    <3> QED
      BY <3>1, <3>2 DEF Unwrapped
  <2> QED
    BY <2>1, <2>2
<1> QED
  BY <1>1 DEF StripCdata

(* Where the places are found.                                             *)
LEMMA Places ==
  ASSUME NEW t \in Seq(STRING), NEW from \in Nat \ {0}, NEW names, NEW name, NEW atoms
  PROVE  /\ FindOpen(t, names, from) \in {0} \cup from..Len(t)
         /\ FindClose(t, names, from) \in {0} \cup from..Len(t)
         /\ FindTag(t, name, from) \in {0} \cup from..Len(t)
         /\ FindAtom(t, atoms) \in 0..Len(t)
<1> DEFINE P(S) == FirstOf(S) \in S \cup {0}
<1>1. ASSUME NEW S \in SUBSET (Nat \ {0}) PROVE P(S)
  BY FirstOfMember
<1> HIDE DEF P
<1>2. /\ P({i \in from..Len(t) : Opens(t, i, names)})
      /\ P({i \in from..Len(t) : Closes(t, i, names)})
      /\ P({i \in from..Len(t) : Opens(t, i, {name}) /\ t[i + 2] = ">"})
      /\ P({i \in DOMAIN t : t[i] \in atoms})
  <2>1. \A i \in from..Len(t) : i \in Nat \ {0}
    OBVIOUS
  <2>2. \A i \in DOMAIN t : i \in Nat \ {0}
    OBVIOUS
  <2> QED
    BY <1>1, <2>1, <2>2
<1>3. DOMAIN t = 1..Len(t) /\ Len(t) \in Nat
  OBVIOUS
<1> QED
  BY <1>2, <1>3 DEF P, FindOpen, FindClose, FindTag, FindAtom

(* The end of an opening tag, and its attribute.                           *)
LEMMA TagPlaces ==
  ASSUME NEW t \in Seq(STRING), NEW open \in Nat
  PROVE  /\ TagEnd(t, open) \in {0} \cup (open + 2)..Len(t)
         /\ TagEnd(t, open) # 0 => Attribute(t, open) \in Seq(STRING)
<1> DEFINE S == {i \in (open + 2)..Len(t) : t[i] = ">"}
           n == open + 2
<1>1. S \in SUBSET (Nat \ {0})
  OBVIOUS
<1>2. TagEnd(t, open) \in S \cup {0}
  BY <1>1, FirstOfMember DEF TagEnd
<1>3. ASSUME TagEnd(t, open) # 0 PROVE Attribute(t, open) \in Seq(STRING)
  <2>1. TagEnd(t, open) \in n..Len(t) /\ t[TagEnd(t, open)] = ">"
    BY <1>2, <1>3
  <2>2. CASE t[n] = "name="
    <3>1. TagEnd(t, open) # n
      BY <2>1, <2>2
    <3>2. open + 3 \in 1..Len(t)
      BY <2>1, <3>1
    <3>3. t[open + 3] \in STRING
      BY <3>2
    <3>4. <<t[open + 3]>> \in Seq(STRING)
      BY <3>3, OneType
    <3> QED
      BY <2>2, <3>4 DEF Attribute
  <2>3. CASE t[n] # "name="
    <3>1. <<>> \in Seq(STRING)
      OBVIOUS
    <3> QED
      BY <2>3, <3>1 DEF Attribute
  <2> QED
    BY <2>2, <2>3
<1> QED
  BY <1>2, <1>3

(* Elements: where the body of one is, and where the next one is looked    *)
(* for.                                                                    *)
BodyOf(t, closing, opening, open) ==
  SubSeq(t, TagEnd(t, open) + 1,
         BodyEnd(t, FindClose(t, closing, TagEnd(t, open) + 1), FindOpen(t, opening, TagEnd(t, open) + 1)))
Following(t, closing, opening, open) ==
  FindOpen(t, opening,
           BehindElement(t, FindClose(t, closing, TagEnd(t, open) + 1),
                         FindOpen(t, opening, TagEnd(t, open) + 1)))
NoElement(t) == {open \in 0..Len(t) : open = 0 \/ TagEnd(t, open) = 0}

(* They are a text and a later place.                                      *)
LEMMA ElementPlaces ==
  ASSUME NEW t \in Seq(STRING), NEW closing, NEW opening,
         NEW open \in 0..Len(t), open \notin NoElement(t)
  PROVE  /\ BodyOf(t, closing, opening, open) \in Seq(STRING)
         /\ Following(t, closing, opening, open) \in {0} \cup (open + 1)..Len(t)
<1> DEFINE e == TagEnd(t, open)
           i == e + 1
           c == FindClose(t, closing, i)
           n == FindOpen(t, opening, i)
           k == BodyEnd(t, c, n)
           b == BehindElement(t, c, n)
<1>1. Len(t) \in Nat /\ open \in Nat \ {0} /\ e \in (open + 2)..Len(t)
  <2>1. e \in {0} \cup (open + 2)..Len(t)
    BY TagPlaces
  <2> QED
    BY <2>1 DEF NoElement
<1> HIDE DEF e
<1>2. i \in Nat \ {0} /\ i > open + 2 /\ i <= Len(t) + 1
  BY <1>1
<1> HIDE DEF i
<1>3. c \in {0} \cup i..Len(t) /\ n \in {0} \cup i..Len(t)
  BY <1>2, Places
<1> HIDE DEF c, n
<1>4. k \in Int /\ k <= Len(t) /\ b \in Nat \ {0} /\ b > open
  BY <1>1, <1>2, <1>3 DEF BodyEnd, BehindElement
<1> HIDE DEF k, b
<1>5. SubSeq(t, i, k) \in Seq(STRING)
  BY <1>2, <1>4, PartType
<1>6. FindOpen(t, opening, b) \in {0} \cup b..Len(t)
  BY <1>4, Places
<1>7. FindOpen(t, opening, b) \in {0} \cup (open + 1)..Len(t)
  BY <1>1, <1>4, <1>6
<1> QED
  BY <1>5, <1>7 DEF BodyOf, Following, e, i, c, n, k, b

(* To go from element to element is a walk.                                *)
Onward(t, closing, opening) ==
  [open \in 0..Len(t) |-> IF open \in NoElement(t) THEN 0 ELSE Following(t, closing, opening, open)]
ToTheEnd(t) == [open \in 0..Len(t) |-> IF open = 0 THEN 0 ELSE Len(t) - open + 1]

(* So it is.                                                               *)
LEMMA ElementsWalk ==
  ASSUME NEW t \in Seq(STRING), NEW closing, NEW opening, NEW B, NEW head \in [0..Len(t) -> Seq(B)]
  PROVE  Walk(0..Len(t), B, ToTheEnd(t), Len(t) + 1, NoElement(t), head, Onward(t, closing, opening))
<1> DEFINE D == 0..Len(t)
           rank == ToTheEnd(t)
           next == Onward(t, closing, opening)
<1>1. Len(t) \in Nat /\ Len(t) + 1 \in Nat
  OBVIOUS
<1>2. \A i \in D : rank[i] \in Nat /\ rank[i] < Len(t) + 1
  BY <1>1 DEF ToTheEnd
<1>3. rank \in [D -> Nat]
  BY <1>2 DEF ToTheEnd
<1>4. ASSUME NEW i \in D, i \notin NoElement(t)
      PROVE  next[i] \in D /\ rank[next[i]] < rank[i]
  <2> DEFINE j == Following(t, closing, opening, i)
  <2>1. j \in {0} \cup (i + 1)..Len(t) /\ i # 0
    BY <1>4, ElementPlaces DEF NoElement
  <2>2. next[i] = j
    BY <1>4 DEF Onward
  <2> HIDE DEF j, next
  <2>3. j \in D
    BY <1>1, <2>1
  <2>4. rank[i] = Len(t) - i + 1 /\ rank[j] = (IF j = 0 THEN 0 ELSE Len(t) - j + 1)
    BY <2>1, <2>3 DEF ToTheEnd
  <2> HIDE DEF rank
  <2>5. rank[j] < rank[i]
    BY <1>1, <2>1, <2>4
  <2> QED
    BY <2>2, <2>3, <2>5
<1>5. next \in [D -> D]
  <2>1. \A i \in D : next[i] \in D
    <3>1. ASSUME NEW i \in D, i \in NoElement(t) PROVE next[i] \in D
      BY <1>1, <3>1 DEF Onward
    <3> QED
      BY <1>4, <3>1
  <2>2. next = [i \in D |-> next[i]]
    BY DEF Onward
  <2> HIDE DEF next
  <2> QED
    BY <2>1, <2>2
<1> HIDE DEF rank, next
<1> QED
  BY <1>1, <1>2, <1>3, <1>4, <1>5 DEF Walk, rank, next

(* The named values of a body.                                             *)
Pairs == [name : Seq(STRING), value : Seq(STRING)]
PairAt(t, open) ==
  IF open \in NoElement(t) \/ Attribute(t, open) = <<>> THEN <<>>
  ELSE <<[name |-> Attribute(t, open),
          value |-> StripCdata(BodyOf(t, {"parameter"}, ParameterTags, open))]>>

(* At each place there is one, or none.                                    *)
LEMMA PairType ==
  ASSUME NEW t \in Seq(STRING), NEW open \in 0..Len(t)
  PROVE  PairAt(t, open) \in Seq(Pairs)
<1>1. <<>> \in Seq(Pairs)
  OBVIOUS
<1>2. CASE open \in NoElement(t)
  BY <1>1, <1>2 DEF PairAt
<1>3. CASE open \notin NoElement(t)
  <2> DEFINE b == BodyOf(t, {"parameter"}, ParameterTags, open)
             a == Attribute(t, open)
             p == [name |-> a, value |-> StripCdata(b)]
  <2>1. b \in Seq(STRING)
    BY <1>3, ElementPlaces
  <2>2. StripCdata(b) \in Seq(STRING)
    BY <2>1, UnwrappedType
  <2>3. a \in Seq(STRING)
    BY <1>3, TagPlaces DEF NoElement
  <2>4. p \in Pairs
    BY <2>2, <2>3 DEF Pairs
  <2> HIDE DEF p
  <2>5. <<p>> \in Seq(Pairs)
    BY <2>4, OneType
  <2> QED
    BY <1>1, <2>5 DEF PairAt, p
<1> QED
  BY <1>2, <1>3

(* So the values of a body are pairs of texts.                             *)
LEMMA PairsType ==
  ASSUME NEW body \in Seq(STRING)
  PROVE  ParameterPairs(body) \in Seq(Pairs)
<1> DEFINE D == 0..Len(body)
           stop == NoElement(body)
           head == [open \in D |-> PairAt(body, open)]
           next == Onward(body, {"parameter"}, ParameterTags)
           first == FindOpen(body, ParameterTags, 1)
           At(f, open) ==
             LET close == FindClose(body, {"parameter"}, TagEnd(body, open) + 1)
                 then == FindOpen(body, ParameterTags, TagEnd(body, open) + 1)
                 value == StripCdata(SubSeq(body, TagEnd(body, open) + 1, BodyEnd(body, close, then)))
             IN  IF open = 0 \/ TagEnd(body, open) = 0 THEN <<>>
                 ELSE (IF Attribute(body, open) = <<>> THEN <<>>
                       ELSE <<[name |-> Attribute(body, open), value |-> value]>>)
                      \o f[FindOpen(body, ParameterTags, BehindElement(body, close, then))]
           Def(f) == f = [open \in D |-> At(f, open)]
<1>1. head \in [D -> Seq(Pairs)]
  BY PairType
<1> HIDE DEF head
<1>2. Walk(D, Pairs, ToTheEnd(body), Len(body) + 1, stop, head, next)
  BY <1>1, ElementsWalk
<1>3. ASSUME NEW f, NEW open \in D
      PROVE  At(f, open) = IF open \in stop THEN <<>> ELSE head[open] \o f[next[open]]
  <2>1. CASE open \in stop
    BY <2>1 DEF NoElement
  <2>2. CASE open \notin stop
    <3>1. ~(open = 0 \/ TagEnd(body, open) = 0)
      BY <2>2 DEF NoElement
    <3>2. head[open] = PairAt(body, open) /\ next[open] = Following(body, {"parameter"}, ParameterTags, open)
      BY <2>2 DEF head, Onward
    <3>3. At(f, open) = PairAt(body, open) \o f[Following(body, {"parameter"}, ParameterTags, open)]
      BY <2>2, <3>1 DEF PairAt, BodyOf, Following
    <3> HIDE DEF At
    <3> QED
      BY <2>2, <3>2, <3>3
  <2> QED
    BY <2>1, <2>2
<1>4. ParameterPairs(body) = (CHOOSE f : Def(f))[first]
  BY DEF ParameterPairs
<1> HIDE DEF At, next, stop
<1>5. PICK g \in [D -> Seq(Pairs)] : Walked(D, stop, head, next, g)
  BY <1>2, WalkExists
<1>6. Def(g)
  <2>1. \A open \in D : g[open] = At(g, open)
    BY <1>3, <1>5 DEF Walked
  <2> QED
    BY <2>1
<1>7. PICK f : Def(f) /\ ParameterPairs(body) = f[first]
  BY <1>4, <1>6
<1>8. Stepped(D, stop, head, next, f)
  BY <1>3, <1>7 DEF Stepped
<1>9. first \in D
  <2>1. first \in {0} \cup 1..Len(body)
    BY Places
  <2> QED
    BY <2>1
<1>10. \A i \in D : f[i] \in Seq(Pairs)
  BY <1>2, <1>8, WalkTyped
<1> QED
  BY <1>7, <1>9, <1>10

(* A call with a name and arguments that are texts, and what readings are. *)
Calls == [what : {"call"}, name : Seq(STRING), arguments : Seq(STRING)]

(* One call is a reading, and so is none.                                  *)
LEMMA OneCall ==
  /\ <<>> \in Seq(Calls) /\ <<>> \in Seq(STRING)
  /\ \A n \in Seq(STRING), a \in Seq(STRING) : <<Call(n, a)>> \in Seq(Calls)
<1>1. ASSUME NEW n \in Seq(STRING), NEW a \in Seq(STRING) PROVE <<Call(n, a)>> \in Seq(Calls)
  <2> DEFINE c == Call(n, a)
  <2>1. c \in Calls
    BY DEF Call, Calls
  <2> HIDE DEF c
  <2> QED
    BY <2>1, OneType DEF c
<1> QED
  BY <1>1

(* The words of an object.                                                 *)
LEMMA ParametersType ==
  ASSUME NEW body \in Seq(STRING)
  PROVE  Parameters(body) \in Seq(STRING)
<1> DEFINE A == Seq(STRING)
           pairs == ParameterPairs(body)
           kept == {i \in DOMAIN pairs : \A j \in DOMAIN pairs : pairs[j].name = pairs[i].name => j <= i}
           w == [i \in DOMAIN pairs |-> IF i \in kept THEN pairs[i].name \o pairs[i].value ELSE <<>>]
<1>1. pairs \in Seq(Pairs)
  BY PairsType
<1>2. Parameters(body) = FlattenSeq(w)
  BY DEF Parameters
<1> HIDE DEF pairs, kept
<1>3. Len(pairs) \in Nat /\ DOMAIN pairs = 1..Len(pairs)
  BY <1>1
<1>4. ASSUME NEW i \in 1..Len(pairs) PROVE w[i] \in A
  <2>1. pairs[i] \in Pairs
    BY <1>1
  <2> DEFINE n == pairs[i].name
             v == pairs[i].value
  <2>2. n \in Seq(STRING) /\ v \in Seq(STRING)
    BY <2>1 DEF Pairs
  <2>3. w[i] = IF i \in kept THEN n \o v ELSE <<>>
    BY <1>3
  <2> HIDE DEF n, v, w
  <2>4. n \o v \in Seq(STRING)
    BY <2>2, ConcatShape
  <2> QED
    BY <2>3, <2>4, OneCall
<1>5. w = [i \in 1..Len(pairs) |-> w[i]]
  BY <1>3
<1> HIDE DEF w, A
<1>6. w \in Seq(A)
  BY <1>3, <1>4, <1>5
<1> QED
  BY <1>2, <1>6, FlattenType DEF A

(* A call that its tag names.                                              *)
LEMMA AttributedType ==
  ASSUME NEW f \in Seq(STRING), NEW open \in Nat
  PROVE  Attributed(f, open) \in Seq(Calls)
<1>1. CASE open = 0 \/ TagEnd(f, open) = 0 \/ Attribute(f, open) = <<>>
  BY <1>1, OneCall DEF Attributed
<1>2. CASE ~(open = 0 \/ TagEnd(f, open) = 0 \/ Attribute(f, open) = <<>>)
  <2> DEFINE e == TagEnd(f, open)
             body == From(f, e + 1)
             lt == FirstOf({i \in 1..(Len(body) - 1) : body[i] = "<" /\ body[i + 1] = "/"})
             o == OuterBody(f, open)
  <2>1. e \in Nat \ {0} /\ Attribute(f, open) \in Seq(STRING)
    BY <1>2, TagPlaces
  <2>2. body \in Seq(STRING)
    <3> HIDE DEF e
    <3> QED
      BY <2>1, RestType
  <2>3. o = IF lt # 0 /\ Closes(body, lt, {"tool_call"}) THEN SubSeq(body, 1, lt - 1) ELSE body
    BY DEF OuterBody
  <2>4. lt \in 0..Len(body)
    <3> DEFINE S == {i \in 1..(Len(body) - 1) : body[i] = "<" /\ body[i + 1] = "/"}
    <3> HIDE DEF body
    <3>1. S \in SUBSET (Nat \ {0}) /\ S \subseteq 0..Len(body)
      BY <2>2
    <3>2. FirstOf(S) \in S \cup {0}
      BY <3>1, FirstOfMember
    <3> QED
      BY <2>2, <3>1, <3>2
  <2> HIDE DEF body, lt, o
  <2>5. SubSeq(body, 1, lt - 1) \in Seq(STRING)
    <3>1. lt - 1 \in Int /\ lt - 1 <= Len(body) /\ 1 \in Nat \ {0}
      BY <2>2, <2>4
    <3> QED
      BY <2>2, <3>1, PartType
  <2>6. o \in Seq(STRING)
    BY <2>2, <2>3, <2>5
  <2>7. Parameters(o) \in Seq(STRING)
    BY <2>6, ParametersType
  <2>8. Attributed(f, open) = <<Call(Attribute(f, open), Parameters(o))>>
    BY <1>2 DEF Attributed, o
  <2> QED
    BY <2>1, <2>7, <2>8, OneCall
<1> QED
  BY <1>1, <1>2

(* A name element inside a body.                                           *)
LEMMA NameInsideType ==
  ASSUME NEW body \in Seq(STRING)
  PROVE  NameInside(body) \in Seq(STRING)
<1> DEFINE open == FindTag(body, "name", 1)
           close == FindClose(body, {"name"}, open + 3)
<1>1. open \in {0} \cup 1..Len(body)
  BY Places
<1>2. NameInside(body) = IF open = 0 \/ close = 0 THEN <<>>
                         ELSE StripCdata(SubSeq(body, open + 3, close - 1))
  BY DEF NameInside
<1> HIDE DEF open
<1>3. open + 3 \in Nat \ {0}
  BY <1>1
<1>4. close \in {0} \cup (open + 3)..Len(body)
  BY <1>3, Places
<1> HIDE DEF close
<1>5. close - 1 \in Int /\ close - 1 <= Len(body)
  BY <1>3, <1>4
<1>6. StripCdata(SubSeq(body, open + 3, close - 1)) \in Seq(STRING)
  BY <1>3, <1>5, PartType, UnwrappedType
<1> QED
  BY <1>2, <1>6, OneCall

(* What is read of one invoke element.                                     *)
InvokeAt(t, open) ==
  IF open \in NoElement(t) THEN <<>>
  ELSE Invoked(OrElse(Attribute(t, open), NameInside(BodyOf(t, {"invoke"}, {"invoke"}, open))),
               BodyOf(t, {"invoke"}, {"invoke"}, open))

(* It is a call or none.                                                   *)
LEMMA InvokeType ==
  ASSUME NEW t \in Seq(STRING), NEW open \in 0..Len(t)
  PROVE  InvokeAt(t, open) \in Seq(Calls)
<1>1. CASE open \in NoElement(t)
  BY <1>1, OneCall DEF InvokeAt
<1>2. CASE open \notin NoElement(t)
  <2> DEFINE b == BodyOf(t, {"invoke"}, {"invoke"}, open)
             n == OrElse(Attribute(t, open), NameInside(b))
  <2>1. b \in Seq(STRING)
    BY <1>2, ElementPlaces
  <2>2. InvokeAt(t, open) = Invoked(n, b)
    BY <1>2 DEF InvokeAt
  <2> HIDE DEF b
  <2>3. Attribute(t, open) \in Seq(STRING) /\ NameInside(b) \in Seq(STRING)
    BY <1>2, <2>1, TagPlaces, NameInsideType DEF NoElement
  <2>4. n \in Seq(STRING) /\ Parameters(b) \in Seq(STRING)
    BY <2>1, <2>3, ParametersType DEF OrElse
  <2> HIDE DEF n
  <2> QED
    BY <2>2, <2>4, OneCall DEF Invoked
<1> QED
  BY <1>1, <1>2

(* So what is read of function calls is calls.                             *)
LEMMA FunctionCallsType ==
  ASSUME NEW t \in Seq(STRING)
  PROVE  FunctionCalls(t) \in Seq(Calls)
<1> DEFINE D == 0..Len(t)
           stop == NoElement(t)
           head == [open \in D |-> InvokeAt(t, open)]
           next == Onward(t, {"invoke"}, {"invoke"})
           first == FindOpen(t, {"invoke"}, 1)
           At(f, open) ==
             LET close == FindClose(t, {"invoke"}, TagEnd(t, open) + 1)
                 then == FindOpen(t, {"invoke"}, TagEnd(t, open) + 1)
                 body == SubSeq(t, TagEnd(t, open) + 1, BodyEnd(t, close, then))
             IN  IF open = 0 \/ TagEnd(t, open) = 0 THEN <<>>
                 ELSE Invoked(OrElse(Attribute(t, open), NameInside(body)), body)
                      \o f[FindOpen(t, {"invoke"}, BehindElement(t, close, then))]
           Def(f) == f = [open \in D |-> At(f, open)]
<1>1. head \in [D -> Seq(Calls)]
  BY InvokeType
<1> HIDE DEF head
<1>2. Walk(D, Calls, ToTheEnd(t), Len(t) + 1, stop, head, next)
  BY <1>1, ElementsWalk
<1>3. ASSUME NEW f, NEW open \in D
      PROVE  At(f, open) = IF open \in stop THEN <<>> ELSE head[open] \o f[next[open]]
  <2>1. CASE open \in stop
    BY <2>1 DEF NoElement
  <2>2. CASE open \notin stop
    <3>1. ~(open = 0 \/ TagEnd(t, open) = 0)
      BY <2>2 DEF NoElement
    <3>2. head[open] = InvokeAt(t, open) /\ next[open] = Following(t, {"invoke"}, {"invoke"}, open)
      BY <2>2 DEF head, Onward
    <3>3. At(f, open) = InvokeAt(t, open) \o f[Following(t, {"invoke"}, {"invoke"}, open)]
      BY <2>2, <3>1 DEF InvokeAt, BodyOf, Following
    <3> HIDE DEF At
    <3> QED
      BY <2>2, <3>2, <3>3
  <2> QED
    BY <2>1, <2>2
<1>4. FunctionCalls(t) = (CHOOSE f : Def(f))[first]
  BY DEF FunctionCalls
<1> HIDE DEF At, next, stop
<1>5. PICK g \in [D -> Seq(Calls)] : Walked(D, stop, head, next, g)
  BY <1>2, WalkExists
<1>6. Def(g)
  <2>1. \A open \in D : g[open] = At(g, open)
    BY <1>3, <1>5 DEF Walked
  <2> QED
    BY <2>1
<1>7. PICK f : Def(f) /\ FunctionCalls(t) = f[first]
  BY <1>4, <1>6
<1>8. Stepped(D, stop, head, next, f)
  BY <1>3, <1>7 DEF Stepped
<1>9. first \in D
  <2>1. first \in {0} \cup 1..Len(t)
    BY Places
  <2> QED
    BY <2>1
<1>10. \A i \in D : f[i] \in Seq(Calls)
  BY <1>2, <1>8, WalkTyped
<1> QED
  BY <1>7, <1>9, <1>10

(* The call of the block the prompt asks for.                              *)
LEMMA StrictType ==
  ASSUME NEW f \in Seq(STRING), NEW nameClose \in 0..Len(f)
  PROVE  Strict(f, nameClose) \in Seq(Calls)
<1> DEFINE i == nameClose + 7
           k == Len(f) - Len(StrictTail)
           name == SubSeq(f, 7, nameClose - 1)
           arguments == SubSeq(f, i, k)
<1>1. Len(StrictTail) = 8 /\ Len(f) \in Nat
  BY DEF StrictTail, Closer
<1>2. i \in Nat \ {0} /\ k \in Int /\ k <= Len(f)
  BY <1>1
<1>3. nameClose - 1 \in Int /\ nameClose - 1 <= Len(f) /\ 7 \in Nat \ {0}
  BY <1>1
<1> HIDE DEF i, k
<1>4. name \in Seq(STRING) /\ arguments \in Seq(STRING)
  BY <1>2, <1>3, PartType
<1>5. Strict(f, nameClose) \in {<<>>, <<Call(name, Unwrapped(arguments))>>}
  BY DEF Strict, i, k
<1> HIDE DEF name, arguments
<1>6. <<Call(name, Unwrapped(arguments))>> \in Seq(Calls)
  BY <1>4, UnwrappedType, OneCall
<1> QED
  BY <1>5, <1>6, OneCall

(* The call of a fragment with a name element.                             *)
LEMMA LenientType ==
  ASSUME NEW f \in Seq(STRING), NEW open \in 0..Len(f)
  PROVE  LenientAt(f, open) \in Seq(Calls)
<1> DEFINE close == FindClose(f, {"name"}, open + 3)
           a == FindOpen(f, {"arguments"}, 1)
           c == FindClose(f, {"arguments"}, a + 3)
           o == FindClose(f, {"tool_call"}, a + 3)
           i == TagEnd(f, a) + 1
           k == ArgumentsEnd(f, c, o)
           name == SubSeq(f, open + 3, close - 1)
<1>1. Len(f) \in Nat /\ open + 3 \in Nat \ {0}
  OBVIOUS
<1>2. close - 1 \in Int /\ close - 1 <= Len(f)
  <2>1. close \in {0} \cup (open + 3)..Len(f)
    BY <1>1, Places
  <2> QED
    BY <1>1, <2>1
<1>3. name \in Seq(STRING)
  BY <1>1, <1>2, PartType
<1>4. ArgumentsAt(f, a) \in Seq(STRING)
  <2>1. a \in {0} \cup 1..Len(f)
    BY Places
  <2>2. ArgumentsAt(f, a) = IF a = 0 THEN <<>> ELSE Unwrapped(SubSeq(f, i, k))
    BY DEF ArgumentsAt
  <2> HIDE DEF a
  <2>3. a + 3 \in Nat \ {0} /\ a \in Nat
    BY <2>1
  <2>4. c \in {0} \cup (a + 3)..Len(f) /\ o \in {0} \cup (a + 3)..Len(f)
    BY <2>3, Places
  <2>5. TagEnd(f, a) \in Nat
    BY <2>3, TagPlaces
  <2> HIDE DEF c, o
  <2>6. i \in Nat \ {0} /\ k \in Int /\ k <= Len(f)
    BY <1>1, <2>3, <2>4, <2>5 DEF ArgumentsEnd
  <2> HIDE DEF i, k
  <2>7. Unwrapped(SubSeq(f, i, k)) \in Seq(STRING)
    BY <2>6, PartType, UnwrappedType
  <2> QED
    BY <2>2, <2>7, OneCall
<1>5. LenientAt(f, open) \in {<<>>, <<Call(name, ArgumentsAt(f, a))>>}
  BY DEF LenientAt, Lenient
<1> HIDE DEF name, a
<1> QED
  BY <1>3, <1>4, <1>5, OneCall

(* A set of places of a text that is not empty has a greatest one.         *)
LEMMA MaxMember ==
  ASSUME NEW n \in Nat, NEW S \in SUBSET (1..n), S # {}
  PROVE  Max(S) \in S
<1> DEFINE R == {n - x : x \in S}
<1>1. R \in SUBSET Nat /\ R # {}
  <2>1. \A x \in S : x \in 1..n /\ n - x \in Nat
    OBVIOUS
  <2>2. PICK x \in S : TRUE
    OBVIOUS
  <2>3. n - x \in R
    OBVIOUS
  <2> QED
    BY <2>1, <2>3
<1>2. PICK y \in R : \A z \in R : y <= z
  BY <1>1, LeastMember
<1>3. PICK x \in S : y = n - x
  BY <1>2
<1>4. \A z \in S : x >= z
  <2>1. ASSUME NEW z \in S PROVE x >= z
    <3>1. n - z \in R
      OBVIOUS
    <3>2. y <= n - z
      BY <1>2, <3>1
    <3>3. x \in 1..n /\ z \in 1..n
      OBVIOUS
    <3> QED
      BY <1>3, <3>2, <3>3
  <2> QED
    BY <2>1
<1> QED
  BY <1>4 DEF Max

(* The body of a fragment without a name element.                          *)
LEMMA FallbackBodyType ==
  ASSUME NEW f \in Seq(STRING)
  PROVE  FallbackBody(f) \in Seq(STRING)
<1> DEFINE a == FindAtom(f, {">"})
           body == From(f, a + 1)
           closers == {i \in DOMAIN body : Closes(body, i, {"tool_call"})}
           k == Max(closers) - 1
<1>1. body \in Seq(STRING)
  <2>1. a \in 0..Len(f)
    BY Places
  <2>2. a + 1 \in Nat \ {0}
    BY <2>1
  <2> HIDE DEF a
  <2> QED
    BY <2>2, RestType
<1>2. FallbackBody(f) = IF closers = {} THEN body ELSE SubSeq(body, 1, k)
  BY DEF FallbackBody
<1> HIDE DEF body
<1>3. Len(body) \in Nat /\ closers \in SUBSET (1..Len(body))
  BY <1>1
<1> HIDE DEF closers
<1>4. ASSUME closers # {} PROVE SubSeq(body, 1, k) \in Seq(STRING)
  <2>1. Max(closers) \in 1..Len(body)
    BY <1>3, <1>4, MaxMember
  <2>2. k \in Int /\ k <= Len(body) /\ 1 \in Nat \ {0}
    BY <1>3, <2>1
  <2> HIDE DEF k
  <2> QED
    BY <1>1, <2>2, PartType
<1> QED
  BY <1>1, <1>2, <1>4

(* The call that such a body names.                                        *)
LEMMA FallbackType ==
  ASSUME NEW body \in Seq(STRING), NEW lt \in 0..Len(body)
  PROVE  Fallback(body, lt) \in Seq(Calls)
<1> DEFINE first == IF lt \in {0, Len(body)} \/ body[lt] = "[[" THEN "/" ELSE body[lt + 1]
<1>1. ASSUME first # "/" PROVE first \in STRING
  <2>1. lt + 1 \in 1..Len(body)
    BY <1>1
  <2>2. body[lt + 1] \in STRING
    BY <2>1
  <2> QED
    BY <1>1, <2>2
<1>2. \/ Fallback(body, lt) \in {<<>>, <<Call(body, <<>>)>>}
      \/ first # "/" /\ Fallback(body, lt) = <<Call(<<first>>, <<>>)>>
  BY DEF Fallback
<1> HIDE DEF first
<1>3. ASSUME first # "/" PROVE <<first>> \in Seq(STRING)
  BY <1>1, <1>3, OneType
<1> QED
  BY <1>2, <1>3, OneCall

(* What a fragment means is a call, calls or none.                         *)
LEMMA ParseFragmentType ==
  ASSUME NEW f \in Seq(STRING)
  PROVE  ParseFragment(f) \in Seq(Calls)
<1> DEFINE b == FallbackBody(f)
           strict == Strict(f, FindClose(f, {"name"}, 1))
           attributed == Attributed(f, FindOpen(f, {"tool_call"}, 1))
           lenient == LenientAt(f, FindTag(f, "name", 1))
           fallback == Fallback(b, FindAtom(b, {"<", "[["}))
           calls == FunctionCalls(f)
<1>1. \A n \in {0} \cup 1..Len(f) : n \in 0..Len(f) /\ n \in Nat
  OBVIOUS
<1>2. /\ FindClose(f, {"name"}, 1) \in 0..Len(f)
      /\ FindOpen(f, {"tool_call"}, 1) \in Nat
      /\ FindTag(f, "name", 1) \in 0..Len(f)
  <2>1. /\ FindClose(f, {"name"}, 1) \in {0} \cup 1..Len(f)
        /\ FindOpen(f, {"tool_call"}, 1) \in {0} \cup 1..Len(f)
        /\ FindTag(f, "name", 1) \in {0} \cup 1..Len(f)
    BY Places
  <2> QED
    BY <1>1, <2>1
<1>3. strict \in Seq(Calls) /\ attributed \in Seq(Calls) /\ lenient \in Seq(Calls)
  BY <1>2, StrictType, AttributedType, LenientType
<1>4. b \in Seq(STRING)
  BY FallbackBodyType
<1>5. ParseFragment(f) = OrElse(strict, OrElse(attributed, OrElse(calls, OrElse(lenient, fallback))))
  BY DEF ParseFragment
<1> HIDE DEF b
<1>6. FindAtom(b, {"<", "[["}) \in 0..Len(b)
  BY <1>4, Places
<1>7. fallback \in Seq(Calls)
  BY <1>4, <1>6, FallbackType
<1>8. calls \in Seq(Calls)
  BY FunctionCallsType
<1> HIDE DEF strict, attributed, lenient, fallback, calls
<1> QED
  BY <1>3, <1>5, <1>7, <1>8 DEF OrElse

-----------------------------------------------------------------------------
(* Where the reading of a text's fragments stops, what it reads at a place *)
(* and where it goes on: behind the fragment, or inside one that means     *)
(* nothing.                                                                *)
NothingLeft(t) == {i \in 1..(Len(t) + 1) : NextFragment(t, i, TRUE) = NoFragment}
ReadAt(t, i) ==
  IF i \in NothingLeft(t) THEN <<>>
  ELSE ParseFragment(SubSeq(t, NextFragment(t, i, TRUE).first, NextFragment(t, i, TRUE).last))
GoOn(t, i) ==
  IF i \in NothingLeft(t) THEN i
  ELSE IF ReadAt(t, i) = <<>> THEN NextFragment(t, i, TRUE).first + 1
  ELSE NextFragment(t, i, TRUE).last + 1

(* It reads calls and goes on.                                             *)
LEMMA ReadingType ==
  ASSUME NEW t \in Seq(STRING), NEW i \in 1..(Len(t) + 1)
  PROVE  /\ ReadAt(t, i) \in Seq(Calls) /\ GoOn(t, i) \in 1..(Len(t) + 1)
         /\ i \notin NothingLeft(t) => GoOn(t, i) > i
<1>1. CASE i \in NothingLeft(t)
  BY <1>1, OneCall DEF ReadAt, GoOn
<1>2. CASE i \notin NothingLeft(t)
  <2> DEFINE f == NextFragment(t, i, TRUE)
             r == ReadAt(t, i)
  <2>1. i \in Nat \ {0} /\ Len(t) \in Nat
    OBVIOUS
  <2>2. f \in Inside(t, i)
    <3>1. f \in Inside(t, i) \cup {NoFragment}
      BY <2>1, FragmentInside
    <3> QED
      BY <1>2, <3>1 DEF NothingLeft
  <2>3. /\ r = ParseFragment(SubSeq(t, f.first, f.last))
        /\ GoOn(t, i) = IF r = <<>> THEN f.first + 1 ELSE f.last + 1
    BY <1>2 DEF ReadAt, GoOn
  <2> HIDE DEF f, r
  <2>4. f.first \in Nat \ {0} /\ f.last \in Int /\ f.last <= Len(t) /\ i <= f.first /\ f.first <= f.last
    BY <2>1, <2>2 DEF Inside
  <2>5. SubSeq(t, f.first, f.last) \in Seq(STRING)
    BY <2>4, PartType
  <2>6. r \in Seq(Calls)
    BY <2>3, <2>5, ParseFragmentType
  <2>7. GoOn(t, i) \in 1..(Len(t) + 1) /\ GoOn(t, i) > i
    BY <2>1, <2>3, <2>4
  <2> QED
    BY <2>6, <2>7 DEF r
<1> QED
  BY <1>1, <1>2

(* So what is read of a text is calls.                                     *)
LEMMA ParseType ==
  ASSUME NEW t \in Seq(STRING)
  PROVE  ParseToolCalls(t) \in Seq(Calls)
<1> DEFINE D == 1..(Len(t) + 1)
           N == Len(t) + 2
           stop == NothingLeft(t)
           head == [i \in D |-> ReadAt(t, i)]
           next == [i \in D |-> GoOn(t, i)]
           rank == [i \in D |-> Len(t) + 1 - i]
           At(f, cursor) ==
             LET after(fr, calls) ==
                   IF calls = <<>> THEN f[fr.first + 1] ELSE calls \o f[fr.last + 1]
                 at(fr) == IF fr = NoFragment THEN <<>>
                           ELSE after(fr, ParseFragment(SubSeq(t, fr.first, fr.last)))
             IN  at(NextFragment(t, cursor, TRUE))
           Def(f) == f = [i \in D |-> At(f, i)]
<1>1. /\ Len(t) \in Nat /\ N \in Nat /\ 1 \in D
      /\ \A i \in D : rank[i] = Len(t) + 1 - i /\ rank[i] \in Nat /\ rank[i] < N
  OBVIOUS
<1>2. head \in [D -> Seq(Calls)] /\ next \in [D -> D]
  BY ReadingType
<1>3. \A i \in D : i \notin stop => rank[next[i]] < rank[i]
  <2>1. ASSUME NEW i \in D, i \notin stop PROVE rank[next[i]] < rank[i]
    <3> DEFINE j == next[i]
    <3>1. j \in D /\ j > i
      <4>1. GoOn(t, i) \in D /\ GoOn(t, i) > i
        BY <2>1, ReadingType
      <4> QED
        BY <4>1
    <3> HIDE DEF j, next
    <3>2. rank[j] = Len(t) + 1 - j /\ rank[i] = Len(t) + 1 - i
      BY <1>1, <3>1
    <3>3. rank[j] < rank[i]
      BY <1>1, <3>1, <3>2
    <3> QED
      BY <3>3 DEF j
  <2> QED
    BY <2>1
<1>4. rank \in [D -> Nat]
  BY <1>1
<1>5. ASSUME NEW f, NEW i \in D
      PROVE  At(f, i) = IF i \in stop THEN <<>>
                        ELSE IF head[i] = <<>> THEN f[next[i]] ELSE head[i] \o f[next[i]]
  <2>1. CASE i \in stop
    BY <2>1 DEF NothingLeft
  <2>2. CASE i \notin stop
    <3> DEFINE fr == NextFragment(t, i, TRUE)
               r == ReadAt(t, i)
    <3>1. fr # NoFragment
      BY <2>2 DEF NothingLeft
    <3>2. /\ r = ParseFragment(SubSeq(t, fr.first, fr.last))
          /\ GoOn(t, i) = IF r = <<>> THEN fr.first + 1 ELSE fr.last + 1
      BY <2>2 DEF ReadAt, GoOn
    <3>3. At(f, i) = IF r = <<>> THEN f[fr.first + 1] ELSE r \o f[fr.last + 1]
      BY <3>1, <3>2
    <3>4. head[i] = r /\ next[i] = GoOn(t, i)
      OBVIOUS
    <3> HIDE DEF fr, r, head, next, At
    <3> QED
      BY <2>2, <3>2, <3>3, <3>4
  <2> QED
    BY <2>1, <2>2
<1>6. ParseToolCalls(t) = (CHOOSE f : Def(f))[1]
  BY DEF ParseToolCalls
<1> HIDE DEF At, head, next, rank, stop
<1>7. Walk(D, Calls, rank, N, stop, head, next)
  BY <1>1, <1>2, <1>3, <1>4 DEF Walk
<1> HIDE DEF N
<1>8. PICK g \in [D -> Seq(Calls)] : Walked(D, stop, head, next, g)
  BY <1>7, WalkExists
<1>9. Def(g)
  <2>1. ASSUME NEW i \in D PROVE g[i] = At(g, i)
    <3> DEFINE x == g[next[i]]
               h == head[i]
               y == h \o x
    <3>1. x \in Seq(Calls)
      BY <1>2
    <3>2. g[i] = IF i \in stop THEN <<>> ELSE y
      BY <1>8 DEF Walked
    <3>3. At(g, i) = IF i \in stop THEN <<>> ELSE IF h = <<>> THEN x ELSE y
      BY <1>5
    <3> HIDE DEF x, h
    <3>4. h = <<>> => y = x
      BY <3>1
    <3> HIDE DEF y
    <3>5. CASE i \in stop
      BY <3>2, <3>3, <3>5
    <3>6. CASE i \notin stop
      BY <3>2, <3>3, <3>4, <3>6
    <3> QED
      BY <3>5, <3>6
  <2> QED
    BY <2>1
<1>10. PICK f : Def(f) /\ ParseToolCalls(t) = f[1]
  BY <1>6, <1>9
<1>11. Stepped(D, stop, head, next, f)
  <2>1. ASSUME NEW i \in D PROVE f[i] = At(f, i)
    BY <1>10
  <2> QED
    BY <1>5, <2>1 DEF Stepped
<1>12. \A i \in D : f[i] \in Seq(Calls)
  BY <1>7, <1>11, WalkTyped
<1> QED
  BY <1>1, <1>10, <1>12

-----------------------------------------------------------------------------
(* The invariant, with the types that do not depend on what a call means.  *)
TextInv ==
  /\ doc \in Seq(STRING) /\ given \in 0..Len(doc) /\ buf \in Seq(STRING)
  /\ capturing \in {"none"} \cup Markers
  /\ mode \in {"idle", "feeding", "finished"}

ScanInv == TextInv /\ BufferInv

(* What is left of a text from a position on.                              *)
LEMMA FromLength ==
  ASSUME NEW t \in Seq(STRING), NEW i \in 1..(Len(t) + 1)
  PROVE  /\ From(t, i) \in Seq(STRING)
         /\ Len(From(t, i)) = Len(t) - i + 1
         /\ \A k \in 1..(Len(t) - i + 1) : From(t, i)[k] = t[i + k - 1]
BY SubSeqProperties DEF From

(* Dropping the buffer's front leaves it the end of what was fed.          *)
LEMMA FrontDropped ==
  ASSUME ScanInv, NEW i \in 1..(Len(buf) + 1)
  PROVE  /\ Len(From(buf, i)) <= given
         /\ From(buf, i) = SubSeq(doc, given - Len(From(buf, i)) + 1, given)
<1>1. doc \in Seq(STRING) /\ given \in 0..Len(doc) /\ buf \in Seq(STRING)
  BY DEF ScanInv, TextInv
<1>2. Len(buf) <= given /\ buf = SubSeq(doc, given - Len(buf) + 1, given)
  BY DEF ScanInv, BufferInv
<1>3. Len(From(buf, i)) = Len(buf) - i + 1
  BY <1>1, FromLength
<1>4. CASE i = Len(buf) + 1
  <2>1. From(buf, i) = <<>> /\ Len(From(buf, i)) = 0
    BY <1>1, <1>4, SubSeqEmpty DEF From
  <2>2. SubSeq(doc, given - 0 + 1, given) = <<>>
    BY <1>1, SubSeqEmpty
  <2> QED
    BY <1>1, <2>1, <2>2
<1>5. CASE i <= Len(buf)
  <2> DEFINE a == given - Len(buf) + 1
  <2>1. a \in 1..Len(doc) /\ given \in 1..Len(doc)
    BY <1>1, <1>2, <1>5
  <2>2. i \in 1..(given - a + 1) /\ Len(buf) \in 1..(given - a + 1)
    BY <1>1, <1>2, <1>5
  <2>3. SubSeq(SubSeq(doc, a, given), i, Len(buf)) = SubSeq(doc, a + i - 1, a + Len(buf) - 1)
    BY <1>1, <2>1, <2>2, SubSeqOfSubSeq
  <2>4. a + i - 1 = given - (Len(buf) - i + 1) + 1 /\ a + Len(buf) - 1 = given
    BY <1>1, <1>2, <1>5
  <2>5. From(buf, i) = SubSeq(SubSeq(doc, a, given), i, Len(buf))
    BY <1>2 DEF From
  <2> QED
    BY <1>1, <1>2, <1>3, <1>5, <2>3, <2>4, <2>5
<1> QED
  BY <1>1, <1>4, <1>5

(* A new scanner satisfies the invariant.                                  *)
LEMMA ScanInitially == ScannerInit => ScanInv
<1> SUFFICES ASSUME ScannerInit PROVE ScanInv
  OBVIOUS
<1>1. TextInv
  BY DocumentsAssumption DEF ScannerInit, TextInv
<1>2. SubSeq(doc, 1, 0) = <<>>
  BY SubSeqEmpty
<1>3. BufferInv
  BY <1>2 DEF ScannerInit, BufferInv, Held
<1> QED
  BY <1>1, <1>3 DEF ScanInv

-----------------------------------------------------------------------------
(* One lemma per action: it keeps the invariant.                           *)

(* A chunk joins the buffer at the end of what was fed before it.          *)
LEMMA FeedKeeps ==
  ASSUME ScanInv, NEW n \in 1..Len(doc), Feed(n)
  PROVE  ScanInv'
<1> DEFINE a == given - Len(buf) + 1
           s == SubSeq(doc, given + 1, given + n)
<1>1. /\ doc \in Seq(STRING) /\ given \in 0..Len(doc) /\ buf \in Seq(STRING)
      /\ Len(buf) <= given /\ buf = SubSeq(doc, a, given)
  BY DEF ScanInv, TextInv, BufferInv
<1>2. n \in Nat /\ given + n \in given..Len(doc)
  BY <1>1 DEF Feed
<1>3. s \in Seq(STRING) /\ Len(s) = n
  BY <1>1, <1>2, SubSeqProperties
<1>4. buf \o s \in Seq(STRING) /\ Len(buf \o s) = Len(buf) + n
  BY <1>1, <1>3
<1>5. buf' = buf \o s /\ given' = given + n /\ UNCHANGED <<doc, capturing>> /\ mode' = "feeding"
  BY DEF Feed
<1>6. TextInv'
  BY <1>1, <1>2, <1>4, <1>5 DEF ScanInv, TextInv
<1>7. SubSeq(doc, a, given) \o SubSeq(doc, given + 1, given + n) = SubSeq(doc, a, given + n)
  <2>1. /\ a \in 1..(Len(doc) + 1) /\ given \in (a - 1)..Len(doc)
        /\ given + n \in given..Len(doc)
    BY <1>1, <1>2
  <2> QED
    BY <1>1, <2>1, ConcatAdjacentSubSeq
<1>8. Len(buf') <= given' /\ buf' = SubSeq(doc', given' - Len(buf') + 1, given')
  <2>1. given + n - (Len(buf) + n) + 1 = a
    BY <1>1, <1>2
  <2>2. Len(buf') = Len(buf) + n /\ Len(buf') <= given'
    BY <1>1, <1>2, <1>4, <1>5
  <2>3. buf' = SubSeq(doc, a, given + n)
    BY <1>1, <1>5, <1>7
  <2>4. given' - Len(buf') + 1 = a
    BY <1>1, <1>2, <1>5, <2>1, <2>2
  <2> QED
    BY <1>5, <2>2, <2>3, <2>4
<1>9. ASSUME NEW m \in Markers, Opens(buf, 1, {m})
      PROVE  Opens(buf', 1, {m})
  BY <1>1, <1>3, <1>5, <1>9 DEF Opens
<1>10. BufferInv'
  BY <1>5, <1>8, <1>9 DEF ScanInv, BufferInv
<1> QED
  BY <1>6, <1>10 DEF ScanInv

(* A cut drops a front of the buffer that is not empty.                    *)
LEMMA CutKeeps ==
  ASSUME ScanInv, Capture, NEW last \in 1..Len(buf), CutCapture(last)
  PROVE  ScanInv' /\ Len(buf') < Len(buf)
<1>1. buf \in Seq(STRING) /\ Len(buf) \in Nat
  BY DEF ScanInv, TextInv
<1>2. From(buf, last + 1) \in Seq(STRING) /\ Len(From(buf, last + 1)) = Len(buf) - last
  BY <1>1, FromLength
<1>3. /\ Len(From(buf, last + 1)) <= given
      /\ From(buf, last + 1) = SubSeq(doc, given - Len(From(buf, last + 1)) + 1, given)
  BY <1>1, FrontDropped
<1>4. /\ buf' = From(buf, last + 1) /\ capturing' = "none"
      /\ doc' = doc /\ given' = given /\ mode' = "feeding"
  BY DEF CutCapture, Capture
<1>5. TextInv'
  BY <1>2, <1>4 DEF ScanInv, TextInv
<1>6. BufferInv'
  BY <1>3, <1>4 DEF BufferInv
<1> QED
  BY <1>1, <1>2, <1>4, <1>5, <1>6 DEF ScanInv

(* The cut at the end marker keeps the invariant and shortens the buffer.  *)
LEMMA EndMarkerCutKeeps ==
  ScanInv /\ CutAtEndMarker => ScanInv' /\ Len(buf') < Len(buf)
<1> SUFFICES ASSUME ScanInv, CutAtEndMarker PROVE ScanInv' /\ Len(buf') < Len(buf)
  OBVIOUS
<1>1. EndMarker \in 0..Len(buf)
  BY CloseEndRange DEF EndMarker, ScanInv, TextInv
<1>2. EndMarker \in 1..Len(buf) /\ Capture /\ CutCapture(EndMarker)
  BY <1>1 DEF CutAtEndMarker
<1> QED
  BY <1>2, CutKeeps

(* The cut at a fragment keeps the invariant and shortens the buffer.      *)
LEMMA FragmentCutKeeps ==
  ScanInv /\ CutAtFragment => ScanInv' /\ Len(buf') < Len(buf)
<1> SUFFICES ASSUME ScanInv, CutAtFragment PROVE ScanInv' /\ Len(buf') < Len(buf)
  OBVIOUS
<1>1. Fragment \in Inside(buf, 1)
  <2>1. buf \in Seq(STRING) /\ 1 \in Nat \ {0}
    BY DEF ScanInv, TextInv
  <2>2. Fragment \in Inside(buf, 1) \cup {NoFragment}
    BY <2>1, FragmentInside DEF Fragment
  <2> QED
    BY <2>2 DEF CutAtFragment
<1>2. Fragment.last \in 1..Len(buf) /\ Capture /\ CutCapture(Fragment.last)
  BY <1>1 DEF CutAtFragment, Inside
<1> QED
  BY <1>2, CutKeeps

(* A capture starts at a marker; the prose before it leaves the buffer.    *)
LEMMA StartKeeps ==
  ScanInv /\ StartCapture => ScanInv' /\ Len(buf') <= Len(buf) /\ capturing' # "none"
<1> SUFFICES ASSUME ScanInv, StartCapture
             PROVE  ScanInv' /\ Len(buf') <= Len(buf) /\ capturing' # "none"
  OBVIOUS
<1> DEFINE p == FirstMarker
           m == buf[p + 1]
<1>1. buf \in Seq(STRING) /\ Len(buf) \in Nat
  BY DEF ScanInv, TextInv
<1>2. p \in 1..Len(buf) /\ Opens(buf, p, Markers)
  BY <1>1, FindOpenFound DEF StartCapture, FirstMarker
<1>3. /\ buf' = From(buf, p) /\ capturing' = EndOf(m)
      /\ doc' = doc /\ given' = given /\ mode' = "feeding"
  BY DEF StartCapture, Search
<1> HIDE DEF p
<1>4. /\ From(buf, p) \in Seq(STRING) /\ Len(From(buf, p)) = Len(buf) - p + 1
      /\ \A k \in 1..(Len(buf) - p + 1) : From(buf, p)[k] = buf[p + k - 1]
  BY <1>1, <1>2, FromLength
<1>5. m \in Markers /\ EndOf(m) \in Markers /\ EndOf(m) # "none"
  BY <1>2 DEF Opens, Markers, EndOf
<1>6. Opens(buf', 1, {m})
  <2>1. p + 2 <= Len(buf) /\ buf[p] = "<" /\ buf[p + 2] \in Boundary
    BY <1>2 DEF Opens
  <2>2. From(buf, p)[1] = buf[p] /\ From(buf, p)[2] = buf[p + 1] /\ From(buf, p)[3] = buf[p + 2]
    <3>1. \A k \in {1, 2, 3} : k \in 1..(Len(buf) - p + 1)
      BY <1>1, <1>2, <2>1
    <3>2. \A k \in {1, 2, 3} : From(buf, p)[k] = buf[p + k - 1]
      BY <1>4, <3>1
    <3>3. p + 1 - 1 = p /\ p + 2 - 1 = p + 1 /\ p + 3 - 1 = p + 2
      BY <1>2
    <3>4. /\ From(buf, p)[1] = buf[p + 1 - 1] /\ From(buf, p)[2] = buf[p + 2 - 1]
          /\ From(buf, p)[3] = buf[p + 3 - 1]
      BY <3>2
    <3> QED
      BY <3>3, <3>4
  <2>3. 1 + 2 <= Len(From(buf, p))
    BY <1>1, <1>2, <1>4, <2>1
  <2> QED
    BY <1>3, <2>1, <2>2, <2>3 DEF Opens
<1>7. /\ Len(From(buf, p)) <= given
      /\ From(buf, p) = SubSeq(doc, given - Len(From(buf, p)) + 1, given)
  BY <1>1, <1>2, FrontDropped
<1>8. TextInv'
  BY <1>3, <1>4, <1>5 DEF ScanInv, TextInv
<1> HIDE DEF m
<1>9. BufferInv'
  BY <1>3, <1>5, <1>6, <1>7 DEF BufferInv
<1> QED
  BY <1>1, <1>2, <1>3, <1>4, <1>5, <1>8, <1>9 DEF ScanInv

(* Returning from a capture keeps the invariant.                           *)
LEMMA AwaitKeeps == ScanInv /\ AwaitMore => ScanInv'
BY DEF ScanInv, TextInv, BufferInv, AwaitMore, Capture

(* What stays after emitting is the beginning of a marker, or nothing.     *)
LEMMA EmitKeeps == ScanInv /\ EmitSafe => ScanInv'
<1> SUFFICES ASSUME ScanInv, EmitSafe PROVE ScanInv'
  OBVIOUS
<1> DEFINE h == AmbiguousLength
           i == Len(buf) - h + 1
<1>1. buf \in Seq(STRING) /\ Len(buf) \in Nat
  BY DEF ScanInv, TextInv
<1>2. /\ h \in 0..2 /\ h <= Len(buf)
      /\ h = 1 => buf[Len(buf)] = "<"
      /\ h = 2 => buf[Len(buf) - 1] = "<" /\ buf[Len(buf)] \in Markers
  BY <1>1 DEF AmbiguousLength, Last
<1>3. /\ buf' = From(buf, i) /\ doc' = doc /\ given' = given
      /\ mode' = "idle" /\ capturing' = capturing /\ capturing = "none"
  BY DEF EmitSafe, Search
<1> HIDE DEF h
<1>4. i \in 1..(Len(buf) + 1) /\ Len(buf) - i + 1 = h
  BY <1>1, <1>2
<1>5. /\ From(buf, i) \in Seq(STRING) /\ Len(From(buf, i)) = h
      /\ \A k \in 1..h : From(buf, i)[k] = buf[i + k - 1]
  BY <1>1, <1>4, FromLength
<1>6. /\ Len(From(buf, i)) <= given
      /\ From(buf, i) = SubSeq(doc, given - Len(From(buf, i)) + 1, given)
  BY <1>4, FrontDropped
<1>7. From(buf, i) \in Held
  <2>1. CASE h = 0
    BY <1>5, <2>1 DEF Held
  <2>2. CASE h = 1
    <3>1. From(buf, i)[1] = "<"
      BY <1>1, <1>2, <1>5, <2>2
    <3>2. From(buf, i) = <<"<">>
      BY <1>5, <2>2, <3>1
    <3> QED
      BY <3>2 DEF Held
  <2>3. CASE h = 2
    <3> DEFINE m == buf[Len(buf)]
    <3>1. From(buf, i)[1] = "<" /\ From(buf, i)[2] = m /\ m \in Markers
      BY <1>1, <1>2, <1>5, <2>3
    <3> HIDE DEF m
    <3>2. From(buf, i) = <<"<", m>>
      BY <1>5, <2>3, <3>1
    <3> QED
      BY <3>1, <3>2 DEF Held
  <2> QED
    BY <1>2, <2>1, <2>2, <2>3
<1>8. TextInv'
  BY <1>3, <1>5 DEF ScanInv, TextInv
<1>9. BufferInv'
  BY <1>3, <1>6, <1>7 DEF BufferInv
<1> QED
  BY <1>8, <1>9 DEF ScanInv

(* finish leaves an empty buffer and no capture.                           *)
LEMMA FinishKeeps == ScanInv /\ Finish => ScanInv'
<1> SUFFICES ASSUME ScanInv, Finish PROVE ScanInv'
  OBVIOUS
<1>1. doc \in Seq(STRING) /\ given \in 0..Len(doc) /\ buf \in Seq(STRING)
  BY DEF ScanInv, TextInv
<1>2. buf' = <<>> /\ doc' = doc /\ given' = given /\ mode' = "finished"
  BY DEF Finish
<1>3. capturing' = "none"
  <2>1. ASSUME buf = <<>>, capturing # "none" PROVE FALSE
    BY <2>1 DEF ScanInv, BufferInv, Opens
  <2> QED
    BY <2>1 DEF Finish
<1>4. SubSeq(doc, given - 0 + 1, given) = <<>>
  BY <1>1, SubSeqEmpty
<1>5. TextInv'
  BY <1>1, <1>2, <1>3 DEF TextInv
<1>6. BufferInv'
  BY <1>1, <1>2, <1>3, <1>4 DEF BufferInv
<1> QED
  BY <1>5, <1>6 DEF ScanInv

(* Every step of the scanner keeps the invariant.                          *)
LEMMA ScanNextKeeps == ScanInv /\ [ScannerNext]_scannerVars => ScanInv'
<1> SUFFICES ASSUME ScanInv, [ScannerNext]_scannerVars PROVE ScanInv'
  OBVIOUS
<1>1. CASE \E n \in 1..Len(doc) : Feed(n)
  BY <1>1, FeedKeeps
<1>2. CASE CutAtEndMarker
  BY <1>2, EndMarkerCutKeeps
<1>3. CASE CutAtFragment
  BY <1>3, FragmentCutKeeps
<1>4. CASE AwaitMore
  BY <1>4, AwaitKeeps
<1>5. CASE StartCapture
  BY <1>5, StartKeeps
<1>6. CASE EmitSafe
  BY <1>6, EmitKeeps
<1>7. CASE Finish
  BY <1>7, FinishKeeps
<1>8. CASE UNCHANGED scannerVars
  BY <1>8 DEF scannerVars, ScanInv, TextInv, BufferInv
<1> QED
  BY <1>1, <1>2, <1>3, <1>4, <1>5, <1>6, <1>7, <1>8 DEF ScannerNext, Loop

-----------------------------------------------------------------------------
(* What the scanner returns.                                               *)

(* Emitted text is events.                                                 *)
LEMMA EmittedType ==
  ASSUME NEW t \in Seq(STRING)
  PROVE  Emitted(t) \in Seq(Outputs)
<1>1. Len(t) \in Nat
  OBVIOUS
<1>2. ASSUME NEW i \in 1..Len(t) PROVE Word(t[i]) \in Outputs
  <2> DEFINE a == t[i]
  <2>1. a \in STRING
    OBVIOUS
  <2> HIDE DEF a
  <2>2. <<a>> \in Seq(STRING)
    BY <2>1, OneType
  <2>3. Word(a) \in Outputs
    BY <2>2, OneCall DEF Word, Outputs
  <2> QED
    BY <2>3 DEF a
<1>3. Emitted(t) \in [1..Len(t) -> Outputs]
  BY <1>2 DEF Emitted
<1> QED
  BY <1>1, <1>3

(* So is what flush_parsed makes of a captured text.                       *)
LEMMA ParsedType ==
  ASSUME NEW t \in Seq(STRING)
  PROVE  Parsed(t) \in Seq(Outputs)
<1> DEFINE calls == ParseToolCalls(t)
<1>1. calls \in Seq(Calls) /\ Calls \subseteq Outputs
  BY ParseType DEF Calls, Outputs
<1> HIDE DEF calls
<1>2. calls \in Seq(Outputs)
  BY <1>1, SeqOfMore
<1> QED
  BY <1>2, EmittedType DEF Parsed, calls

(* The events stay events.                                                 *)
OutInv == doc \in Documents /\ out \in Seq(Outputs)

(* More of them are.                                                       *)
LEMMA OutGrows ==
  ASSUME NEW more \in Seq(Outputs), out \in Seq(Outputs), out' = out \o more
  PROVE  out' \in Seq(Outputs)
BY ConcatShape

(* A front of the buffer is a text.                                        *)
LEMMA FrontType ==
  ASSUME ScanInv, NEW k \in Int, k <= Len(buf)
  PROVE  SubSeq(buf, 1, k) \in Seq(STRING)
<1>1. buf \in Seq(STRING) /\ 1 \in Nat \ {0}
  BY DEF ScanInv, TextInv
<1> QED
  BY <1>1, PartType

(* A cut returns events.                                                   *)
LEMMA CutReturns ==
  ASSUME ScanInv, OutInv, NEW last \in 0..Len(buf), CutCapture(last)
  PROVE  OutInv'
<1>1. SubSeq(buf, 1, last) \in Seq(STRING)
  BY FrontType
<1>2. Parsed(SubSeq(buf, 1, last)) \in Seq(Outputs)
  BY <1>1, ParsedType
<1> QED
  BY <1>2, OutGrows DEF CutCapture, OutInv

(* Every step of the scanner returns events.                               *)
LEMMA OutNextKeeps == ScanInv /\ OutInv /\ [ScannerNext]_scannerVars => OutInv'
<1> SUFFICES ASSUME ScanInv, OutInv, [ScannerNext]_scannerVars PROVE OutInv'
  OBVIOUS
<1>0. buf \in Seq(STRING) /\ Len(buf) \in Nat
  BY DEF ScanInv, TextInv
<1>1. CASE \E n \in 1..Len(doc) : Feed(n)
  BY <1>1 DEF Feed, OutInv
<1>2. CASE CutAtEndMarker
  <2>1. EndMarker \in {0} \cup 1..Len(buf)
    BY <1>0, CloseEndRange DEF EndMarker
  <2>2. EndMarker \in 0..Len(buf) /\ CutCapture(EndMarker)
    BY <1>0, <1>2, <2>1 DEF CutAtEndMarker
  <2> QED
    BY <2>2, CutReturns
<1>3. CASE CutAtFragment
  <2>0. 1 \in Nat \ {0}
    OBVIOUS
  <2>1. Fragment \in Inside(buf, 1) \cup {NoFragment}
    BY <1>0, <2>0, FragmentInside DEF Fragment
  <2>2. Fragment.last \in 0..Len(buf) /\ CutCapture(Fragment.last)
    BY <1>3, <2>1 DEF CutAtFragment, Inside
  <2> QED
    BY <2>2, CutReturns
<1>4. CASE AwaitMore
  BY <1>4 DEF AwaitMore, OutInv
<1>5. CASE StartCapture
  <2> DEFINE k == FirstMarker - 1
  <2>1. FirstMarker \in {0} \cup 1..Len(buf)
    BY <1>0, Places DEF FirstMarker
  <2>2. k \in Int /\ k <= Len(buf)
    BY <1>0, <2>1
  <2>3. out' = out \o Emitted(SubSeq(buf, 1, k)) /\ doc' = doc
    BY <1>5 DEF StartCapture
  <2> HIDE DEF k
  <2>4. Emitted(SubSeq(buf, 1, k)) \in Seq(Outputs)
    BY <2>2, FrontType, EmittedType
  <2> QED
    BY <2>3, <2>4, OutGrows DEF OutInv
<1>6. CASE EmitSafe
  <2> DEFINE k == Len(buf) - AmbiguousLength
  <2>1. AmbiguousLength \in 0..2
    BY DEF AmbiguousLength
  <2>2. k \in Int /\ k <= Len(buf)
    BY <1>0, <2>1
  <2>3. out' = out \o Emitted(SubSeq(buf, 1, k)) /\ doc' = doc
    BY <1>6 DEF EmitSafe
  <2> HIDE DEF k
  <2>4. Emitted(SubSeq(buf, 1, k)) \in Seq(Outputs)
    BY <2>2, FrontType, EmittedType
  <2> QED
    BY <2>3, <2>4, OutGrows DEF OutInv
<1>7. CASE Finish
  <2>1. Parsed(buf) \in Seq(Outputs)
    BY <1>0, ParsedType
  <2>2. doc' = doc /\ (out' = out \/ out' = out \o Parsed(buf))
    BY <1>7 DEF Finish
  <2> QED
    BY <2>1, <2>2, OutGrows DEF OutInv
<1>8. CASE UNCHANGED scannerVars
  BY <1>8 DEF scannerVars, OutInv
<1> QED
  BY <1>1, <1>2, <1>3, <1>4, <1>5, <1>6, <1>7, <1>8 DEF ScannerNext, Loop

-----------------------------------------------------------------------------
(* The buffer is always the end of what was fed, and only what may still   *)
(* become a call waits in it.                                              *)
THEOREM BufferInvariant == ScannerSpec => []BufferInv
<1>1. ScanInv => BufferInv
  BY DEF ScanInv
<1> QED
  BY <1>1, ScanInitially, ScanNextKeeps, PTL DEF ScannerSpec

(* The loop of feed terminates on every text, cut anywhere.                *)
THEOREM FeedTerminates == ScannerSpec => FeedAdvances
<1> DEFINE Advance == mode = "feeding" /\ mode' = "feeding" => Pending' < Pending
<1>1. ScanInv /\ [ScannerNext]_scannerVars => [Advance]_scannerVars
  <2> SUFFICES ASSUME ScanInv, ScannerNext PROVE Advance
    OBVIOUS
  <2>1. Len(buf) \in Nat /\ (capturing = "none" \/ capturing # "none")
    BY DEF ScanInv, TextInv
  <2>2. CASE CutAtEndMarker \/ CutAtFragment
    <3>1. Len(buf') < Len(buf) /\ ScanInv'
      BY <2>2, EndMarkerCutKeeps, FragmentCutKeeps
    <3>2. Len(buf') \in Nat
      BY <3>1 DEF ScanInv, TextInv
    <3>3. capturing # "none" /\ capturing' = "none"
      BY <2>2 DEF CutAtEndMarker, CutAtFragment, Capture, CutCapture
    <3> QED
      BY <2>1, <3>1, <3>2, <3>3 DEF Pending
  <2>3. CASE StartCapture
    <3>1. Len(buf') <= Len(buf) /\ capturing' # "none" /\ ScanInv'
      BY <2>3, StartKeeps
    <3>2. Len(buf') \in Nat
      BY <3>1 DEF ScanInv, TextInv
    <3>3. capturing = "none"
      BY <2>3 DEF StartCapture, Search
    <3> QED
      BY <2>1, <3>1, <3>2, <3>3 DEF Pending
  <2>4. CASE (\E n \in 1..Len(doc) : Feed(n)) \/ AwaitMore \/ EmitSafe \/ Finish
    BY <2>4 DEF Feed, AwaitMore, EmitSafe, Finish
  <2> QED
    BY <2>2, <2>3, <2>4 DEF ScannerNext, Loop
<1> QED
  BY <1>1, ScanInitially, ScanNextKeeps, PTL DEF ScannerSpec, FeedAdvances

(* The whole invariant of the streaming scanner (feed and finish of        *)
(* stream.rs): its buffer is the end of what was fed and holds only what   *)
(* may still become a call, and each event that it returns is text, or a   *)
(* call whose name and arguments are texts, whatever a fragment looks like.*)
THEOREM ScannerInvariant == ScannerSpec => []ScannerInv
<1>1. ScannerInit => OutInv
  <2>1. <<>> \in Seq(Outputs)
    OBVIOUS
  <2> QED
    BY <2>1 DEF ScannerInit, OutInv
<1>2. ScanInv /\ OutInv => ScannerInv
  BY DEF ScanInv, TextInv, OutInv, ScannerInv, ScannerTypeOK
<1> QED
  BY <1>1, <1>2, ScanInitially, ScanNextKeeps, OutNextKeeps, PTL DEF ScannerSpec
=============================================================================
