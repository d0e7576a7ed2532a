--------------------------- MODULE TextLinesProofs --------------------------
(***************************************************************************)
(* What holds of the blank lines of every text: where the first one lies,  *)
(* that text which arrives behind it does not move it, and what is left    *)
(* when a text is cut at it; induction over data, in the form of sets, and *)
(* with it what is kept of a text by the operators that flatten sequences  *)
(* and find, join and trim its lines; and which lines the first frame of   *)
(* a text has when all its lines end in the same break.                    *)
(***************************************************************************)
EXTENDS TextLines, SequenceTheorems, WellFoundedInduction, TLAPS

(* The order in which three are joined does not matter.                    *)
LEMMA ThreeJoined ==
  ASSUME NEW A, NEW s \in Seq(A), NEW t \in Seq(A), NEW u \in Seq(A)
  PROVE  s \o (t \o u) = (s \o t) \o u
BY ConcatAssociative

(* Three texts, joined in two ways.                                        *)
Associates(s, t, u) == (s \o t) \o u = s \o (t \o u)

(* They are the same.                                                      *)
LEMMA ThreeInARow ==
  ASSUME NEW A, NEW s \in Seq(A), NEW t \in Seq(A), NEW u \in Seq(A)
  PROVE  Associates(s, t, u)
BY ConcatAssociative DEF Associates

(* A set of naturals that is not empty has a least member.                 *)
LEMMA LeastMember ==
  ASSUME NEW S \in SUBSET Nat, S # {}
  PROVE  \E x \in S : \A y \in S : x <= y
<1> DEFINE R == {ss \in Nat \X Nat : ss[1] < ss[2]}
<1>1. IsWellFoundedOn(R, Nat)
  BY NatLessThanWellFounded DEF OpToRel
<1> HIDE DEF R
<1>2. PICK x \in S : \A y \in S : ~(<<y, x>> \in R)
  BY <1>1, WFMin
<1>3. ASSUME NEW y \in S PROVE ~(y < x)
  BY <1>2 DEF R
<1>4. \A y \in S : x <= y
  BY <1>3
<1> QED
  BY <1>4

(* FirstOf finds the first place, or 0 where there is none.                *)
LEMMA FirstOfPlaces ==
  ASSUME NEW S \in SUBSET (Nat \ {0})
  PROVE  /\ S = {} => FirstOf(S) = 0
         /\ S # {} => FirstOf(S) \in S /\ \A y \in S : FirstOf(S) <= y
BY LeastMember DEF FirstOf, Min

(* A place that no other place of the set precedes is the one it finds.    *)
LEMMA FirstOfIs ==
  ASSUME NEW S \in SUBSET (Nat \ {0}), NEW x \in S, \A y \in S : x <= y
  PROVE  FirstOf(S) = x
<1>1. FirstOf(S) \in S /\ \A y \in S : FirstOf(S) <= y
  BY FirstOfPlaces
<1>2. FirstOf(S) \in Nat /\ x \in Nat
  BY <1>1
<1>3. FirstOf(S) <= x /\ x <= FirstOf(S)
  BY <1>1
<1> QED
  BY <1>2, <1>3

(* The shape of two texts one behind the other.                            *)
LEMMA ConcatShape ==
  ASSUME NEW A, NEW s \in Seq(A), NEW t \in Seq(A)
  PROVE  s \o t \in Seq(A) /\ Len(s \o t) = Len(s) + Len(t)
OBVIOUS

(* The rest of a text from a place on.                                     *)
LEMMA FromRest ==
  ASSUME NEW A, NEW t \in Seq(A), NEW i \in 1..(Len(t) + 1)
  PROVE  /\ From(t, i) \in Seq(A)
         /\ Len(From(t, i)) = Len(t) - i + 1
         /\ \A k \in 1..(Len(t) - i + 1) : From(t, i)[k] = t[i + k - 1]
BY SubSeqProperties DEF From

(* A prefix agrees with its text place by place.                           *)
LEMMA PrefixByPlaces ==
  ASSUME NEW A, NEW s \in Seq(A), NEW t \in Seq(A)
  PROVE  IsPrefix(s, t) <=> Len(s) <= Len(t) /\ \A i \in 1..Len(s) : s[i] = t[i]
<1> DEFINE u == SubSeq(s, 1, Len(s))
           v == SubSeq(t, 1, Len(s))
<1>1. Len(s) \in Nat /\ Len(t) \in Nat /\ \A i \in 1..Len(s) : s[i] \in A
  OBVIOUS
<1>2. ASSUME Len(s) <= Len(t)
      PROVE  u = v <=> \A i \in 1..Len(s) : s[i] = t[i]
  <2>1. \A i \in 1..Len(s) : t[i] \in A
    BY <1>1, <1>2
  <2>2. u = s
    BY SubSeqFull
  <2>3. CASE Len(s) = 0
    <3>1. v = <<>> /\ u = <<>>
      BY <2>3, SubSeqEmpty
    <3> QED
      BY <2>3, <3>1
  <2>4. CASE Len(s) # 0
    <3>1. v \in Seq(A) /\ Len(v) = Len(s) /\ \A i \in 1..Len(s) : v[i] = t[i]
      <4>1. Len(s) \in 1..Len(t) /\ 1 \in 1..Len(t)
        BY <1>1, <1>2, <2>4
      <4>2. \A i \in 1..Len(s) - 1 + 1 : v[i] = t[1 + i - 1]
        BY <1>1, <1>2, <2>1, SubSeqProperties
      <4>3. v \in Seq(A) /\ Len(v) = Len(s) - 1 + 1
        BY <1>1, <1>2, <2>1, <4>1, SubSeqProperties
      <4>4. \A i \in 1..Len(s) : 1 + i - 1 = i
        OBVIOUS
      <4> QED
        BY <1>1, <4>2, <4>3, <4>4
    <3> HIDE DEF v
    <3>2. s = v <=> \A i \in 1..Len(s) : s[i] = v[i]
      BY <3>1, SeqEqual
    <3> QED
      BY <2>2, <3>1, <3>2
  <2> QED
    BY <2>3, <2>4
<1> QED
  BY <1>2 DEF IsPrefix

(* A text of some atoms is one of more.                                    *)
LEMMA SeqOfMore ==
  ASSUME NEW A, NEW B, A \subseteq B, NEW s \in Seq(A)
  PROVE  s \in Seq(B)
<1>1. Len(s) \in Nat /\ \A i \in 1..Len(s) : s[i] \in A
  OBVIOUS
<1>2. s \in [1..Len(s) -> A]
  OBVIOUS
<1>3. s \in [1..Len(s) -> B]
  BY <1>1, <1>2
<1> QED
  BY <1>1, <1>3

(* What is in front of a longer text is its prefix.                        *)
LEMMA PrefixOfConcat ==
  ASSUME NEW A, NEW s \in Seq(A), NEW u \in Seq(A)
  PROVE  IsPrefix(s, s \o u)
<1> DEFINE t == s \o u
<1>1. t \in Seq(A) /\ Len(s) <= Len(t) /\ \A i \in 1..Len(s) : s[i] = t[i]
  OBVIOUS
<1> HIDE DEF t
<1>2. IsPrefix(s, t)
  BY <1>1, PrefixByPlaces
<1> QED
  BY <1>2 DEF t

(* One atom is a text.                                                     *)
LEMMA OneType ==
  ASSUME NEW A, NEW a \in A
  PROVE  <<a>> \in Seq(A)
OBVIOUS

(* The rest of a rest is a rest.                                           *)
LEMMA FromFrom ==
  ASSUME NEW A, NEW t \in Seq(A), NEW i \in 1..(Len(t) + 1), NEW k \in 1..(Len(t) - i + 2)
  PROVE  From(From(t, i), k) = From(t, i + k - 1)
<1> DEFINE u == From(t, i)
           g == From(u, k)
           h == From(t, i + k - 1)
           m == Len(t) - i - k + 2
<1>1. /\ u \in Seq(A) /\ Len(u) = Len(t) - i + 1
      /\ \A j \in 1..(Len(t) - i + 1) : u[j] = t[i + j - 1]
  BY FromRest
<1> HIDE DEF u
<1>2. k \in 1..(Len(u) + 1) /\ i + k - 1 \in 1..(Len(t) + 1)
  BY <1>1
<1>3. g \in Seq(A) /\ Len(g) = Len(u) - k + 1 /\ \A j \in 1..(Len(u) - k + 1) : g[j] = u[k + j - 1]
  BY <1>1, <1>2, FromRest
<1>4. /\ h \in Seq(A) /\ Len(h) = Len(t) - (i + k - 1) + 1
      /\ \A j \in 1..(Len(t) - (i + k - 1) + 1) : h[j] = t[(i + k - 1) + j - 1]
  BY <1>2, FromRest
<1>5. m = Len(u) - k + 1 /\ m = Len(t) - (i + k - 1) + 1
  BY <1>1
<1> HIDE DEF g, h
<1>6. ASSUME NEW j \in 1..m PROVE g[j] = h[j]
  <2>1. k + j - 1 \in 1..(Len(t) - i + 1) /\ i + (k + j - 1) - 1 = (i + k - 1) + j - 1
    BY <1>1, <1>2
  <2> DEFINE l == k + j - 1
  <2> HIDE DEF l
  <2>2. u[l] = t[i + l - 1]
    BY <1>1, <2>1 DEF l
  <2>3. g[j] = u[l] /\ h[j] = t[i + l - 1]
    BY <1>3, <1>4, <1>5, <2>1 DEF l
  <2> QED
    BY <2>2, <2>3
<1> HIDE DEF m
<1>7. Len(g) = m /\ Len(h) = m
  BY <1>3, <1>4, <1>5
<1>8. g = h
  BY <1>3, <1>4, <1>6, <1>7, SeqEqual
<1> QED
  BY <1>8 DEF g, h, u

(* The rest of two texts, the place in the first one, is the first one's   *)
(* rest with the second text behind it.                                    *)
LEMMA FromConcat ==
  ASSUME NEW A, NEW t \in Seq(A), NEW c \in Seq(A), NEW i \in 1..(Len(t) + 1)
  PROVE  From(t \o c, i) = From(t, i) \o c
<1> DEFINE u == t \o c
           f == From(t, i)
<1>1. /\ u \in Seq(A) /\ Len(u) = Len(t) + Len(c)
      /\ Len(t) \in Nat /\ Len(c) \in Nat
  OBVIOUS
<1> HIDE DEF u
<1>2. i \in 1..(Len(u) + 1)
  BY <1>1
<1>3. /\ From(u, i) \in Seq(A)
      /\ Len(From(u, i)) = Len(u) - i + 1
      /\ \A k \in 1..(Len(u) - i + 1) : From(u, i)[k] = u[i + k - 1]
  BY <1>1, <1>2, FromRest
<1>4. /\ f \in Seq(A) /\ Len(f) = Len(t) - i + 1
      /\ \A k \in 1..(Len(t) - i + 1) : f[k] = t[i + k - 1]
  BY FromRest
<1> HIDE DEF f
<1>5. f \o c \in Seq(A) /\ Len(f \o c) = Len(t) + Len(c) - i + 1
  <2>1. f \o c \in Seq(A) /\ Len(f \o c) = Len(f) + Len(c)
    BY <1>4, ConcatShape
  <2> QED
    BY <1>1, <1>4, <2>1
<1>6. ASSUME NEW k \in 1..(Len(t) + Len(c) - i + 1)
      PROVE  From(u, i)[k] = (f \o c)[k]
  <2>1. From(u, i)[k] = u[i + k - 1]
    BY <1>1, <1>3
  <2>2. CASE k <= Len(t) - i + 1
    <3>1. k \in 1..(Len(t) - i + 1) /\ i + k - 1 \in 1..Len(t)
      BY <2>2
    <3>2. (f \o c)[k] = f[k] /\ u[i + k - 1] = t[i + k - 1]
      BY <1>1, <1>4, <3>1 DEF u
    <3> QED
      BY <1>4, <2>1, <3>1, <3>2
  <2>3. CASE k > Len(t) - i + 1
    <3>1. (f \o c)[k] = c[k - (Len(t) - i + 1)]
      BY <1>1, <1>4, <2>3
    <3>2. i + k - 1 \in 1..(Len(t) + Len(c)) /\ ~(i + k - 1 <= Len(t))
      BY <2>3
    <3>3. u[i + k - 1] = c[i + k - 1 - Len(t)]
      BY <1>1, <3>2 DEF u
    <3>4. k - (Len(t) - i + 1) = i + k - 1 - Len(t)
      OBVIOUS
    <3> QED
      BY <2>1, <3>1, <3>3, <3>4
  <2>4. k <= Len(t) - i + 1 \/ k > Len(t) - i + 1
    BY <1>1
  <2> QED
    BY <2>2, <2>3, <2>4
<1>7. Len(From(u, i)) = Len(t) + Len(c) - i + 1
  BY <1>1, <1>3
<1>8. From(u, i) = f \o c
  <2> DEFINE g == f \o c
             h == From(u, i)
  <2>1. h \in Seq(A) /\ g \in Seq(A) /\ Len(h) = Len(g)
    BY <1>3, <1>5, <1>7
  <2>2. \A k \in 1..Len(h) : h[k] = g[k]
    BY <1>6, <1>7
  <2> HIDE DEF g, h
  <2>3. h = g
    BY <2>1, <2>2, SeqEqual
  <2> QED
    BY <2>3 DEF g, h
<1> QED
  BY <1>8 DEF u, f

-----------------------------------------------------------------------------
(* The places of a text where a blank line begins.                         *)
BlankLines(t) == {i \in DOMAIN t : LfLf(t, i) \/ CrlfCrlf(t, i)}

(* They are places of the text.                                            *)
LEMMA BlankLinesArePlaces ==
  ASSUME NEW A, NEW t \in Seq(A)
  PROVE  BlankLines(t) \in SUBSET (Nat \ {0}) /\ Separator(t) = FirstOf(BlankLines(t))
BY DEF BlankLines, Separator

(* A separator that is found lies in the text with all its atoms.          *)
LEMMA SeparatorInside ==
  ASSUME NEW A, NEW t \in Seq(A), Separator(t) # 0
  PROVE  /\ Separator(t) \in 1..Len(t)
         /\ SeparatorLength(t, Separator(t)) \in {2, 4}
         /\ Separator(t) + SeparatorLength(t, Separator(t)) \in 1..(Len(t) + 1)
<1>1. Separator(t) \in BlankLines(t)
  BY BlankLinesArePlaces, FirstOfPlaces
<1> QED
  BY <1>1 DEF BlankLines, LfLf, CrlfCrlf, SeparatorLength

(* What follows the first blank line is shorter than the text, and is its  *)
(* end.                                                                    *)
LEMMA BehindShorter ==
  ASSUME NEW A, NEW t \in Seq(A), Separator(t) # 0
  PROVE  /\ Behind(t) \in Seq(A) /\ Len(Behind(t)) < Len(t)
         /\ \E i \in 1..(Len(t) + 1) : Behind(t) = From(t, i)
<1> DEFINE i == Separator(t) + SeparatorLength(t, Separator(t))
<1>1. Separator(t) \in 1..Len(t) /\ SeparatorLength(t, Separator(t)) \in {2, 4} /\ i \in 1..(Len(t) + 1)
  BY SeparatorInside
<1>2. From(t, i) \in Seq(A) /\ Len(From(t, i)) = Len(t) - i + 1
  BY <1>1, FromRest
<1> QED
  BY <1>1, <1>2 DEF Behind

(* Text that arrives later does not move the first blank line.             *)
LEMMA SeparatorStays ==
  ASSUME NEW A, NEW t \in Seq(A), NEW c \in Seq(A), Separator(t) # 0
  PROVE  /\ Separator(t \o c) = Separator(t)
         /\ SeparatorLength(t \o c, Separator(t)) = SeparatorLength(t, Separator(t))
<1> DEFINE p == Separator(t)
           u == t \o c
<1>1. u \in Seq(A) /\ Len(u) = Len(t) + Len(c) /\ \A i \in 1..Len(t) : u[i] = t[i]
  OBVIOUS
<1>2. p \in BlankLines(t) /\ \A i \in BlankLines(t) : p <= i
  BY BlankLinesArePlaces, FirstOfPlaces
<1> HIDE DEF p, u
<1>3. p \in 1..Len(t) /\ (LfLf(t, p) \/ CrlfCrlf(t, p))
  BY <1>2 DEF BlankLines
<1>4. (LfLf(u, p) <=> LfLf(t, p)) /\ (LfLf(u, p) \/ CrlfCrlf(u, p))
  <2>1. CASE LfLf(t, p)
    BY <1>1, <1>3, <2>1 DEF LfLf
  <2>2. CASE ~LfLf(t, p)
    <3>1. p + 3 <= Len(t) /\ p + 1 \in 1..Len(t) /\ p + 2 \in 1..Len(t) /\ p + 3 \in 1..Len(t)
      BY <1>3, <2>2 DEF CrlfCrlf
    <3>2. u[p] = t[p] /\ u[p + 1] = t[p + 1] /\ u[p + 2] = t[p + 2] /\ u[p + 3] = t[p + 3]
      BY <1>1, <1>3, <3>1
    <3> QED
      BY <1>1, <1>3, <2>2, <3>1, <3>2 DEF LfLf, CrlfCrlf
  <2> QED
    BY <2>1, <2>2
<1>5. p \in BlankLines(u)
  BY <1>1, <1>3, <1>4 DEF BlankLines
<1>6. ASSUME NEW i \in BlankLines(u), i < p PROVE FALSE
  <2>1. i \in 1..Len(t) /\ i + 1 \in 1..Len(t) /\ u[i] = t[i] /\ u[i + 1] = t[i + 1]
    BY <1>1, <1>3, <1>6 DEF BlankLines
  <2>2. CASE LfLf(u, i)
    <3>1. LfLf(t, i)
      BY <2>1, <2>2 DEF LfLf
    <3>2. i \in BlankLines(t)
      BY <2>1, <3>1 DEF BlankLines
    <3> QED
      BY <1>2, <1>3, <1>6, <2>1, <3>2
  <2>3. CASE CrlfCrlf(u, i)
    <3>1. u[i] = "r" /\ u[i + 1] = "n" /\ u[i + 2] = "r" /\ u[i + 3] = "n"
      BY <2>3 DEF CrlfCrlf
    <3>2. CASE LfLf(t, p)
      <4>1. p + 1 \in 1..Len(t) /\ u[p] = "n" /\ u[p + 1] = "n"
        BY <1>1, <1>3, <3>2 DEF LfLf
      <4>2. i # p - 1
        BY <1>3, <2>1, <3>1, <4>1
      <4>3. i + 2 \in 1..Len(t) /\ i + 3 \in 1..Len(t)
        BY <1>3, <1>6, <2>1, <4>1, <4>2
      <4>4. u[i + 2] = t[i + 2] /\ u[i + 3] = t[i + 3]
        BY <1>1, <4>3
      <4>5. CrlfCrlf(t, i)
        BY <2>1, <3>1, <4>3, <4>4 DEF CrlfCrlf
      <4>6. i \in BlankLines(t)
        BY <2>1, <4>5 DEF BlankLines
      <4> QED
        BY <1>2, <1>3, <1>6, <2>1, <4>6
    <3>3. CASE CrlfCrlf(t, p)
      <4>1. p + 3 <= Len(t)
        BY <3>3 DEF CrlfCrlf
      <4>2. i + 2 \in 1..Len(t) /\ i + 3 \in 1..Len(t)
        BY <1>3, <1>6, <2>1, <4>1
      <4>3. u[i + 2] = t[i + 2] /\ u[i + 3] = t[i + 3]
        BY <1>1, <4>2
      <4>4. CrlfCrlf(t, i)
        BY <2>1, <3>1, <4>2, <4>3 DEF CrlfCrlf
      <4>5. i \in BlankLines(t)
        BY <2>1, <4>4 DEF BlankLines
      <4> QED
        BY <1>2, <1>3, <1>6, <2>1, <4>5
    <3> QED
      BY <1>3, <3>2, <3>3
  <2> QED
    BY <1>6, <2>2, <2>3 DEF BlankLines
<1>7. \A i \in BlankLines(u) : p <= i
  <2>1. BlankLines(u) \in SUBSET (Nat \ {0})
    BY <1>1, BlankLinesArePlaces
  <2> QED
    BY <1>3, <1>6, <2>1
<1>8. Separator(u) = p
  BY <1>1, <1>5, <1>7, BlankLinesArePlaces, FirstOfIs
<1>9. SeparatorLength(u, p) = SeparatorLength(t, p)
  BY <1>4 DEF SeparatorLength
<1> QED
  BY <1>8, <1>9 DEF p, u

(* So what precedes it stays, and what follows it grows at the end.        *)
LEMMA CutStays ==
  ASSUME NEW A, NEW t \in Seq(A), NEW c \in Seq(A), Separator(t) # 0
  PROVE  Frame(t \o c) = Frame(t) /\ Behind(t \o c) = Behind(t) \o c
<1> DEFINE p == Separator(t)
           i == p + SeparatorLength(t, p)
<1>1. Separator(t \o c) = p /\ SeparatorLength(t \o c, p) = SeparatorLength(t, p)
  BY SeparatorStays
<1>2. p \in 1..Len(t) /\ i \in 1..(Len(t) + 1)
  BY SeparatorInside
<1>3. Frame(t \o c) = SubSeq(t \o c, 1, p - 1) /\ Frame(t) = SubSeq(t, 1, p - 1)
  BY <1>1 DEF Frame
<1>4. Behind(t \o c) = From(t \o c, i) /\ Behind(t) = From(t, i)
  BY <1>1 DEF Behind
<1> HIDE DEF p, i
<1>5. From(t \o c, i) = From(t, i) \o c
  BY <1>2, FromConcat
<1>6. SubSeq(t \o c, 1, p - 1) = SubSeq(t, 1, p - 1)
  <2>1. CASE p = 1
    BY <1>2, <2>1, SubSeqEmpty
  <2>2. CASE p # 1
    <3>1. 1 \in 1..Len(t) /\ p - 1 \in 1..Len(t)
      BY <1>2, <2>2
    <3> QED
      BY <3>1, SubSeqOfConcat1
  <2> QED
    BY <2>1, <2>2
<1> QED
  BY <1>3, <1>4, <1>5, <1>6

-----------------------------------------------------------------------------
(* Induction and recursion over data.                                       *)

(* Induction over a set whose members have a rank: a set that has every    *)
(* member all of whose predecessors it has, has all.                       *)
LEMMA RankInduction ==
  ASSUME NEW D, NEW rank \in [D -> Nat], NEW S,
         \A i \in D : (\A j \in D : rank[j] < rank[i] => j \in S) => i \in S
  PROVE  D \subseteq S
<1> DEFINE R == {rank[i] : i \in D \ S}
<1>1. SUFFICES ASSUME D \ S # {} PROVE FALSE
  OBVIOUS
<1>2. R \in SUBSET Nat /\ R # {}
  BY <1>1
<1>3. PICK n \in R : \A m \in R : n <= m
  BY <1>2, LeastMember
<1>4. PICK i \in D \ S : rank[i] = n
  BY <1>3
<1>5. ASSUME NEW j \in D, rank[j] < rank[i] PROVE j \in S
  BY <1>3, <1>4, <1>5, SMTT(20)
<1> QED
  BY <1>4, <1>5

(* A definition by recursion: e computes the value at a place from those   *)
(* at places of a lower rank.                                              *)
Recursive(D, V, rank, N, e) ==
  /\ V # {} /\ N \in Nat /\ rank \in [D -> Nat] /\ \A i \in D : rank[i] < N
  /\ e \in [[D -> V] \X D -> V]
  /\ \A f \in [D -> V], g \in [D -> V], i \in D :
       (\A j \in D : rank[j] < rank[i] => f[j] = g[j]) => e[<<f, i>>] = e[<<g, i>>]
Solution(D, V, e, g) == g \in [D -> V] /\ \A i \in D : g[i] = e[<<g, i>>]
Solvable(D, V, e) == \E g : Solution(D, V, e, g)

(* Definition by recursion: where the value at a place depends on those at *)
(* places of a lower rank only, there is a function with these values.     *)
LEMMA Recursion ==
  ASSUME NEW D, NEW V, NEW rank, NEW N, NEW e, Recursive(D, V, rank, N, e)
  PROVE  Solvable(D, V, e)
<1> USE DEF Recursive
<1>v. PICK v \in V : TRUE
  OBVIOUS
<1> DEFINE Solves(g, n) == \A i \in D : rank[i] < n => g[i] = e[<<g, i>>]
           S == {n \in Nat : \E g \in [D -> V] : Solves(g, n)}
           id == [n \in Nat |-> n]
<1>1. ASSUME NEW n \in Nat, \A m \in Nat : m < n => m \in S
      PROVE  n \in S
  <2>1. CASE n = 0
    <3>1. [i \in D |-> v] \in [D -> V] /\ \A i \in D : ~(rank[i] < 0)
      OBVIOUS
    <3>2. Solves([i \in D |-> v], 0)
      BY <3>1
    <3> QED
      BY <2>1, <3>1, <3>2
  <2>2. CASE n # 0
    <3>1. n - 1 \in Nat /\ n - 1 < n
      BY <2>2
    <3>2. PICK g \in [D -> V] : Solves(g, n - 1)
      BY <1>1, <3>1
    <3> DEFINE h == [i \in D |-> IF rank[i] < n - 1 THEN g[i] ELSE e[<<g, i>>]]
    <3>3. h \in [D -> V]
      OBVIOUS
    <3>4. \A i \in D : rank[i] < n - 1 => h[i] = g[i]
      OBVIOUS
    <3>5. ASSUME NEW i \in D, rank[i] < n PROVE h[i] = e[<<h, i>>]
      <4>1. h[i] = e[<<g, i>>]
        BY <3>2
      <4> HIDE DEF h
      <4>2. \A j \in D : rank[j] < rank[i] => h[j] = g[j]
        BY <3>4, <3>5, <3>1
      <4> QED
        BY <3>3, <4>1, <4>2
    <3> HIDE DEF h
    <3>6. Solves(h, n)
      BY <3>5
    <3> QED
      BY <3>3, <3>6
  <2> QED
    BY <2>1, <2>2
<1> HIDE DEF S
<1>2. \A n \in Nat : (\A m \in Nat : id[m] < id[n] => m \in S) => n \in S
  BY <1>1
<1>3. id \in [Nat -> Nat]
  OBVIOUS
<1> HIDE DEF id
<1>4. Nat \subseteq S
  BY <1>2, <1>3, RankInduction, SMTT(20)
<1>5. PICK g \in [D -> V] : Solves(g, N)
  BY <1>4 DEF S
<1> QED
  BY <1>5 DEF Solution, Solvable

(* Induction over the texts that end in one atom more.                     *)
LEMMA AppendInduction ==
  ASSUME NEW A, NEW S, <<>> \in S,
         \A s \in Seq(A), a \in A : s \in S => Append(s, a) \in S
  PROVE  Seq(A) \subseteq S
<1> DEFINE rank == [s \in Seq(A) |-> Len(s)]
<1>1. rank \in [Seq(A) -> Nat] /\ \A s \in Seq(A) : rank[s] = Len(s)
  OBVIOUS
<1> HIDE DEF rank
<1>2. ASSUME NEW t \in Seq(A), \A u \in Seq(A) : rank[u] < rank[t] => u \in S
      PROVE  t \in S
  <2>1. CASE t # <<>>
    <3>1. PICK s \in Seq(A), a \in A : t = Append(s, a)
      BY <2>1, SequenceEmptyOrAppend
    <3>2. Len(s) < Len(t)
      BY <3>1, AppendProperties
    <3> QED
      BY <1>1, <1>2, <3>1, <3>2
  <2> QED
    BY <2>1
<1> DEFINE D == Seq(A)
<1>3. \A t \in D : (\A u \in D : rank[u] < rank[t] => u \in S) => t \in S
  BY <1>2
<1>4. rank \in [D -> Nat]
  BY <1>1
<1> HIDE DEF D
<1>5. D \subseteq S
  BY <1>3, <1>4, RankInduction
<1> QED
  BY <1>5 DEF D

-----------------------------------------------------------------------------
(* FlattenSeq.                                                             *)
Sums(ss, f) == f[1] = ss[1] /\ \A i \in 2..Len(ss) : f[i] = f[i - 1] \o ss[i]

(* Its partial sums, of which it is the last one.                          *)
LEMMA FlattenUnfolds ==
  ASSUME NEW A, NEW ss \in Seq(Seq(A)), ss # <<>>
  PROVE  \E f \in [1..Len(ss) -> Seq(A)] : Sums(ss, f) /\ FlattenSeq(ss) = f[Len(ss)]
<1> DEFINE D == 1..Len(ss)
           V == Seq(A)
           rank == [i \in D |-> i]
           e == [x \in [D -> V] \X D |-> IF x[2] = 1 THEN ss[x[2]] ELSE x[1][x[2] - 1] \o ss[x[2]]]
           Def(f) == f = [i \in 1..Len(ss) |-> IF i = 1 THEN ss[i] ELSE f[i - 1] \o ss[i]]
<1>1. Len(ss) \in Nat \ {0} /\ \A i \in D : ss[i] \in V
  BY EmptySeq
<1>2. <<>> \in V
  OBVIOUS
<1>3. ASSUME NEW f \in [D -> V], NEW i \in D
      PROVE  /\ e[<<f, i>>] = IF i = 1 THEN ss[i] ELSE f[i - 1] \o ss[i]
             /\ e[<<f, i>>] \in V
  <2>1. <<f, i>> \in [D -> V] \X D
    OBVIOUS
  <2>2. e[<<f, i>>] = IF i = 1 THEN ss[i] ELSE f[i - 1] \o ss[i]
    BY <2>1
  <2>3. i # 1 => i - 1 \in D
    BY <1>1
  <2>4. i # 1 => f[i - 1] \o ss[i] \in V
    BY <1>1, <2>3, ConcatProperties
  <2> QED
    BY <1>1, <2>2, <2>4
<1>4. e \in [[D -> V] \X D -> V]
  <2>1. ASSUME NEW x \in [D -> V] \X D PROVE e[x] \in V
    <3>1. x = <<x[1], x[2]>> /\ x[1] \in [D -> V] /\ x[2] \in D
      OBVIOUS
    <3> HIDE DEF e, D, V
    <3>2. e[<<x[1], x[2]>>] \in V
      BY <1>3, <3>1
    <3> QED
      BY <3>1, <3>2
  <2> QED
    BY <2>1
<1>5. \A f \in [D -> V], g \in [D -> V], i \in D :
        (\A j \in D : rank[j] < rank[i] => f[j] = g[j]) => e[<<f, i>>] = e[<<g, i>>]
  <2> SUFFICES ASSUME NEW f \in [D -> V], NEW g \in [D -> V], NEW i \in D,
                      \A j \in D : rank[j] < rank[i] => f[j] = g[j]
               PROVE  e[<<f, i>>] = e[<<g, i>>]
    OBVIOUS
  <2>1. i # 1 => i - 1 \in D /\ i - 1 < i
    BY <1>1
  <2>2. i # 1 => f[i - 1] = g[i - 1]
    BY <2>1
  <2>3. e[<<f, i>>] = IF i = 1 THEN ss[i] ELSE f[i - 1] \o ss[i]
    BY <1>3
  <2>4. e[<<g, i>>] = IF i = 1 THEN ss[i] ELSE g[i - 1] \o ss[i]
    BY <1>3
  <2> HIDE DEF e
  <2> QED
    BY <2>2, <2>3, <2>4
<1>6. rank \in [D -> Nat] /\ \A i \in D : rank[i] < Len(ss) + 1
  BY <1>1
<1> DEFINE N == Len(ss) + 1
<1> HIDE DEF e
<1>7. PICK g \in [D -> V] : \A i \in D : g[i] = e[<<g, i>>]
  <2>1. N \in Nat
    BY <1>1
  <2>2. \A i \in D : rank[i] < N
    BY <1>6
  <2>3. <<>> \in V /\ e \in [[D -> V] \X D -> V] /\ rank \in [D -> Nat]
    BY <1>2, <1>4, <1>6
  <2>4. \A f \in [D -> V], g \in [D -> V], i \in D :
          (\A j \in D : rank[j] < rank[i] => f[j] = g[j]) => e[<<f, i>>] = e[<<g, i>>]
    BY <1>5
  <2> HIDE DEF D, V, N, rank
  <2>5. Recursive(D, V, rank, N, e)
    BY <2>1, <2>2, <2>3, <2>4 DEF Recursive
  <2>6. Solvable(D, V, e)
    BY <2>5, Recursion
  <2> QED
    BY <2>6 DEF Solvable, Solution
<1> HIDE DEF rank
<1>8. g = [i \in 1..Len(ss) |-> IF i = 1 THEN ss[i] ELSE g[i - 1] \o ss[i]]
  <2>1. \A i \in D : g[i] = IF i = 1 THEN ss[i] ELSE g[i - 1] \o ss[i]
    BY <1>3, <1>7
  <2> QED
    BY <1>7, <2>1
<1>9. PICK f : Def(f) /\ FlattenSeq(ss) = f[Len(ss)]
  <2>1. Len(ss) # 0
    BY <1>1
  <2> QED
    BY <1>8, <2>1 DEF FlattenSeq
<1>10. Sums(ss, f)
  <2>1. \A i \in D : f[i] = IF i = 1 THEN ss[i] ELSE f[i - 1] \o ss[i]
    BY <1>9
  <2>2. 1 \in D /\ \A i \in 2..Len(ss) : i \in D /\ i # 1
    BY <1>1
  <2> QED
    BY <2>1, <2>2 DEF Sums
<1>11. D \subseteq {i \in D : f[i] \in V}
  <2> DEFINE S == {i \in D : f[i] \in V}
  <2>1. ASSUME NEW i \in D, \A j \in D : rank[j] < rank[i] => j \in S
        PROVE  i \in S
    <3>1. CASE i = 1
      BY <1>1, <1>10, <3>1 DEF Sums
    <3>2. CASE i # 1
      <4>1. i - 1 \in D /\ rank[i - 1] < rank[i] /\ i \in 2..Len(ss)
        BY <1>1, <3>2 DEF rank
      <4>2. f[i - 1] \in V
        BY <2>1, <4>1
      <4>3. f[i - 1] \o ss[i] \in V
        BY <1>1, <4>2, ConcatProperties
      <4> QED
        BY <1>10, <4>1, <4>3 DEF Sums
    <3> QED
      BY <3>1, <3>2
  <2> HIDE DEF S
  <2>2. rank \in [D -> Nat]
    BY <1>6
  <2>3. \A i \in D : (\A j \in D : rank[j] < rank[i] => j \in S) => i \in S
    BY <2>1
  <2> HIDE DEF D
  <2>4. D \subseteq S
    BY <2>2, <2>3, RankInduction
  <2> QED
    BY <2>4 DEF S
<1>12. f \in [D -> V]
  BY <1>9, <1>11
<1> QED
  BY <1>9, <1>10, <1>12

Agree(s, t, n) == \A i \in 1..n : s[i] = t[i]

(* The sums of two sequences agree where these do.                         *)
LEMMA SumsAgree ==
  ASSUME NEW ss, NEW tt, NEW f, NEW g, NEW n \in Nat, n <= Len(ss), n <= Len(tt),
         Len(ss) \in Nat, Len(tt) \in Nat,
         Sums(ss, f), Sums(tt, g), Agree(ss, tt, n)
  PROVE  Agree(f, g, n)
<1> USE DEF Agree
<1> DEFINE D == 1..n
           rank == [i \in D |-> i]
           S == {i \in D : f[i] = g[i]}
<1>1. rank \in [D -> Nat] /\ \A i \in D : rank[i] = i
  OBVIOUS
<1> HIDE DEF rank
<1>2. ASSUME NEW i \in D, \A j \in D : rank[j] < rank[i] => j \in S PROVE i \in S
  <2>1. CASE i = 1
    BY <2>1 DEF Sums
  <2>2. CASE i # 1
    <3>1. i - 1 \in D /\ i \in 2..Len(ss) /\ i \in 2..Len(tt) /\ rank[i - 1] < rank[i]
      BY <1>1, <2>2
    <3>2. f[i - 1] = g[i - 1]
      BY <1>2, <3>1
    <3> QED
      BY <3>1, <3>2 DEF Sums
  <2> QED
    BY <2>1, <2>2
<1> HIDE DEF S
<1>3. \A i \in D : (\A j \in D : rank[j] < rank[i] => j \in S) => i \in S
  BY <1>2
<1> HIDE DEF D
<1>4. D \subseteq S
  BY <1>1, <1>3, RankInduction
<1> QED
  BY <1>4 DEF D, S

(* Flattening no sequences yields nothing.                                 *)
LEMMA FlattenNil == FlattenSeq(<<>>) = <<>>
BY DEF FlattenSeq

(* Flattening sequences over a set yields one over that set.               *)
LEMMA FlattenType ==
  ASSUME NEW A, NEW ss \in Seq(Seq(A))
  PROVE  FlattenSeq(ss) \in Seq(A)
<1>1. CASE ss = <<>>
  <2>1. <<>> \in Seq(A)
    OBVIOUS
  <2> QED
    BY <1>1, <2>1, FlattenNil
<1>2. CASE ss # <<>>
  <2>1. PICK f \in [1..Len(ss) -> Seq(A)] : Sums(ss, f) /\ FlattenSeq(ss) = f[Len(ss)]
    BY <1>2, FlattenUnfolds
  <2>2. Len(ss) \in 1..Len(ss)
    BY <1>2, EmptySeq
  <2> QED
    BY <2>1, <2>2
<1> QED
  BY <1>1, <1>2

(* One sequence more is put behind what the others yield.                  *)
LEMMA FlattenAppend ==
  ASSUME NEW A, NEW ss \in Seq(Seq(A)), NEW s \in Seq(A)
  PROVE  FlattenSeq(Append(ss, s)) = FlattenSeq(ss) \o s
<1> DEFINE tt == Append(ss, s)
           n == Len(ss)
<1>1. /\ tt \in Seq(Seq(A)) /\ Len(tt) = n + 1 /\ n \in Nat
      /\ tt[n + 1] = s /\ \A i \in 1..n : tt[i] = ss[i]
  OBVIOUS
<1> HIDE DEF tt
<1>2. tt # <<>>
  BY <1>1
<1>3. PICK f \in [1..Len(tt) -> Seq(A)] : Sums(tt, f) /\ FlattenSeq(tt) = f[n + 1]
  BY <1>1, <1>2, FlattenUnfolds
<1>4. CASE ss = <<>>
  <2>1. n = 0 /\ FlattenSeq(ss) = <<>>
    BY <1>4, FlattenNil
  <2>2. FlattenSeq(tt) = s
    BY <1>1, <1>3, <2>1 DEF Sums
  <2>3. <<>> \o s = s
    BY ConcatEmptySeq
  <2> QED
    BY <2>1, <2>2, <2>3 DEF tt
<1>5. CASE ss # <<>>
  <2>1. PICK g \in [1..n -> Seq(A)] : Sums(ss, g) /\ FlattenSeq(ss) = g[n]
    BY <1>5, FlattenUnfolds
  <2>2. n \in 1..n /\ n + 1 \in 2..Len(tt) /\ n <= Len(tt) /\ Len(tt) \in Nat
    BY <1>1, <1>5, EmptySeq
  <2>3. Agree(ss, tt, n)
    BY <1>1 DEF Agree
  <2>4. Agree(g, f, n)
    <3> HIDE DEF n
    <3>1. n \in Nat /\ n <= Len(ss) /\ n <= Len(tt) /\ Len(ss) \in Nat /\ Len(tt) \in Nat
      BY <1>1, <2>2 DEF n
    <3> QED
      BY <1>3, <2>1, <2>3, <3>1, SumsAgree
  <2> DEFINE k == n + 1
  <2>5. k \in 2..Len(tt) /\ k - 1 = n /\ tt[k] = s
    BY <1>1, <2>2
  <2>6. f[k] = f[n] \o s
    <3> HIDE DEF k, n
    <3>1. f[k] = f[k - 1] \o tt[k]
      BY <1>3, <2>5 DEF Sums
    <3> QED
      BY <2>5, <3>1
  <2>7. f[k] = g[n] \o s
    BY <2>2, <2>4, <2>6 DEF Agree
  <2> QED
    BY <1>3, <2>1, <2>7 DEF tt
<1> QED
  BY <1>4, <1>5

(* Two groups of sequences may be flattened one after the other.           *)
LEMMA FlattenConcat ==
  ASSUME NEW A, NEW ss \in Seq(Seq(A)), NEW tt \in Seq(Seq(A))
  PROVE  FlattenSeq(ss \o tt) = FlattenSeq(ss) \o FlattenSeq(tt)
<1> DEFINE B == Seq(A)
           S == {uu \in Seq(B) : FlattenSeq(ss \o uu) = FlattenSeq(ss) \o FlattenSeq(uu)}
<1>1. <<>> \in S
  <2>1. <<>> \in Seq(B) /\ ss \o <<>> = ss
    OBVIOUS
  <2>2. FlattenSeq(ss) \in Seq(A)
    BY FlattenType
  <2>3. FlattenSeq(ss) \o <<>> = FlattenSeq(ss)
    BY <2>2
  <2> QED
    BY <2>1, <2>3, FlattenNil
<1>2. ASSUME NEW uu \in Seq(B), NEW u \in B, uu \in S PROVE Append(uu, u) \in S
  <2>1. ss \o Append(uu, u) = Append(ss \o uu, u) /\ ss \o uu \in Seq(B) /\ Append(uu, u) \in Seq(B)
    OBVIOUS
  <2>2. FlattenSeq(Append(ss \o uu, u)) = FlattenSeq(ss \o uu) \o u
    BY <2>1, FlattenAppend
  <2>3. FlattenSeq(Append(uu, u)) = FlattenSeq(uu) \o u
    BY FlattenAppend
  <2>4. FlattenSeq(ss) \in Seq(A) /\ FlattenSeq(uu) \in Seq(A) /\ u \in Seq(A)
    BY FlattenType
  <2>5. (FlattenSeq(ss) \o FlattenSeq(uu)) \o u = FlattenSeq(ss) \o (FlattenSeq(uu) \o u)
    <3>1. Associates(FlattenSeq(ss), FlattenSeq(uu), u)
      BY <2>4, ThreeInARow
    <3> QED
      BY <3>1 DEF Associates
  <2>6. FlattenSeq(ss \o uu) = FlattenSeq(ss) \o FlattenSeq(uu)
    BY <1>2
  <2> QED
    BY <2>1, <2>2, <2>3, <2>5, <2>6
<1> HIDE DEF S
<1>3. Seq(B) \subseteq S
  BY <1>1, <1>2, AppendInduction
<1> QED
  BY <1>3 DEF S

Piece(a, S) == IF a \in S THEN <<a>> ELSE <<>>

(* What is kept of one item.                                               *)
LEMMA PieceType ==
  ASSUME NEW A, NEW S, NEW a \in A
  PROVE  Piece(a, S) \in Seq(A \cap S) /\ Piece(a, S) \in Seq(A)
<1>1. CASE a \in S
  <2>1. a \in A \cap S /\ Piece(a, S) = <<a>>
    BY <1>1 DEF Piece
  <2> QED
    BY <2>1
<1>2. CASE a \notin S
  <2>1. Piece(a, S) = <<>>
    BY <1>2 DEF Piece
  <2> QED
    BY <2>1
<1> QED
  BY <1>1, <1>2

Each(t, f) == [i \in DOMAIN t |-> f[t[i]]]

(* A sequence given place by place, one item longer.                       *)
LEMMA PlacesAppend ==
  ASSUME NEW A, NEW B, NEW t \in Seq(A), NEW a \in A, NEW f \in [A -> B]
  PROVE  Each(t, f) \in Seq(B) /\ Each(Append(t, a), f) = Append(Each(t, f), f[a])
<1> DEFINE p == [i \in DOMAIN t |-> f[t[i]]]
           u == Append(t, a)
           q == [i \in DOMAIN u |-> f[u[i]]]
           r == Append(p, f[a])
           n == Len(t)
<1>1. n \in Nat /\ DOMAIN t = 1..n /\ \A i \in 1..n : t[i] \in A
  OBVIOUS
<1>2. u \in Seq(A) /\ Len(u) = n + 1 /\ DOMAIN u = 1..(n + 1) /\ u[n + 1] = a /\ \A i \in 1..n : u[i] = t[i]
  OBVIOUS
<1>3. p \in Seq(B) /\ Len(p) = n /\ \A i \in 1..n : p[i] = f[t[i]]
  BY <1>1
<1> HIDE DEF u, p
<1>4. r \in Seq(B) /\ Len(r) = n + 1 /\ r[n + 1] = f[a] /\ \A i \in 1..n : r[i] = p[i]
  BY <1>3
<1>5. q \in Seq(B) /\ Len(q) = n + 1 /\ \A i \in 1..(n + 1) : q[i] = f[u[i]]
  <2>1. \A i \in 1..(n + 1) : u[i] \in A
    BY <1>2
  <2> QED
    BY <1>1, <1>2, <2>1
<1> HIDE DEF q, r
<1>6. \A i \in 1..(n + 1) : q[i] = r[i]
  <2> SUFFICES ASSUME NEW i \in 1..(n + 1) PROVE q[i] = r[i]
    OBVIOUS
  <2>1. CASE i = n + 1
    BY <1>1, <1>2, <1>4, <1>5, <2>1
  <2>2. CASE i # n + 1
    <3>1. i \in 1..n
      BY <1>1, <2>2
    <3> QED
      BY <1>2, <1>3, <1>4, <1>5, <3>1
  <2> QED
    BY <2>1, <2>2
<1>7. q = r
  BY <1>4, <1>5, <1>6, SeqEqual
<1> QED
  BY <1>3, <1>7 DEF p, q, r, u, Each

(* A sequence given place by place.                                        *)
LEMMA PlacesType ==
  ASSUME NEW A, NEW B, NEW t \in Seq(A), NEW f \in [A -> B]
  PROVE  Each(t, f) \in Seq(B) /\ Len(Each(t, f)) = Len(t)
<1>1. \A i \in 1..Len(t) : f[t[i]] \in B
  OBVIOUS
<1> QED
  BY <1>1 DEF Each

(* The pieces that what is kept of a text consists of.                     *)
LEMMA KeptPieces ==
  ASSUME NEW A, NEW S, NEW t \in Seq(A)
  PROVE  LET f == [a \in A |-> Piece(a, S)]
         IN  /\ f \in [A -> Seq(A \cap S)]
             /\ Kept(t, S) = FlattenSeq(Each(t, f))
<1> DEFINE f == [a \in A |-> Piece(a, S)]
<1>1. \A a \in A : Piece(a, S) \in Seq(A \cap S)
  BY PieceType
<1>2. \A i \in DOMAIN t : f[t[i]] = IF t[i] \in S THEN <<t[i]>> ELSE <<>>
  <2>1. \A i \in DOMAIN t : t[i] \in A
    OBVIOUS
  <2> QED
    BY <2>1 DEF Piece
<1>3. [i \in DOMAIN t |-> f[t[i]]] = [i \in DOMAIN t |-> IF t[i] \in S THEN <<t[i]>> ELSE <<>>]
  BY <1>2
<1> QED
  BY <1>1, <1>3 DEF Kept, Each

(* What is kept of a sequence is made of its items that are in the set.    *)
LEMMA KeptType ==
  ASSUME NEW A, NEW S, NEW t \in Seq(A)
  PROVE  Kept(t, S) \in Seq(A \cap S) /\ Kept(t, S) \in Seq(A)
<1> DEFINE f == [a \in A |-> Piece(a, S)]
           p == Each(t, f)
           B == Seq(A \cap S)
<1>1. f \in [A -> B] /\ Kept(t, S) = FlattenSeq(p)
  BY KeptPieces
<1> HIDE DEF f
<1>2. p \in Seq(B)
  <2> HIDE DEF B
  <2> QED
    BY <1>1, PlacesType
<1> HIDE DEF p
<1>3. FlattenSeq(p) \in Seq(A \cap S)
  BY <1>2, FlattenType
<1>4. FlattenSeq(p) \in Seq(A)
  BY <1>3
<1> QED
  BY <1>1, <1>3, <1>4

(* Of nothing, nothing is kept.                                            *)
LEMMA KeptNil ==
  ASSUME NEW S
  PROVE  Kept(<<>>, S) = <<>>
<1>1. [i \in DOMAIN <<>> |-> IF <<>>[i] \in S THEN <<<<>>[i]>> ELSE <<>>] = <<>>
  OBVIOUS
<1> QED
  BY <1>1, FlattenNil DEF Kept

(* One item more.                                                          *)
LEMMA KeptAppend ==
  ASSUME NEW A, NEW S, NEW t \in Seq(A), NEW a \in A
  PROVE  Kept(Append(t, a), S) = Kept(t, S) \o Piece(a, S)
<1> DEFINE f == [x \in A |-> Piece(x, S)]
           B == Seq(A \cap S)
           u == Append(t, a)
           p == Each(t, f)
           q == Each(u, f)
<1>1. f \in [A -> B] /\ Kept(t, S) = FlattenSeq(p)
  BY KeptPieces
<1>2. Kept(u, S) = FlattenSeq(q)
  <2>1. u \in Seq(A)
    OBVIOUS
  <2> HIDE DEF u
  <2> QED
    BY <2>1, KeptPieces
<1>3. f[a] = Piece(a, S)
  OBVIOUS
<1> HIDE DEF f
<1>4. p \in Seq(B) /\ q = Append(p, f[a])
  <2>1. f \in [A -> B]
    BY <1>1
  <2> HIDE DEF B
  <2>2. Each(t, f) \in Seq(B) /\ Each(Append(t, a), f) = Append(Each(t, f), f[a])
    BY <2>1, PlacesAppend
  <2> QED
    BY <2>2
<1>5. f[a] \in B
  BY <1>1
<1> HIDE DEF p, q
<1>6. FlattenSeq(q) = FlattenSeq(p) \o f[a]
  BY <1>4, <1>5, FlattenAppend
<1> QED
  BY <1>1, <1>2, <1>3, <1>6

(* What is kept of two sequences in a row is kept of each.                 *)
LEMMA KeptConcat ==
  ASSUME NEW A, NEW S, NEW t \in Seq(A), NEW u \in Seq(A)
  PROVE  Kept(t \o u, S) = Kept(t, S) \o Kept(u, S)
<1> DEFINE R == {v \in Seq(A) : Kept(t \o v, S) = Kept(t, S) \o Kept(v, S)}
<1>1. <<>> \in R
  <2>1. <<>> \in Seq(A) /\ t \o <<>> = t
    OBVIOUS
  <2>2. Kept(t, S) \o <<>> = Kept(t, S)
    BY KeptType, ConcatEmptySeq
  <2> QED
    BY <2>1, <2>2, KeptNil
<1>2. ASSUME NEW v \in Seq(A), NEW a \in A, v \in R PROVE Append(v, a) \in R
  <2>1. t \o Append(v, a) = Append(t \o v, a) /\ t \o v \in Seq(A) /\ Append(v, a) \in Seq(A)
    OBVIOUS
  <2>2. Kept(Append(t \o v, a), S) = Kept(t \o v, S) \o Piece(a, S)
    BY <2>1, KeptAppend
  <2>3. Kept(Append(v, a), S) = Kept(v, S) \o Piece(a, S)
    BY KeptAppend
  <2>4. Kept(t, S) \in Seq(A) /\ Kept(v, S) \in Seq(A) /\ Piece(a, S) \in Seq(A)
    BY KeptType, PieceType
  <2>5. (Kept(t, S) \o Kept(v, S)) \o Piece(a, S) = Kept(t, S) \o (Kept(v, S) \o Piece(a, S))
    <3>1. Associates(Kept(t, S), Kept(v, S), Piece(a, S))
      BY <2>4, ThreeInARow
    <3> QED
      BY <3>1 DEF Associates
  <2> QED
    BY <1>2, <2>1, <2>2, <2>3, <2>5
<1> HIDE DEF R
<1>3. Seq(A) \subseteq R
  BY <1>1, <1>2, AppendInduction
<1> QED
  BY <1>3 DEF R

(* Of a text without any of them nothing is kept, of one that has nothing  *)
(* else everything.                                                        *)
LEMMA KeptNone ==
  ASSUME NEW A, NEW S, NEW t \in Seq(A), \A i \in 1..Len(t) : t[i] \notin S
  PROVE  Kept(t, S) = <<>>
<1>1. \A i \in DOMAIN t : t[i] \notin S
  OBVIOUS
<1>2. t \in Seq(A \ S)
  BY <1>1
<1> DEFINE R == {v \in Seq(A \ S) : Kept(v, S) = <<>>}
<1>3. <<>> \in R
  BY KeptNil
<1>4. ASSUME NEW v \in Seq(A \ S), NEW a \in A \ S, v \in R PROVE Append(v, a) \in R
  <2>1. Kept(v, S) = <<>> /\ v \in Seq(A) /\ a \in A /\ Piece(a, S) = <<>>
    BY <1>4 DEF Piece
  <2>2. Kept(Append(v, a), S) = Kept(v, S) \o Piece(a, S)
    BY <2>1, KeptAppend
  <2>3. Kept(Append(v, a), S) = <<>> \o <<>>
    BY <2>1, <2>2
  <2>4. Append(v, a) \in Seq(A \ S)
    OBVIOUS
  <2> QED
    BY <2>3, <2>4
<1> HIDE DEF R
<1>5. Seq(A \ S) \subseteq R
  BY <1>3, <1>4, AppendInduction
<1> QED
  BY <1>2, <1>5 DEF R

(* Of a sequence that has nothing else, everything is kept.                *)
LEMMA KeptAll ==
  ASSUME NEW A, NEW S, NEW t \in Seq(A), \A i \in 1..Len(t) : t[i] \in S
  PROVE  Kept(t, S) = t
<1>1. \A i \in DOMAIN t : t[i] \in S
  OBVIOUS
<1>2. t \in Seq(A \cap S)
  BY <1>1
<1> DEFINE R == {v \in Seq(A \cap S) : Kept(v, S) = v}
<1>3. <<>> \in R
  BY KeptNil
<1>4. ASSUME NEW v \in Seq(A \cap S), NEW a \in A \cap S, v \in R PROVE Append(v, a) \in R
  <2>1. Kept(Append(v, a), S) = v \o <<a>>
    BY <1>4, KeptAppend DEF Piece
  <2> QED
    BY <2>1
<1> HIDE DEF R
<1>5. Seq(A \cap S) \subseteq R
  BY <1>3, <1>4, AppendInduction
<1> QED
  BY <1>2, <1>5 DEF R

EachKept(ss, S) == [i \in DOMAIN ss |-> Kept(ss[i], S)]

(* What is kept of a whole is what is kept of its parts.                   *)
LEMMA KeptFlatten ==
  ASSUME NEW A, NEW S, NEW ss \in Seq(Seq(A))
  PROVE  EachKept(ss, S) \in Seq(Seq(A)) /\ Kept(FlattenSeq(ss), S) = FlattenSeq(EachKept(ss, S))
<1> DEFINE B == Seq(A)
           f == [s \in B |-> Kept(s, S)]
           Of(tt) == Each(tt, f)
           R == {tt \in Seq(B) : Kept(FlattenSeq(tt), S) = FlattenSeq(Of(tt))}
<1>1. f \in [B -> B]
  BY KeptType
<1> HIDE DEF f
<1>2. <<>> \in R
  <2>1. Of(<<>>) = <<>> /\ <<>> \in Seq(B)
    BY DEF Each
  <2> QED
    BY <2>1, FlattenNil, KeptNil
<1>3. ASSUME NEW tt \in Seq(B), NEW s \in B, tt \in R PROVE Append(tt, s) \in R
  <2>1. Of(tt) \in Seq(B) /\ Of(Append(tt, s)) = Append(Of(tt), f[s])
    <3> HIDE DEF B
    <3> QED
      BY <1>1, PlacesAppend
  <2>2. f[s] \in B /\ f[s] = Kept(s, S)
    BY KeptType DEF f
  <2> HIDE DEF Of
  <2>3. FlattenSeq(Append(Of(tt), f[s])) = FlattenSeq(Of(tt)) \o f[s]
    BY <2>1, <2>2, FlattenAppend
  <2>4. FlattenSeq(Append(tt, s)) = FlattenSeq(tt) \o s /\ FlattenSeq(tt) \in Seq(A)
    BY FlattenAppend, FlattenType
  <2>5. Kept(FlattenSeq(tt) \o s, S) = Kept(FlattenSeq(tt), S) \o Kept(s, S)
    BY <2>4, KeptConcat
  <2>6. Append(tt, s) \in Seq(B)
    OBVIOUS
  <2> QED
    BY <1>3, <2>1, <2>2, <2>3, <2>4, <2>5, <2>6
<1> HIDE DEF R
<1>4. Seq(B) \subseteq R
  BY <1>2, <1>3, AppendInduction
<1>5. \A i \in DOMAIN ss : ss[i] \in B
  OBVIOUS
<1>6. Of(ss) = EachKept(ss, S)
  BY <1>5 DEF f, Each, EachKept
<1>7. Of(ss) \in Seq(B)
  <2> HIDE DEF B
  <2>1. ss \in Seq(B)
    BY DEF B
  <2> QED
    BY <1>1, <2>1, PlacesType
<1> QED
  BY <1>4, <1>6, <1>7 DEF R

(* Flattening a single sequence yields that sequence.                      *)
LEMMA FlattenOne ==
  ASSUME NEW A, NEW s \in Seq(A)
  PROVE  FlattenSeq(<<s>>) = s
<1>1. <<>> \in Seq(Seq(A)) /\ Append(<<>>, s) = <<s>>
  OBVIOUS
<1>2. FlattenSeq(Append(<<>>, s)) = <<>> \o s
  BY <1>1, FlattenAppend, FlattenNil
<1> QED
  BY <1>1, <1>2, ConcatEmptySeq

(* An item that is not in the set is not kept.                             *)
LEMMA KeptSkips ==
  ASSUME NEW S, NEW a, a \notin S
  PROVE  Kept(<<a>>, S) = <<>>
<1>1. <<>> \in Seq({a}) /\ a \in {a} /\ Append(<<>>, a) = <<a>>
  OBVIOUS
<1>2. Kept(Append(<<>>, a), S) = <<>> \o Piece(a, S)
  BY <1>1, KeptAppend, KeptNil
<1> QED
  BY <1>1, <1>2 DEF Piece

-----------------------------------------------------------------------------
(* Lines.                                                                  *)
EndOfLine(t, i) == FirstOf({j \in i..Len(t) : t[j] = "n"})
LineFrom(t, i, rest) ==
  IF i > Len(t) THEN <<>>
  ELSE IF EndOfLine(t, i) = 0 THEN <<From(t, i)>>
  ELSE <<Chomp(SubSeq(t, i, EndOfLine(t, i) - 1))>> \o rest[EndOfLine(t, i) + 1]
Breaks(t, f) == \A i \in 1..(Len(t) + 1) : f[i] = LineFrom(t, i, f)

(* The end of a line that has one is a line feed at or behind its start.   *)
LEMMA EndOfLinePlace ==
  ASSUME NEW A, NEW t \in Seq(A), NEW i \in 1..Len(t)
  PROVE  EndOfLine(t, i) # 0 => EndOfLine(t, i) \in i..Len(t) /\ t[EndOfLine(t, i)] = "n"
<1> DEFINE P == {j \in i..Len(t) : t[j] = "n"}
<1>1. P \in SUBSET (Nat \ {0})
  OBVIOUS
<1>2. \A j \in P : j \in i..Len(t) /\ t[j] = "n"
  OBVIOUS
<1> HIDE DEF P
<1>3. FirstOf(P) # 0 => FirstOf(P) \in P
  BY <1>1, FirstOfPlaces
<1> QED
  BY <1>2, <1>3 DEF EndOfLine, P

(* Chomp takes away a carriage return or nothing.                          *)
LEMMA ChompType ==
  ASSUME NEW A, NEW l \in Seq(A)
  PROVE  Chomp(l) \in Seq(A) /\ (Chomp(l) = l \/ l = Chomp(l) \o <<"r">>)
<1>1. CASE l = <<>> \/ Last(l) # "r"
  BY <1>1 DEF Chomp
<1>2. CASE l # <<>> /\ Last(l) = "r"
  <2>1. PICK s \in Seq(A), a \in A : l = Append(s, a)
    BY <1>2, SequenceEmptyOrAppend
  <2>2. Front(l) = s /\ Last(l) = a
    BY <2>1, AppendProperties DEF Front, Last
  <2>3. l = s \o <<a>>
    BY <2>1
  <2> QED
    BY <1>2, <2>2, <2>3 DEF Chomp
<1> QED
  BY <1>1, <1>2

(* The lines of a text from any place on are those that Lines finds.       *)
LEMMA LinesUnfold ==
  ASSUME NEW A, NEW t \in Seq(A)
  PROVE  \E f \in [1..(Len(t) + 1) -> Seq(Seq(A))] : Breaks(t, f) /\ Lines(t) = f[1]
<1> DEFINE n == Len(t)
           D == 1..(n + 1)
           V == Seq(Seq(A))
           rank == [i \in D |-> n + 1 - i]
           N == n + 1
           e == [x \in [D -> V] \X D |-> LineFrom(t, x[2], x[1])]
<1>1. n \in Nat /\ \A i \in 1..n : t[i] \in A
  OBVIOUS
<1>2. ASSUME NEW i \in D, i <= n
      PROVE  /\ From(t, i) \in Seq(A)
             /\ EndOfLine(t, i) # 0 =>
                  /\ EndOfLine(t, i) + 1 \in D /\ EndOfLine(t, i) \in i..n
                  /\ Chomp(SubSeq(t, i, EndOfLine(t, i) - 1)) \in Seq(A)
  <2>1. i \in 1..n /\ From(t, i) \in Seq(A)
    BY <1>1, <1>2, FromRest
  <2>2. ASSUME NEW k \in i..n PROVE SubSeq(t, i, k - 1) \in Seq(A)
    BY <1>1, SubSeqProperties
  <2> DEFINE k == EndOfLine(t, i)
  <2>3. k # 0 => k \in i..n
    BY <2>1, EndOfLinePlace
  <2> HIDE DEF k
  <2>4. k # 0 => k \in i..n /\ k + 1 \in D /\ SubSeq(t, i, k - 1) \in Seq(A)
    BY <1>1, <2>1, <2>2, <2>3
  <2>5. k # 0 => Chomp(SubSeq(t, i, k - 1)) \in Seq(A)
    BY <2>4, ChompType
  <2> QED
    BY <2>1, <2>4, <2>5 DEF k
<1>3. ASSUME NEW f \in [D -> V], NEW i \in D
      PROVE  LineFrom(t, i, f) \in V
  <2>1. CASE i > n
    <3>1. <<>> \in V
      OBVIOUS
    <3> QED
      BY <2>1, <3>1 DEF LineFrom
  <2>2. CASE i <= n /\ EndOfLine(t, i) = 0
    <3>1. <<From(t, i)>> \in V
      BY <1>2, <2>2
    <3> QED
      BY <1>1, <2>2, <3>1 DEF LineFrom
  <2>3. CASE i <= n /\ EndOfLine(t, i) # 0
    <3> DEFINE l == Chomp(SubSeq(t, i, EndOfLine(t, i) - 1))
               r == f[EndOfLine(t, i) + 1]
    <3>1. l \in Seq(A) /\ r \in V
      BY <1>2, <2>3
    <3>2. LineFrom(t, i, f) = <<l>> \o r
      BY <1>1, <2>3 DEF LineFrom
    <3> HIDE DEF l, r
    <3>3. <<l>> \in V
      BY <3>1
    <3> QED
      BY <3>1, <3>2, <3>3, ConcatProperties
  <2> QED
    BY <1>1, <2>1, <2>2, <2>3
<1>4. ASSUME NEW f \in [D -> V], NEW i \in D PROVE e[<<f, i>>] = LineFrom(t, i, f)
  OBVIOUS
<1>5. e \in [[D -> V] \X D -> V]
  <2>1. ASSUME NEW x \in [D -> V] \X D PROVE e[x] \in V
    <3>1. x = <<x[1], x[2]>> /\ x[1] \in [D -> V] /\ x[2] \in D
      OBVIOUS
    <3>2. e[x] = LineFrom(t, x[2], x[1])
      OBVIOUS
    <3> HIDE DEF e, D, V
    <3> QED
      BY <1>3, <3>1, <3>2
  <2> QED
    BY <2>1
<1>6. \A f \in [D -> V], g \in [D -> V], i \in D :
        (\A j \in D : rank[j] < rank[i] => f[j] = g[j]) => e[<<f, i>>] = e[<<g, i>>]
  <2> SUFFICES ASSUME NEW f \in [D -> V], NEW g \in [D -> V], NEW i \in D,
                      \A j \in D : rank[j] < rank[i] => f[j] = g[j]
               PROVE  e[<<f, i>>] = e[<<g, i>>]
    OBVIOUS
  <2>1. i <= n /\ EndOfLine(t, i) # 0 => f[EndOfLine(t, i) + 1] = g[EndOfLine(t, i) + 1]
    <3> SUFFICES ASSUME i <= n, EndOfLine(t, i) # 0
                 PROVE  f[EndOfLine(t, i) + 1] = g[EndOfLine(t, i) + 1]
      OBVIOUS
    <3> DEFINE j == EndOfLine(t, i) + 1
    <3>1. j \in D /\ j > i
      BY <1>1, <1>2
    <3> HIDE DEF j
    <3>2. rank[j] < rank[i]
      BY <1>1, <3>1
    <3> QED
      BY <3>1, <3>2 DEF j
  <2>2. LineFrom(t, i, f) = LineFrom(t, i, g)
    BY <1>1, <2>1 DEF LineFrom
  <2> HIDE DEF e
  <2> QED
    BY <1>4, <2>2
<1>7. rank \in [D -> Nat] /\ \A i \in D : rank[i] < N
  BY <1>1
<1> HIDE DEF e
<1>8. PICK g \in [D -> V] : \A i \in D : g[i] = e[<<g, i>>]
  <2>1. V # {} /\ N \in Nat
    <3>1. <<>> \in V
      OBVIOUS
    <3>2. N \in Nat
      BY <1>1
    <3> HIDE DEF V
    <3> QED
      BY <3>1, <3>2
  <2>2. e \in [[D -> V] \X D -> V] /\ rank \in [D -> Nat] /\ \A i \in D : rank[i] < N
    BY <1>5, <1>7
  <2>3. \A f \in [D -> V], g \in [D -> V], i \in D :
          (\A j \in D : rank[j] < rank[i] => f[j] = g[j]) => e[<<f, i>>] = e[<<g, i>>]
    BY <1>6
  <2> HIDE DEF D, V, N, rank
  <2>4. Recursive(D, V, rank, N, e)
    BY <2>1, <2>2, <2>3 DEF Recursive
  <2>5. Solvable(D, V, e)
    BY <2>4, Recursion
  <2> QED
    BY <2>5 DEF Solvable, Solution
<1>9. Breaks(t, g)
  BY <1>4, <1>8 DEF Breaks
<1> DEFINE Upto(f, i, x) == IF x = 0 THEN <<From(t, i)>> ELSE <<Chomp(SubSeq(t, i, x - 1))>> \o f[x + 1]
           Def(f) == f = [i \in D |-> IF i > Len(t) THEN <<>>
                                      ELSE Upto(f, i, FirstOf({j \in i..Len(t) : t[j] = "n"}))]
<1>10. Def(g)
  <2>1. \A i \in D : g[i] = IF i > Len(t) THEN <<>> ELSE Upto(g, i, FirstOf({j \in i..Len(t) : t[j] = "n"}))
    BY <1>9 DEF Breaks, LineFrom, EndOfLine
  <2> QED
    BY <1>8, <2>1
<1>11. PICK f : Def(f) /\ Lines(t) = f[1]
  BY <1>10 DEF Lines
<1>12. Breaks(t, f)
  <2>1. \A i \in D : f[i] = IF i > Len(t) THEN <<>> ELSE Upto(f, i, FirstOf({j \in i..Len(t) : t[j] = "n"}))
    BY <1>11
  <2> QED
    BY <2>1 DEF Breaks, LineFrom, EndOfLine
<1>13. DOMAIN f = D
  BY <1>11
<1> HIDE DEF Def
<1> DEFINE S == {i \in D : f[i] \in V}
<1>14. ASSUME NEW i \in D, \A j \in D : rank[j] < rank[i] => j \in S PROVE i \in S
  <2> SUFFICES LineFrom(t, i, f) \in V
    BY <1>12 DEF Breaks
  <2> DEFINE h == [j \in D |-> IF j \in S THEN f[j] ELSE <<>>]
  <2>1. h \in [D -> V]
    <3>1. <<>> \in V
      OBVIOUS
    <3> QED
      BY <3>1
  <2>2. i <= n /\ EndOfLine(t, i) # 0 => h[EndOfLine(t, i) + 1] = f[EndOfLine(t, i) + 1]
    <3> SUFFICES ASSUME i <= n, EndOfLine(t, i) # 0
                 PROVE  h[EndOfLine(t, i) + 1] = f[EndOfLine(t, i) + 1]
      OBVIOUS
    <3> DEFINE j == EndOfLine(t, i) + 1
    <3>1. j \in D /\ j > i
      BY <1>1, <1>2
    <3> HIDE DEF j
    <3>2. rank[j] < rank[i]
      BY <1>1, <3>1
    <3>3. j \in S
      BY <1>14, <3>1, <3>2
    <3> QED
      BY <3>1, <3>3 DEF j
  <2> HIDE DEF h, S
  <2>3. LineFrom(t, i, f) = LineFrom(t, i, h)
    BY <1>1, <2>2 DEF LineFrom
  <2> QED
    BY <1>3, <2>1, <2>3
<1> HIDE DEF S, rank, D, V
<1>15. rank \in [D -> Nat]
  BY <1>7
<1>16. \A i \in D : (\A j \in D : rank[j] < rank[i] => j \in S) => i \in S
  BY <1>14
<1>17. D \subseteq S
  BY <1>15, <1>16, RankInduction
<1>18. \A i \in D : f[i] \in V
  BY <1>17 DEF S
<1>19. f \in [D -> V]
  <2>1. f = [i \in D |-> f[i]]
    BY <1>11 DEF Def, D
  <2> QED
    BY <1>18, <2>1
<1> QED
  BY <1>11, <1>12, <1>19 DEF D, V

(* The lines of a text are texts over the same atoms.                      *)
LEMMA LinesType ==
  ASSUME NEW A, NEW t \in Seq(A)
  PROVE  Lines(t) \in Seq(Seq(A))
<1>1. PICK f \in [1..(Len(t) + 1) -> Seq(Seq(A))] : Breaks(t, f) /\ Lines(t) = f[1]
  BY LinesUnfold
<1>2. 1 \in 1..(Len(t) + 1)
  OBVIOUS
<1> QED
  BY <1>1, <1>2

(* A text is its beginning up to a place, the atom there, and the rest.    *)
LEMMA FromSplits ==
  ASSUME NEW A, NEW t \in Seq(A), NEW i \in 1..Len(t), NEW k \in i..Len(t)
  PROVE  /\ SubSeq(t, i, k - 1) \in Seq(A) /\ From(t, k + 1) \in Seq(A)
         /\ From(t, i) = SubSeq(t, i, k - 1) \o (<<t[k]>> \o From(t, k + 1))
<1> DEFINE n == Len(t)
<1>1. n \in Nat /\ \A j \in 1..n : t[j] \in A
  OBVIOUS
<1>2. /\ i \in 1..(n + 1) /\ k - 1 \in (i - 1)..n /\ n \in (k - 1)..n
      /\ k \in 1..n /\ n \in k..n /\ (k - 1) + 1 = k
  BY <1>1
<1>3. SubSeq(t, i, k - 1) \o SubSeq(t, (k - 1) + 1, n) = SubSeq(t, i, n)
  BY <1>2, ConcatAdjacentSubSeq
<1>4. SubSeq(t, k, n) = <<t[k]>> \o SubSeq(t, k + 1, n)
  BY <1>2, SubSeqRecursiveFirst
<1>5. SubSeq(t, i, k - 1) \in Seq(A) /\ SubSeq(t, k + 1, n) \in Seq(A)
  BY <1>1, <1>2, SubSeqProperties
<1> QED
  BY <1>2, <1>3, <1>4, <1>5 DEF From

(* The lines hold all of the text but its breaks.                          *)
LEMMA LinesKeep ==
  ASSUME NEW A, NEW t \in Seq(A), NEW S, "n" \notin S, "r" \notin S
  PROVE  Kept(FlattenSeq(Lines(t)), S) = Kept(t, S)
<1> DEFINE n == Len(t)
           D == 1..(n + 1)
           V == Seq(Seq(A))
           rank == [i \in D |-> n + 1 - i]
<1>1. PICK f \in [D -> V] : Breaks(t, f) /\ Lines(t) = f[1]
  BY LinesUnfold
<1>2. n \in Nat /\ \A i \in 1..n : t[i] \in A
  OBVIOUS
<1> DEFINE R == {i \in D : Kept(FlattenSeq(f[i]), S) = Kept(From(t, i), S)}
<1>3. ASSUME NEW i \in D, \A j \in D : rank[j] < rank[i] => j \in R PROVE i \in R
  <2>1. f[i] = LineFrom(t, i, f)
    BY <1>1 DEF Breaks
  <2>2. CASE i > n
    <3>1. f[i] = <<>> /\ From(t, i) = <<>>
      BY <1>2, <2>1, <2>2, SubSeqEmpty DEF LineFrom, From
    <3> QED
      BY <3>1, FlattenNil
  <2>3. CASE i <= n /\ EndOfLine(t, i) = 0
    <3>1. f[i] = <<From(t, i)>>
      BY <1>2, <2>1, <2>3 DEF LineFrom
    <3>2. From(t, i) \in Seq(A)
      BY FromRest
    <3> QED
      BY <3>1, <3>2, FlattenOne
  <2>4. CASE i <= n /\ EndOfLine(t, i) # 0
    <3> DEFINE k == EndOfLine(t, i)
               l == SubSeq(t, i, k - 1)
               c == Chomp(l)
               g == FlattenSeq(f[k + 1])
               u == From(t, k + 1)
    <3>1. k \in i..n /\ t[k] = "n" /\ i \in 1..n
      BY <1>2, <2>4, EndOfLinePlace
    <3>2. f[i] = <<c>> \o f[k + 1]
      BY <1>2, <2>1, <2>4 DEF LineFrom
    <3>3. k + 1 \in D /\ f[k + 1] \in V
      BY <1>1, <1>2, <3>1
    <3>4. rank[k + 1] < rank[i]
      BY <1>2, <3>1, <3>3
    <3> HIDE DEF k
    <3>5. l \in Seq(A) /\ u \in Seq(A) /\ From(t, i) = l \o (<<"n">> \o u)
      BY <3>1, FromSplits
    <3>6. c \in Seq(A) /\ (c = l \/ l = c \o <<"r">>)
      BY <3>5, ChompType
    <3>7. Kept(g, S) = Kept(u, S) /\ g \in Seq(A)
      BY <1>3, <3>3, <3>4, FlattenType
    <3>8. FlattenSeq(f[i]) = c \o g
      <4>1. <<c>> \in V
        BY <3>6
      <4> HIDE DEF V
      <4>2. FlattenSeq(<<c>> \o f[k + 1]) = FlattenSeq(<<c>>) \o FlattenSeq(f[k + 1])
        BY <3>3, <4>1, FlattenConcat DEF V
      <4>3. FlattenSeq(<<c>>) = c
        BY <3>6, FlattenOne
      <4> QED
        BY <3>2, <4>2, <4>3
    <3> HIDE DEF l, c, g, u
    <3>9. Kept(c, S) = Kept(l, S)
      <4>1. CASE c = l
        BY <4>1
      <4>2. CASE c # l
        <5>1. l = c \o <<"r">>
          BY <3>6, <4>2
        <5>2. <<"r">> \in Seq(A \cup {"r"}) /\ c \in Seq(A \cup {"r"})
          BY <3>6
        <5>3. Kept(c \o <<"r">>, S) = Kept(c, S) \o Kept(<<"r">>, S)
          <6> DEFINE e == <<"r">>
                     B == A \cup {"r"}
          <6>1. e \in Seq(B) /\ c \in Seq(B)
            BY <5>2
          <6> HIDE DEF e, B
          <6>2. Kept(c \o e, S) = Kept(c, S) \o Kept(e, S)
            BY <6>1, KeptConcat
          <6> QED
            BY <6>2 DEF e
        <5>4. Kept(<<"r">>, S) = <<>> /\ Kept(c, S) \in Seq(A)
          BY <3>6, KeptSkips, KeptType
        <5> QED
          BY <5>1, <5>3, <5>4, ConcatEmptySeq
      <4> QED
        BY <4>1, <4>2
    <3>10. Kept(c \o g, S) = Kept(c, S) \o Kept(g, S)
      BY <3>6, <3>7, KeptConcat
    <3>11. Kept(l \o (<<"n">> \o u), S) = Kept(l, S) \o Kept(u, S)
      <4>1. <<"n">> \in Seq(A)
        <5>1. "n" \in A
          BY <1>2, <3>1
        <5> QED
          BY <5>1
      <4>2. <<"n">> \o u \in Seq(A)
        BY <3>5, <4>1
      <4>3. Kept(<<"n">> \o u, S) = Kept(<<"n">>, S) \o Kept(u, S)
        BY <3>5, <4>1, KeptConcat
      <4>4. Kept(<<"n">>, S) = <<>> /\ Kept(u, S) \in Seq(A)
        BY <3>5, KeptSkips, KeptType
      <4>5. Kept(l \o (<<"n">> \o u), S) = Kept(l, S) \o Kept(<<"n">> \o u, S)
        BY <3>5, <4>2, KeptConcat
      <4> QED
        BY <4>3, <4>4, <4>5, ConcatEmptySeq
    <3> QED
      BY <3>5, <3>7, <3>8, <3>9, <3>10, <3>11
  <2> QED
    BY <1>2, <2>2, <2>3, <2>4
<1>4. 1 \in D
  BY <1>2
<1>9. rank \in [D -> Nat]
  BY <1>2
<1>5. \A i \in D : (\A j \in D : rank[j] < rank[i] => j \in R) => i \in R
  BY <1>3
<1> HIDE DEF D, R, rank
<1>6. D \subseteq R
  BY <1>5, <1>9, RankInduction
<1>7. Kept(FlattenSeq(f[1]), S) = Kept(From(t, 1), S)
  BY <1>4, <1>6 DEF R
<1>8. From(t, 1) = t
  BY SubSeqFull DEF From
<1> QED
  BY <1>1, <1>7, <1>8

-----------------------------------------------------------------------------
(* Join.                                                                   *)
Joined(ls) == [i \in DOMAIN ls |-> IF i = 1 THEN ls[i] ELSE <<"n">> \o ls[i]]

(* So is what they are joined to.                                          *)
LEMMA JoinType ==
  ASSUME NEW A, "n" \in A, NEW ls \in Seq(Seq(A))
  PROVE  Joined(ls) \in Seq(Seq(A)) /\ Join(ls) = FlattenSeq(Joined(ls)) /\ Join(ls) \in Seq(A)
<1>1. <<"n">> \in Seq(A)
  OBVIOUS
<1>2. \A i \in 1..Len(ls) : ls[i] \in Seq(A)
  OBVIOUS
<1>3. \A i \in 1..Len(ls) : <<"n">> \o ls[i] \in Seq(A)
  BY <1>1, <1>2, ConcatProperties
<1>4. Joined(ls) \in Seq(Seq(A))
  <2> DEFINE V == Seq(A)
  <2>1. \A i \in 1..Len(ls) : Joined(ls)[i] \in V
    BY <1>2, <1>3 DEF Joined
  <2>2. Joined(ls) = [i \in 1..Len(ls) |-> Joined(ls)[i]] /\ Len(ls) \in Nat
    BY DEF Joined
  <2> HIDE DEF V
  <2>3. [i \in 1..Len(ls) |-> Joined(ls)[i]] \in Seq(V)
    BY <2>1, <2>2
  <2> QED
    BY <2>2, <2>3 DEF V
<1>5. Join(ls) = FlattenSeq(Joined(ls))
  BY DEF Join, Joined
<1> QED
  BY <1>4, <1>5, FlattenType

(* Joining lines adds line feeds only.                                     *)
LEMMA JoinKeeps ==
  ASSUME NEW A, "n" \in A, NEW ls \in Seq(Seq(A)), NEW S, "n" \notin S
  PROVE  Kept(Join(ls), S) = Kept(FlattenSeq(ls), S)
<1>1. Joined(ls) \in Seq(Seq(A)) /\ Join(ls) = FlattenSeq(Joined(ls))
  BY JoinType
<1>2. Kept(FlattenSeq(Joined(ls)), S) = FlattenSeq(EachKept(Joined(ls), S))
  BY <1>1, KeptFlatten
<1>3. Kept(FlattenSeq(ls), S) = FlattenSeq(EachKept(ls, S))
  BY KeptFlatten
<1>4. ASSUME NEW i \in DOMAIN ls PROVE Kept(Joined(ls)[i], S) = Kept(ls[i], S)
  <2>1. Joined(ls)[i] = IF i = 1 THEN ls[i] ELSE <<"n">> \o ls[i]
    BY DEF Joined
  <2>2. ls[i] \in Seq(A) /\ <<"n">> \in Seq(A)
    OBVIOUS
  <2>3. Kept(<<"n">> \o ls[i], S) = Kept(<<"n">>, S) \o Kept(ls[i], S)
    BY <2>2, KeptConcat
  <2>4. Kept(<<"n">>, S) = <<>> /\ Kept(ls[i], S) \in Seq(A)
    BY <2>2, KeptSkips, KeptType
  <2> QED
    BY <2>1, <2>3, <2>4, ConcatEmptySeq
<1>5. DOMAIN Joined(ls) = DOMAIN ls
  BY DEF Joined
<1>6. EachKept(Joined(ls), S) = EachKept(ls, S)
  BY <1>4, <1>5 DEF EachKept
<1> QED
  BY <1>1, <1>2, <1>3, <1>6

-----------------------------------------------------------------------------
(* Trim.                                                                   *)
LEMMA LastMember ==
  ASSUME NEW n \in Nat, NEW S \in SUBSET (1..n), S # {}
  PROVE  Max(S) \in S /\ \A y \in S : y <= Max(S)
<1> DEFINE R == {n - x : x \in S}
<1>1. R \in SUBSET Nat /\ R # {}
  <2>1. \A x \in S : n - x \in Nat
    OBVIOUS
  <2> QED
    BY <2>1
<1>2. PICK m \in R : \A y \in R : m <= y
  BY <1>1, LeastMember
<1>3. PICK x \in S : m = n - x
  BY <1>2
<1>4. \A y \in S : y <= x
  <2> SUFFICES ASSUME NEW y \in S PROVE y <= x
    OBVIOUS
  <2>1. m <= n - y
    BY <1>2
  <2> QED
    BY <1>3, <2>1
<1>5. \E z \in S : \A y \in S : z >= y
  BY <1>4
<1> QED
  BY <1>5 DEF Max

(* Trimming takes away blanks only.                                        *)
LEMMA TrimKeeps ==
  ASSUME NEW A, NEW t \in Seq(A), NEW S, S \cap Blanks = {}
  PROVE  Trim(t) \in Seq(A) /\ Kept(Trim(t), S) = Kept(t, S)
<1> DEFINE solid == {i \in DOMAIN t : t[i] \notin Blanks}
           n == Len(t)
<1>1. n \in Nat /\ DOMAIN t = 1..n /\ \A i \in 1..n : t[i] \in A
  OBVIOUS
<1>2. CASE solid = {}
  <2>1. \A i \in 1..n : t[i] \notin S
    BY <1>1, <1>2
  <2>2. Kept(t, S) = <<>>
    BY <2>1, KeptNone
  <2>3. Trim(t) = <<>>
    BY <1>2 DEF Trim
  <2>4. <<>> \in Seq(A)
    OBVIOUS
  <2> QED
    BY <2>2, <2>3, <2>4, KeptNil
<1>3. CASE solid # {}
  <2> DEFINE a == Min(solid)
             b == Max(solid)
             x == SubSeq(t, 1, a - 1)
             y == SubSeq(t, a, b)
             z == SubSeq(t, b + 1, n)
  <2>1. solid \in SUBSET (1..n)
    BY <1>1
  <2>2. a \in solid /\ \A i \in solid : a <= i
    <3>1. solid \in SUBSET (Nat \ {0})
      BY <2>1
    <3> HIDE DEF solid
    <3>2. FirstOf(solid) \in solid /\ \A i \in solid : FirstOf(solid) <= i
      BY <1>3, <3>1, FirstOfPlaces
    <3> QED
      BY <1>3, <3>2 DEF FirstOf
  <2>3. b \in solid /\ \A i \in solid : i <= b
    <3> HIDE DEF solid
    <3> QED
      BY <1>1, <1>3, <2>1, LastMember
  <2>4. Trim(t) = y
    BY <1>3 DEF Trim
  <2>5. a \in 1..n /\ b \in a..n
    BY <1>1, <2>2, <2>3
  <2> HIDE DEF a, b
  <2>6. \A i \in 1..n : i < a \/ b < i => t[i] \in Blanks
    <3> SUFFICES ASSUME NEW i \in 1..n, i < a \/ b < i, t[i] \notin Blanks PROVE FALSE
      OBVIOUS
    <3>1. i \in solid
      BY <1>1
    <3>2. a <= i /\ i <= b
      BY <2>2, <2>3, <3>1
    <3> QED
      BY <1>1, <2>5, <3>2
  <2>0. a \in Int /\ b \in Int /\ 1 <= a /\ a <= b /\ b <= n /\ n \in Int
    BY <1>1, <2>5
  <2> HIDE DEF solid, n
  <2>7. x \in Seq(A) /\ Len(x) = a - 1 /\ \A i \in 1..(a - 1) : x[i] = t[i]
    BY <1>1, <2>5, SubSeqProperties
  <2>8. y \in Seq(A)
    BY <1>1, <2>5, SubSeqProperties
  <2>9. z \in Seq(A) /\ Len(z) = n - b /\ \A i \in 1..(n - b) : z[i] = t[b + i]
    <3> DEFINE c == b + 1
    <3>1. c \in Int /\ n \in Int /\ \A i \in c..n : t[i] \in A
      BY <1>1, <2>5
    <3> HIDE DEF c
    <3>2. /\ SubSeq(t, c, n) \in Seq(A) /\ Len(SubSeq(t, c, n)) = IF c <= n THEN n - c + 1 ELSE 0
          /\ \A i \in 1..(n - c + 1) : SubSeq(t, c, n)[i] = t[c + i - 1]
      BY <3>1, SubSeqProperties
    <3>3. n - c + 1 = n - b /\ \A i \in 1..(n - b) : c + i - 1 = b + i
      BY <1>1, <2>5 DEF c
    <3>4. (IF c <= n THEN n - c + 1 ELSE 0) = n - b
      BY <2>0 DEF c
    <3> QED
      BY <3>2, <3>3, <3>4 DEF c
  <2>10. t = x \o (y \o z)
    <3>1. SubSeq(t, 1, a - 1) \o SubSeq(t, (a - 1) + 1, n) = SubSeq(t, 1, n)
      <4>1. 1 \in 1..(n + 1) /\ a - 1 \in (1 - 1)..n /\ n \in (a - 1)..n
        BY <1>1, <2>5
      <4> QED
        BY <4>1, ConcatAdjacentSubSeq DEF n
    <3>2. SubSeq(t, a, b) \o SubSeq(t, b + 1, n) = SubSeq(t, a, n)
      <4>1. a \in 1..(n + 1) /\ b \in (a - 1)..n /\ n \in b..n
        BY <1>1, <2>5
      <4> QED
        BY <4>1, ConcatAdjacentSubSeq DEF n
    <3>3. (a - 1) + 1 = a
      BY <2>5
    <3> QED
      BY <3>1, <3>2, <3>3, SubSeqFull DEF n
  <2>11. Kept(x, S) = <<>>
    <3>1. \A i \in 1..Len(x) : x[i] \notin S
      BY <1>1, <2>5, <2>6, <2>7
    <3> QED
      BY <2>7, <3>1, KeptNone
  <2>12. Kept(z, S) = <<>>
    <3>1. ASSUME NEW i \in 1..Len(z) PROVE z[i] \notin S
      <4>1. z[i] = t[b + i] /\ b + i \in 1..n /\ b < b + i
        <5>1. Len(z) = n - b
          BY <2>9
        <5> HIDE DEF z
        <5> QED
          BY <2>0, <2>9, <5>1
      <4> DEFINE j == b + i
      <4> HIDE DEF j
      <4>2. t[j] \in Blanks
        BY <2>6, <4>1 DEF j
      <4> QED
        BY <4>1, <4>2 DEF j
    <3> QED
      BY <2>9, <3>1, KeptNone
  <2> HIDE DEF x, y, z
  <2>13. Kept(y \o z, S) = Kept(y, S) \o Kept(z, S) /\ y \o z \in Seq(A)
    BY <2>8, <2>9, KeptConcat
  <2>14. Kept(x \o (y \o z), S) = Kept(x, S) \o Kept(y \o z, S)
    BY <2>7, <2>13, KeptConcat
  <2>15. Kept(y, S) \in Seq(A)
    BY <2>8, KeptType
  <2> QED
    BY <2>4, <2>8, <2>10, <2>11, <2>12, <2>13, <2>14, <2>15, ConcatEmptySeq
<1> QED
  BY <1>2, <1>3

(* What is kept depends only on which of the items are wanted.             *)
LEMMA KeptSame ==
  ASSUME NEW A, NEW t \in Seq(A), NEW S, NEW T, \A i \in 1..Len(t) : t[i] \in S <=> t[i] \in T
  PROVE  Kept(t, S) = Kept(t, T)
<1>1. DOMAIN t = 1..Len(t)
  OBVIOUS
<1>2. [i \in DOMAIN t |-> IF t[i] \in S THEN <<t[i]>> ELSE <<>>]
        = [i \in DOMAIN t |-> IF t[i] \in T THEN <<t[i]>> ELSE <<>>]
  BY <1>1
<1> QED
  BY <1>2 DEF Kept

(* A wanted item is among those that are kept.                             *)
LEMMA KeptHas ==
  ASSUME NEW A, NEW S, NEW t \in Seq(A), NEW i \in 1..Len(t), t[i] \in S
  PROVE  t[i] \in Range(Kept(t, S))
<1> DEFINE l == SubSeq(t, 1, i - 1)
           r == From(t, i + 1)
           one == <<t[i]>>
<1>a. 1 \in 1..Len(t) /\ i \in 1..Len(t) /\ 1 \in 1..(Len(t) + 1)
  OBVIOUS
<1>b. /\ l \in Seq(A) /\ r \in Seq(A)
      /\ From(t, 1) = l \o (one \o r)
  BY <1>a, FromSplits
<1>1. l \in Seq(A) /\ one \in Seq(A) /\ r \in Seq(A) /\ one \o r \in Seq(A)
  BY <1>b, OneType, ConcatShape
<1>2. t = l \o (one \o r)
  <2>1. From(t, 1) = t
    BY DEF From
  <2> QED
    BY <2>1, <1>b
<1> HIDE DEF l, r
<1>3. Kept(t, S) = Kept(l, S) \o (Kept(one, S) \o Kept(r, S))
  <2>1. Kept(t, S) = Kept(l, S) \o Kept(one \o r, S)
    BY <1>1, <1>2, KeptConcat
  <2>2. Kept(one \o r, S) = Kept(one, S) \o Kept(r, S)
    BY <1>1, KeptConcat
  <2> QED
    BY <2>1, <2>2
<1>4. Kept(one, S) = one
  <2>1. \A k \in 1..Len(one) : one[k] \in S
    OBVIOUS
  <2> QED
    BY <1>1, <2>1, KeptAll
<1>5. Kept(l, S) \in Seq(A) /\ Kept(r, S) \in Seq(A)
  BY <1>1, KeptType
<1> DEFINE u == Kept(l, S)
           v == Kept(r, S)
<1>6. u \in Seq(A) /\ v \in Seq(A) /\ Kept(t, S) = u \o (one \o v)
  BY <1>3, <1>4, <1>5
<1> HIDE DEF u, v, l, r
<1>7. Len(u) + 1 \in DOMAIN (u \o (one \o v)) /\ (u \o (one \o v))[Len(u) + 1] = t[i]
  BY <1>6, <1>1
<1> QED
  BY <1>6, <1>7 DEF Range

(* An item of one of the sequences is in all of them together.             *)
LEMMA FlattenHas ==
  ASSUME NEW A, NEW ss \in Seq(Seq(A)), NEW i \in 1..Len(ss), NEW k \in 1..Len(ss[i])
  PROVE  ss[i][k] \in Range(FlattenSeq(ss))
<1> DEFINE B == Seq(A)
           l == SubSeq(ss, 1, i - 1)
           r == From(ss, i + 1)
           one == <<ss[i]>>
<1> HIDE DEF B
<1>0. ss \in Seq(B) /\ ss[i] \in B
  BY DEF B
<1>a. 1 \in 1..Len(ss) /\ i \in 1..Len(ss) /\ 1 \in 1..(Len(ss) + 1)
  OBVIOUS
<1>b. /\ l \in Seq(B) /\ r \in Seq(B)
      /\ From(ss, 1) = l \o (one \o r)
  BY <1>0, <1>a, FromSplits
<1>1. l \in Seq(B) /\ one \in Seq(B) /\ r \in Seq(B) /\ one \o r \in Seq(B)
  BY <1>0, <1>b, OneType, ConcatShape
<1>2. ss = l \o (one \o r)
  <2>1. From(ss, 1) = ss
    BY <1>0 DEF From
  <2> QED
    BY <2>1, <1>b
<1> DEFINE u == FlattenSeq(l)
           v == FlattenSeq(r)
           m == ss[i]
<1> HIDE DEF l, r, one
<1>3. FlattenSeq(ss) = u \o (FlattenSeq(one) \o v)
  <2>1. FlattenSeq(ss) = FlattenSeq(l) \o FlattenSeq(one \o r)
    BY <1>1, <1>2, FlattenConcat DEF B
  <2>2. FlattenSeq(one \o r) = FlattenSeq(one) \o FlattenSeq(r)
    BY <1>1, FlattenConcat DEF B
  <2> QED
    BY <2>1, <2>2
<1>4. FlattenSeq(one) = m
  BY <1>0, FlattenOne DEF B, one
<1>5. u \in Seq(A) /\ v \in Seq(A) /\ m \in Seq(A)
  BY <1>0, <1>1, FlattenType DEF B
<1>6. FlattenSeq(ss) = u \o (m \o v)
  BY <1>3, <1>4
<1>7. k \in 1..Len(m)
  OBVIOUS
<1> HIDE DEF u, v, m
<1>8. Len(u) + k \in DOMAIN (u \o (m \o v)) /\ (u \o (m \o v))[Len(u) + k] = m[k]
  BY <1>5, <1>7
<1>9. m[k] \in Range(FlattenSeq(ss))
  BY <1>6, <1>8 DEF Range
<1> QED
  BY <1>9 DEF m

(* Every item that is kept is an item.                                     *)
LEMMA KeptAreItems ==
  ASSUME NEW A, NEW S, NEW t \in Seq(A)
  PROVE  /\ Kept(t, S) \in Seq(A \cap S)
         /\ \A k \in 1..Len(Kept(t, S)) : Kept(t, S)[k] \in Range(t) /\ Kept(t, S)[k] \in S
<1>1. t \in Seq(Range(t))
  BY DEF Range
<1>2. Kept(t, S) \in Seq(A \cap S) /\ Kept(t, S) \in Seq(Range(t) \cap S)
  BY <1>1, KeptType
<1> QED
  BY <1>2

(* To keep twice is to keep what is wanted both times.                     *)
LEMMA KeptKept ==
  ASSUME NEW A, NEW S, NEW T, NEW t \in Seq(A)
  PROVE  Kept(Kept(t, S), T) = Kept(t, S \cap T)
<1> DEFINE Good == {s \in Seq(A) : Kept(Kept(s, S), T) = Kept(s, S \cap T)}
<1>1. <<>> \in Good
  BY KeptNil
<1>2. ASSUME NEW s \in Seq(A), NEW a \in A, s \in Good PROVE Append(s, a) \in Good
  <2> DEFINE u == Kept(s, S)
             p == Piece(a, S)
  <2>1. u \in Seq(A) /\ p \in Seq(A)
    BY KeptType, PieceType
  <2>2. Kept(Append(s, a), S) = u \o p /\ Kept(Append(s, a), S \cap T) = Kept(s, S \cap T) \o Piece(a, S \cap T)
    BY KeptAppend
  <2>3. Kept(u \o p, T) = Kept(u, T) \o Kept(p, T)
    BY <2>1, KeptConcat
  <2>4. Kept(p, T) = Piece(a, S \cap T)
    <3>1. CASE a \in S
      <4>1. p = Append(<<>>, a)
        BY <3>1 DEF Piece
      <4>2. Kept(p, T) = <<>> \o Piece(a, T)
        <5>1. <<>> \in Seq(A)
          OBVIOUS
        <5>2. Kept(Append(<<>>, a), T) = Kept(<<>>, T) \o Piece(a, T)
          BY <5>1, KeptAppend
        <5> QED
          BY <4>1, <5>2, KeptNil
      <4>3. Piece(a, T) \in Seq(A) /\ Piece(a, T) = Piece(a, S \cap T)
        BY <3>1, PieceType DEF Piece
      <4> QED
        BY <4>2, <4>3
    <3>2. CASE a \notin S
      BY <3>2, KeptNil DEF Piece
    <3> QED
      BY <3>1, <3>2
  <2>5. Append(s, a) \in Seq(A)
    OBVIOUS
  <2> HIDE DEF u, p
  <2> QED
    BY <1>2, <2>2, <2>3, <2>4, <2>5 DEF u, p
<1> HIDE DEF Good
<1>3. Seq(A) \subseteq Good
  BY <1>1, <1>2, AppendInduction
<1> QED
  BY <1>3 DEF Good

(* Pieces of one item each join to the items.                              *)
LEMMA FlattenSingles ==
  ASSUME NEW A, NEW t \in Seq(A)
  PROVE  FlattenSeq([i \in DOMAIN t |-> <<t[i]>>]) = t
<1>1. DOMAIN t = 1..Len(t)
  OBVIOUS
<1>2. [i \in DOMAIN t |-> <<t[i]>>] = [i \in DOMAIN t |-> IF t[i] \in A THEN <<t[i]>> ELSE <<>>]
  BY <1>1
<1>3. \A i \in 1..Len(t) : t[i] \in A
  OBVIOUS
<1>4. Kept(t, A) = t
  BY <1>3, KeptAll
<1> QED
  BY <1>2, <1>4 DEF Kept

-----------------------------------------------------------------------------
(* A function that maps one set into another.                              *)
Maps(f, A, B) == f \in [A -> B]

(* What it makes of an item.                                               *)
LEMMA MapsOne ==
  ASSUME NEW A, NEW B, NEW f, Maps(f, A, B), NEW a \in A
  PROVE  f[a] \in B
BY DEF Maps

(* What it makes of a sequence, place by place.                            *)
LEMMA MapsEach ==
  ASSUME NEW A, NEW B, NEW f, Maps(f, A, B), NEW t \in Seq(A)
  PROVE  Each(t, f) \in Seq(B) /\ Len(Each(t, f)) = Len(t) /\ \A i \in 1..Len(t) : Each(t, f)[i] = f[t[i]]
<1>1. \A i \in 1..Len(t) : t[i] \in A
  OBVIOUS
<1>2. \A i \in 1..Len(t) : f[t[i]] \in B
  BY <1>1, MapsOne
<1> QED
  BY <1>2 DEF Each

(* A sequence is two others in a row.                                      *)
Joins(z, x, y) == z = x \o y

(* Two sequences in a row, taken place by place.                           *)
LEMMA EachConcat ==
  ASSUME NEW A, NEW B, NEW s \in Seq(A), NEW t \in Seq(A), NEW f, Maps(f, A, B)
  PROVE  Joins(Each(s \o t, f), Each(s, f), Each(t, f))
<1> DEFINE x == Each(s, f)
           y == Each(t, f)
           z == Each(s \o t, f)
<1>1. s \o t \in Seq(A) /\ Len(s \o t) = Len(s) + Len(t) /\ Len(s) \in Nat /\ Len(t) \in Nat
  BY ConcatShape
<1>2. /\ x \in Seq(B) /\ Len(x) = Len(s) /\ y \in Seq(B) /\ Len(y) = Len(t)
      /\ \A i \in 1..Len(s) : x[i] = f[s[i]]
      /\ \A i \in 1..Len(t) : y[i] = f[t[i]]
  BY MapsEach
<1>3. /\ z \in Seq(B) /\ Len(z) = Len(s) + Len(t)
      /\ \A i \in 1..(Len(s) + Len(t)) : z[i] = f[(s \o t)[i]]
  <2> DEFINE u == s \o t
  <2>1. u \in Seq(A) /\ Len(u) = Len(s) + Len(t)
    BY <1>1
  <2> HIDE DEF u, x, y, z
  <2>2. u \in Seq(A)
    BY <2>1
  <2>3. Each(u, f) \in Seq(B)
    BY <2>2, MapsEach
  <2>4. Len(Each(u, f)) = Len(u)
    BY <2>2, MapsEach
  <2>5. \A i \in 1..Len(u) : Each(u, f)[i] = f[u[i]]
    BY <2>2, MapsEach
  <2> QED
    BY <2>1, <2>3, <2>4, <2>5 DEF u, z
<1> HIDE DEF x, y, z
<1>4. x \o y \in Seq(B) /\ Len(x \o y) = Len(s) + Len(t)
  <2>1. x \in Seq(B) /\ y \in Seq(B)
    BY <1>2
  <2>2. x \o y \in Seq(B) /\ Len(x \o y) = Len(x) + Len(y)
    BY <2>1, ConcatShape
  <2> QED
    BY <1>2, <2>2
<1>5. ASSUME NEW i \in 1..(Len(s) + Len(t)) PROVE z[i] = (x \o y)[i]
  <2>1. CASE i \in 1..Len(s)
    <3>1. (s \o t)[i] = s[i]
      BY <1>1, <2>1
    <3>2. (x \o y)[i] = x[i]
      BY <1>2, <2>1
    <3> QED
      BY <1>2, <1>3, <2>1, <3>1, <3>2
  <2>2. CASE i \notin 1..Len(s)
    <3> DEFINE k == i - Len(s)
    <3>1. k \in 1..Len(t) /\ i = Len(s) + k
      BY <1>1, <2>2
    <3>2. (s \o t)[i] = t[k]
      BY <1>1, <2>2
    <3>3. (x \o y)[i] = y[k]
      BY <1>1, <1>2, <2>2
    <3> HIDE DEF k
    <3> QED
      BY <1>2, <1>3, <3>1, <3>2, <3>3
  <2> QED
    BY <2>1, <2>2
<1>6. z = x \o y
  BY <1>3, <1>4, <1>5, SeqEqual
<1> QED
  BY <1>6 DEF x, y, z, Joins

(* What every item of a sequence becomes, in a row.                        *)
Spread(t, f) == FlattenSeq(Each(t, f))

(* Of none it is none.                                                     *)
LEMMA SpreadNil == \A f : Spread(<<>>, f) = <<>>
<1>1. \A f : Each(<<>>, f) = <<>>
  BY DEF Each
<1> QED
  BY <1>1, FlattenNil DEF Spread

(* Of one item it is what that becomes.                                    *)
LEMMA SpreadOne ==
  ASSUME NEW A, NEW B, NEW f, Maps(f, A, Seq(B)), NEW a \in A
  PROVE  Spread(<<a>>, f) = f[a] /\ f[a] \in Seq(B)
<1>1. Each(<<a>>, f) = <<f[a]>>
  BY DEF Each
<1>2. f[a] \in Seq(B)
  BY MapsOne
<1> QED
  BY <1>1, <1>2, FlattenOne DEF Spread

(* It is a sequence.                                                       *)
LEMMA SpreadType ==
  ASSUME NEW A, NEW B, NEW f, Maps(f, A, Seq(B)), NEW s \in Seq(A)
  PROVE  Spread(s, f) \in Seq(B) /\ Each(s, f) \in Seq(Seq(B))
<1> DEFINE C == Seq(B)
<1>0. Maps(f, A, C)
  OBVIOUS
<1> HIDE DEF C
<1>1. Each(s, f) \in Seq(C)
  BY <1>0, MapsEach
<1>2. Each(s, f) \in Seq(Seq(B))
  BY <1>1 DEF C
<1> QED
  BY <1>2, FlattenType DEF Spread

(* Of two in a row it is what each becomes, in a row.                      *)
LEMMA SpreadConcat ==
  ASSUME NEW A, NEW B, NEW f, Maps(f, A, Seq(B)), NEW s \in Seq(A), NEW t \in Seq(A)
  PROVE  Joins(Spread(s \o t, f), Spread(s, f), Spread(t, f))
<1> DEFINE C == Seq(B)
           x == Each(s, f)
           y == Each(t, f)
<1>0. Maps(f, A, C) /\ x \in Seq(Seq(B)) /\ y \in Seq(Seq(B))
  BY SpreadType
<1> HIDE DEF C, x, y
<1>1. Joins(Each(s \o t, f), Each(s, f), Each(t, f))
  BY <1>0, EachConcat
<1>2. Each(s \o t, f) = x \o y
  BY <1>1 DEF Joins, x, y
<1>3. FlattenSeq(x \o y) = FlattenSeq(x) \o FlattenSeq(y)
  BY <1>0, FlattenConcat
<1> QED
  BY <1>2, <1>3 DEF Spread, Joins, x, y

(* Two sequences whose items become the same in their order become the     *)
(* same.                                                                   *)
LEMMA SpreadSame ==
  ASSUME NEW s, NEW t, NEW f, NEW g, NEW n \in Nat, DOMAIN s = 1..n, DOMAIN t = 1..n,
         \A i \in 1..n : f[s[i]] = g[t[i]]
  PROVE  Spread(s, f) = Spread(t, g)
<1>1. [i \in DOMAIN s |-> f[s[i]]] = [i \in DOMAIN t |-> g[t[i]]]
  OBVIOUS
<1> QED
  BY <1>1 DEF Spread, Each

(* To take the items of what is spread is to spread the taken items.       *)
Composed(A, f, g, h) == \A a \in A : h[a] = Each(f[a], g)

(* That holds of every sequence.                                           *)
LEMMA EachOfSpread ==
  ASSUME NEW A, NEW B, NEW C, NEW f, NEW g, NEW h,
         Maps(f, A, Seq(B)), Maps(g, B, C), Maps(h, A, Seq(C)), Composed(A, f, g, h), NEW t \in Seq(A)
  PROVE  Each(Spread(t, f), g) = Spread(t, h)
<1> DEFINE S == {s \in Seq(A) : Each(Spread(s, f), g) = Spread(s, h)}
<1>1. <<>> \in S
  <2>1. Each(<<>>, g) = <<>>
    BY DEF Each
  <2>2. Spread(<<>>, f) = <<>> /\ Spread(<<>>, h) = <<>>
    BY SpreadNil
  <2> QED
    BY <2>1, <2>2
<1>2. ASSUME NEW s \in Seq(A), NEW a \in A, s \in S PROVE Append(s, a) \in S
  <2>1. Append(s, a) \in Seq(A) /\ Append(s, a) = s \o <<a>> /\ <<a>> \in Seq(A)
    BY OneType
  <2>2. Spread(s \o <<a>>, f) = Spread(s, f) \o f[a] /\ Spread(s, f) \in Seq(B) /\ f[a] \in Seq(B)
    <3>1. Joins(Spread(s \o <<a>>, f), Spread(s, f), Spread(<<a>>, f))
      BY <2>1, SpreadConcat
    <3>2. Spread(<<a>>, f) = f[a] /\ f[a] \in Seq(B)
      BY SpreadOne
    <3>3. Spread(s, f) \in Seq(B)
      BY SpreadType
    <3> QED
      BY <3>1, <3>2, <3>3 DEF Joins
  <2>3. Spread(s \o <<a>>, h) = Spread(s, h) \o h[a]
    <3>1. Joins(Spread(s \o <<a>>, h), Spread(s, h), Spread(<<a>>, h))
      BY <2>1, SpreadConcat
    <3>2. Spread(<<a>>, h) = h[a]
      BY SpreadOne
    <3> QED
      BY <3>1, <3>2 DEF Joins
  <2> DEFINE x == Spread(s, f)
             y == f[a]
  <2>4. x \in Seq(B) /\ y \in Seq(B) /\ Each(x, g) = Spread(s, h) /\ Each(y, g) = h[a]
    BY <1>2, <2>2 DEF Composed
  <2>5. Each(x \o y, g) = Each(x, g) \o Each(y, g)
    <3> HIDE DEF x, y
    <3>1. Joins(Each(x \o y, g), Each(x, g), Each(y, g))
      BY <2>4, EachConcat
    <3> QED
      BY <3>1 DEF Joins
  <2>6. Each(Spread(s \o <<a>>, f), g) = Spread(s \o <<a>>, h)
    BY <2>2, <2>3, <2>4, <2>5
  <2> QED
    BY <2>1, <2>6
<1> HIDE DEF S
<1>3. Seq(A) \subseteq S
  BY <1>1, <1>2, AppendInduction
<1> QED
  BY <1>3 DEF S

(* What becomes a member of T are the members of S.                        *)
Chosen(A, f, S, T) == \A a \in A : f[a] \in T <=> a \in S

(* What is kept of the items that are taken are those taken of what is     *)
(* kept.                                                                   *)
LEMMA KeptOfEach ==
  ASSUME NEW A, NEW B, NEW f, Maps(f, A, B), NEW S, NEW T, Chosen(A, f, S, T),
         NEW t \in Seq(A)
  PROVE  Kept(Each(t, f), T) = Each(Kept(t, S), f)
<1> DEFINE R == {s \in Seq(A) : Kept(Each(s, f), T) = Each(Kept(s, S), f)}
<1>1. <<>> \in R
  <2>1. Each(<<>>, f) = <<>>
    BY DEF Each
  <2> QED
    BY <2>1, KeptNil
<1>2. ASSUME NEW s \in Seq(A), NEW a \in A, s \in R PROVE Append(s, a) \in R
  <2>0. f[a] \in B
    BY MapsOne
  <2>1. Each(s, f) \in Seq(B) /\ Each(Append(s, a), f) = Append(Each(s, f), f[a])
    <3>1. Each(s, f) \in Seq(B)
      BY MapsEach
    <3>2. Joins(Each(s \o <<a>>, f), Each(s, f), Each(<<a>>, f))
      BY OneType, EachConcat
    <3>3. Each(<<a>>, f) = <<f[a]>>
      BY DEF Each
    <3>4. Append(s, a) = s \o <<a>>
      OBVIOUS
    <3> DEFINE x == Each(s, f)
    <3>5. x \in Seq(B) /\ Each(Append(s, a), f) = x \o <<f[a]>>
      BY <3>1, <3>2, <3>3, <3>4 DEF Joins
    <3> HIDE DEF x
    <3>6. x \o <<f[a]>> = Append(x, f[a])
      BY <2>0, <3>5
    <3> QED
      BY <3>5, <3>6 DEF x
  <2> DEFINE x == Each(s, f)
             b == f[a]
  <2>2. x \in Seq(B) /\ b \in B
    BY <2>0, <2>1
  <2>3. Kept(Append(x, b), T) = Kept(x, T) \o Piece(b, T)
    <3> HIDE DEF x, b
    <3> QED
      BY <2>2, KeptAppend
  <2>4. Kept(Append(s, a), S) = Kept(s, S) \o Piece(a, S) /\ Kept(s, S) \in Seq(A) /\ Piece(a, S) \in Seq(A)
    BY KeptAppend, KeptType, PieceType
  <2>5. Each(Piece(a, S), f) = Piece(b, T)
    <3>1. CASE a \in S
      BY <3>1 DEF Piece, Each, Chosen
    <3>2. CASE a \notin S
      BY <3>2 DEF Piece, Each, Chosen
    <3> QED
      BY <3>1, <3>2
  <2> DEFINE u == Kept(s, S)
             p == Piece(a, S)
  <2>6. Each(u \o p, f) = Each(u, f) \o Each(p, f)
    <3>1. u \in Seq(A) /\ p \in Seq(A)
      BY <2>4
    <3> HIDE DEF u, p
    <3>2. Joins(Each(u \o p, f), Each(u, f), Each(p, f))
      BY <3>1, EachConcat
    <3> QED
      BY <3>2 DEF Joins
  <2>7. Kept(x, T) = Each(u, f)
    BY <1>2
  <2>8. Kept(Each(Append(s, a), f), T) = Each(Kept(Append(s, a), S), f)
    BY <2>1, <2>3, <2>4, <2>5, <2>6, <2>7
  <2>9. Append(s, a) \in Seq(A)
    OBVIOUS
  <2> QED
    BY <2>8, <2>9
<1> HIDE DEF R
<1>3. Seq(A) \subseteq R
  BY <1>1, <1>2, AppendInduction
<1> QED
  BY <1>3 DEF R

(* To leave items out that become nothing changes nothing.                 *)
LEMMA SpreadKept ==
  ASSUME NEW A, NEW B, NEW f, Maps(f, A, Seq(B)), NEW S, \A a \in A : a \notin S => f[a] = <<>>,
         NEW t \in Seq(A)
  PROVE  Spread(Kept(t, S), f) = Spread(t, f)
<1> DEFINE R == {s \in Seq(A) : Spread(Kept(s, S), f) = Spread(s, f)}
<1>1. <<>> \in R
  BY KeptNil
<1>2. ASSUME NEW s \in Seq(A), NEW a \in A, s \in R PROVE Append(s, a) \in R
  <2> DEFINE k == Kept(s, S)
             p == Piece(a, S)
  <2>1. k \in Seq(A) /\ p \in Seq(A) /\ Kept(Append(s, a), S) = k \o p
    BY KeptAppend, KeptType, PieceType
  <2>2. Append(s, a) \in Seq(A) /\ Append(s, a) = s \o <<a>> /\ <<a>> \in Seq(A)
    BY OneType
  <2>3. Spread(k, f) = Spread(s, f)
    BY <1>2
  <2>4. Spread(p, f) = Spread(<<a>>, f)
    <3>1. CASE a \in S
      BY <3>1 DEF Piece
    <3>2. CASE a \notin S
      <4>1. p = <<>> /\ f[a] = <<>>
        BY <3>2 DEF Piece
      <4>2. Spread(<<a>>, f) = f[a]
        BY SpreadOne
      <4> QED
        BY <4>1, <4>2, SpreadNil
    <3> QED
      BY <3>1, <3>2
  <2> HIDE DEF k, p
  <2>5. Joins(Spread(k \o p, f), Spread(k, f), Spread(p, f))
    BY <2>1, SpreadConcat
  <2>6. Joins(Spread(s \o <<a>>, f), Spread(s, f), Spread(<<a>>, f))
    BY <2>2, SpreadConcat
  <2>7. Spread(k \o p, f) = Spread(s \o <<a>>, f)
    BY <2>3, <2>4, <2>5, <2>6 DEF Joins
  <2>8. Spread(Kept(Append(s, a), S), f) = Spread(Append(s, a), f)
    BY <2>1, <2>2, <2>7
  <2> QED
    BY <2>2, <2>8
<1> HIDE DEF R
<1>3. Seq(A) \subseteq R
  BY <1>1, <1>2, AppendInduction
<1> QED
  BY <1>3 DEF R

-----------------------------------------------------------------------------
(* Texts in a row, and their lines.                                        *)

(* Two texts in a row, place by place.                                     *)
LEMMA ConcatPlaces ==
  ASSUME NEW A, NEW s \in Seq(A), NEW t \in Seq(A)
  PROVE  /\ s \o t \in Seq(A) /\ Len(s \o t) = Len(s) + Len(t)
         /\ \A i \in 1..Len(s) : (s \o t)[i] = s[i]
         /\ \A i \in 1..Len(t) : (s \o t)[Len(s) + i] = t[i]
<1>1. s \o t \in Seq(A) /\ Len(s \o t) = Len(s) + Len(t)
  BY ConcatShape
<1>2. ASSUME NEW i \in 1..Len(s) PROVE (s \o t)[i] = s[i]
  OBVIOUS
<1>3. ASSUME NEW i \in 1..Len(t) PROVE (s \o t)[Len(s) + i] = t[i]
  OBVIOUS
<1> QED
  BY <1>1, <1>2, <1>3

(* Where two texts meet they are told apart again.                         *)
LEMMA ConcatCut ==
  ASSUME NEW A, NEW s \in Seq(A), NEW t \in Seq(A)
  PROVE  SubSeq(s \o t, 1, Len(s)) = s /\ From(s \o t, Len(s) + 1) = t
<1> DEFINE z == s \o t
           m == Len(s)
           n == Len(t)
<1>1. /\ z \in Seq(A) /\ Len(z) = m + n /\ m \in Nat /\ n \in Nat
      /\ \A i \in 1..m : z[i] = s[i]
      /\ \A i \in 1..n : z[m + i] = t[i]
      /\ DOMAIN s = 1..m /\ DOMAIN t = 1..n
  BY ConcatPlaces
<1> HIDE DEF z, m, n
<1>2. m + 1 \in 1..(Len(z) + 1)
  BY <1>1
<1>3. From(z, m + 1) = t
  <2> DEFINE u == From(z, m + 1)
  <2>1. /\ u \in Seq(A) /\ Len(u) = Len(z) - (m + 1) + 1
        /\ \A k \in 1..(Len(z) - (m + 1) + 1) : u[k] = z[m + 1 + k - 1]
    BY <1>1, <1>2, FromRest
  <2> HIDE DEF u
  <2>2. Len(u) = n /\ \A k \in 1..n : u[k] = t[k]
    <3>1. Len(z) - (m + 1) + 1 = n /\ \A k \in 1..n : m + 1 + k - 1 = m + k
      BY <1>1
    <3>2. Len(u) = n /\ \A k \in 1..n : u[k] = z[m + 1 + k - 1]
      BY <2>1, <3>1
    <3>3. \A k \in 1..n : u[k] = z[m + k]
      BY <3>1, <3>2
    <3> QED
      BY <1>1, <3>2, <3>3
  <2>3. u = t
    BY <1>1, <2>1, <2>2, SeqEqual DEF n
  <2> QED
    BY <2>3 DEF u
<1>4. SubSeq(z, 1, m) = s
  <2> DEFINE u == SubSeq(z, 1, m)
  <2>1. \A i \in 1..m : i \in 1..Len(z) /\ z[i] \in A
    BY <1>1
  <2>2. 1 \in Int /\ m \in Int /\ (IF 1 <= m THEN m - 1 + 1 ELSE 0) = m /\ m - 1 + 1 = m
    BY <1>1
  <2>3. /\ u \in Seq(A) /\ Len(u) = IF 1 <= m THEN m - 1 + 1 ELSE 0
        /\ \A i \in 1..(m - 1 + 1) : u[i] = z[1 + i - 1]
    BY <2>1, <2>2, SubSeqProperties
  <2> HIDE DEF u
  <2>4. Len(u) = m /\ \A i \in 1..m : u[i] = z[1 + i - 1]
    BY <2>2, <2>3
  <2>5. \A i \in 1..m : u[i] = z[i]
    BY <1>1, <2>4
  <2>6. u = s
    BY <1>1, <2>3, <2>4, <2>5, SeqEqual DEF m
  <2> QED
    BY <2>6 DEF u
<1> QED
  BY <1>3, <1>4 DEF z, m

(* Induction over the texts that begin with one item more.                 *)
LEMMA PrependInduction ==
  ASSUME NEW A, NEW S, <<>> \in S,
         \A s \in Seq(A), a \in A : s \in S => <<a>> \o s \in S
  PROVE  Seq(A) \subseteq S
<1> DEFINE rank == [s \in Seq(A) |-> Len(s)]
<1>1. rank \in [Seq(A) -> Nat] /\ \A s \in Seq(A) : rank[s] = Len(s)
  OBVIOUS
<1> HIDE DEF rank
<1>2. ASSUME NEW t \in Seq(A), \A u \in Seq(A) : rank[u] < rank[t] => u \in S
      PROVE  t \in S
  <2>1. CASE t # <<>>
    <3>1. Tail(t) \in Seq(A) /\ Len(Tail(t)) < Len(t) /\ t[1] \in A
      BY <2>1, HeadTailProperties
    <3>2. t = <<t[1]>> \o Tail(t)
      BY <2>1
    <3>3. Tail(t) \in S
      BY <1>1, <1>2, <3>1
    <3> QED
      BY <3>1, <3>2, <3>3
  <2> QED
    BY <2>1
<1> DEFINE D == Seq(A)
<1>3. \A t \in D : (\A u \in D : rank[u] < rank[t] => u \in S) => t \in S
  BY <1>2
<1>4. rank \in [D -> Nat]
  BY <1>1
<1> HIDE DEF D
<1>5. D \subseteq S
  BY <1>3, <1>4, RankInduction
<1> QED
  BY <1>5 DEF D

(* The lines of a rest are those that Lines finds from there on.           *)
LEMMA LinesOfRest ==
  ASSUME NEW A, NEW t \in Seq(A), NEW f, Breaks(t, f), NEW i \in 1..(Len(t) + 1)
  PROVE  Lines(From(t, i)) = f[i]
<1> DEFINE u == From(t, i)
           n == Len(u)
           D == 1..(n + 1)
           rank == [k \in D |-> n + 1 - k]
<1>1. /\ u \in Seq(A) /\ n = Len(t) - i + 1 /\ n \in Nat /\ Len(t) \in Nat /\ i \in Nat
      /\ \A k \in 1..n : u[k] = t[i + k - 1]
  <2>1. u \in Seq(A) /\ n = Len(t) - i + 1 /\ \A k \in 1..(Len(t) - i + 1) : u[k] = t[i + k - 1]
    BY FromRest
  <2>2. n \in Nat /\ Len(t) \in Nat /\ i \in Nat
    <3> HIDE DEF u
    <3> QED
      BY <2>1
  <2> HIDE DEF u, n
  <2> QED
    BY <2>1, <2>2
<1> HIDE DEF u
<1>2. PICK g \in [D -> Seq(Seq(A))] : Breaks(u, g) /\ Lines(u) = g[1]
  BY <1>1, LinesUnfold
<1> DEFINE S == {k \in D : g[k] = f[i + k - 1]}
<1>3. ASSUME NEW k \in D, \A j \in D : rank[j] < rank[k] => j \in S PROVE k \in S
  <2> DEFINE m == i + k - 1
  <2>1. m \in 1..(Len(t) + 1) /\ k \in 1..(Len(u) + 1) /\ (k > n <=> m > Len(t))
    BY <1>1
  <2>2. g[k] = LineFrom(u, k, g) /\ f[m] = LineFrom(t, m, f)
    BY <1>2, <2>1 DEF Breaks
  <2>3. CASE k > n
    BY <2>1, <2>2, <2>3 DEF LineFrom
  <2>4. CASE k <= n
    <3> DEFINE P == {j \in k..n : u[j] = "n"}
               Q == {j \in m..Len(t) : t[j] = "n"}
    <3>1. P \in SUBSET (Nat \ {0}) /\ Q \in SUBSET (Nat \ {0})
      BY <1>1, <2>1
    <3>2. \A j \in P : i + j - 1 \in Q
      BY <1>1, <2>1
    <3>3. \A j \in Q : j - i + 1 \in P
      BY <1>1, <2>1, SMTT(30)
    <3>4. From(u, k) = From(t, m)
      <4>1. k \in 1..(Len(t) - i + 2)
        BY <1>1
      <4> QED
        BY <4>1, FromFrom DEF u
    <3>5. EndOfLine(u, k) = FirstOf(P) /\ EndOfLine(t, m) = FirstOf(Q)
      BY DEF EndOfLine
    <3>6. \A j \in P : j \in k..n
      OBVIOUS
    <3> HIDE DEF P, Q
    <3>7. CASE P = {}
      <4>1. Q = {}
        BY <3>3, <3>7
      <4>2. EndOfLine(u, k) = 0 /\ EndOfLine(t, m) = 0
        BY <3>1, <3>5, <3>7, <4>1, FirstOfPlaces
      <4> QED
        BY <2>1, <2>2, <2>4, <3>4, <4>2 DEF LineFrom
    <3>8. CASE P # {}
      <4> DEFINE p == FirstOf(P)
      <4>1. p \in P /\ \A y \in P : p <= y
        BY <3>1, <3>8, FirstOfPlaces
      <4> HIDE DEF p
      <4>2. p \in k..n /\ p \in Nat
        BY <1>1, <3>6, <4>1
      <4>3. \A y \in Q : i + p - 1 <= y
        BY <1>1, <3>1, <3>3, <4>1, <4>2
      <4>4. FirstOf(Q) = i + p - 1
        BY <3>1, <3>2, <4>1, <4>3, FirstOfIs
      <4>5. p + 1 \in D /\ rank[p + 1] < rank[k] /\ i + (p + 1) - 1 = (i + p - 1) + 1
        BY <1>1, <4>2
      <4>6. g[p + 1] = f[(i + p - 1) + 1]
        BY <1>3, <4>5
      <4>7. SubSeq(u, k, p - 1) = SubSeq(t, m, (i + p - 1) - 1)
        <5> DEFINE q == p - 1
        <5>1. u = SubSeq(t, i, Len(t))
          BY DEF u, From
        <5>2. /\ i \in 1..(Len(t) + 1) /\ Len(t) \in (i - 1)..Len(t)
              /\ k \in 1..(Len(t) - i + 2) /\ q \in (k - 1)..(Len(t) - i + 1)
              /\ i + k - 1 = m /\ i + q - 1 = (i + p - 1) - 1
          BY <1>1, <2>1, <4>2
        <5> HIDE DEF q, m
        <5>3. SubSeq(SubSeq(t, i, Len(t)), k, q) = SubSeq(t, i + k - 1, i + q - 1)
          BY <5>2, SubSeqOfSubSeq
        <5> QED
          BY <5>1, <5>2, <5>3 DEF q, m
      <4>8. p # 0 /\ i + p - 1 # 0
        BY <1>1, <4>2
      <4>9. g[k] = <<Chomp(SubSeq(u, k, p - 1))>> \o g[p + 1]
        BY <2>2, <2>4, <3>5, <4>8 DEF LineFrom, p
      <4>10. f[m] = <<Chomp(SubSeq(t, m, (i + p - 1) - 1))>> \o f[(i + p - 1) + 1]
        BY <2>1, <2>2, <2>4, <3>5, <4>4, <4>8 DEF LineFrom
      <4> QED
        BY <4>6, <4>7, <4>9, <4>10
    <3> QED
      BY <3>7, <3>8
  <2> QED
    BY <1>1, <2>3, <2>4
<1>4. 1 \in D /\ i + 1 - 1 = i
  BY <1>1
<1>5. rank \in [D -> Nat]
  BY <1>1
<1>6. \A k \in D : (\A j \in D : rank[j] < rank[k] => j \in S) => k \in S
  BY <1>3
<1> HIDE DEF D, S, rank
<1>7. D \subseteq S
  BY <1>5, <1>6, RankInduction
<1>8. g[1] = f[i + 1 - 1]
  BY <1>4, <1>7 DEF S
<1> QED
  BY <1>2, <1>4, <1>8 DEF u

(* No line feed in a text.                                                 *)
OneLine(l) == \A i \in 1..Len(l) : l[i] # "n"

(* A text up to a line feed is its first line.                             *)
LEMMA LinesFirst ==
  ASSUME NEW A, "n" \in A, NEW l \in Seq(A), OneLine(l), NEW x \in Seq(A)
  PROVE  Lines(l \o (<<"n">> \o x)) = <<Chomp(l)>> \o Lines(x)
<1> DEFINE b == <<"n">>
           y == b \o x
           t == l \o y
           m == Len(l)
<1>1. b \in Seq(A) /\ Len(b) = 1 /\ b[1] = "n"
  OBVIOUS
<1> HIDE DEF b
<1>2. y \in Seq(A) /\ Len(y) = 1 + Len(x) /\ y[1] = "n" /\ From(y, 2) = x
  <2>1. y \in Seq(A) /\ Len(y) = Len(b) + Len(x) /\ \A i \in 1..Len(b) : y[i] = b[i]
    BY <1>1, ConcatPlaces
  <2>2. From(y, Len(b) + 1) = x
    BY <1>1, ConcatCut
  <2> HIDE DEF y
  <2>3. 1 \in 1..Len(b) /\ Len(b) + 1 = 2
    BY <1>1
  <2> QED
    BY <1>1, <2>1, <2>2, <2>3
<1> HIDE DEF y
<1>3. /\ t \in Seq(A) /\ Len(t) = m + Len(y) /\ m \in Nat /\ Len(x) \in Nat
      /\ \A i \in 1..m : t[i] = l[i]
      /\ \A i \in 1..Len(y) : t[m + i] = y[i]
      /\ SubSeq(t, 1, m) = l /\ From(t, m + 1) = y
  <2>1. y \in Seq(A)
    BY <1>2
  <2>2. /\ t \in Seq(A) /\ Len(t) = m + Len(y)
        /\ \A i \in 1..m : t[i] = l[i]
        /\ \A i \in 1..Len(y) : t[m + i] = y[i]
    BY <2>1, ConcatPlaces
  <2>3. SubSeq(t, 1, m) = l /\ From(t, m + 1) = y
    BY <2>1, ConcatCut
  <2>4. m \in Nat /\ Len(x) \in Nat
    OBVIOUS
  <2> HIDE DEF t, m
  <2> QED
    BY <2>2, <2>3, <2>4
<1> HIDE DEF t, m
<1>4. PICK f \in [1..(Len(t) + 1) -> Seq(Seq(A))] : Breaks(t, f) /\ Lines(t) = f[1]
  BY <1>3, LinesUnfold
<1> DEFINE P == {j \in 1..Len(t) : t[j] = "n"}
<1>5. P \in SUBSET (Nat \ {0}) /\ m + 1 \in P /\ \A j \in P : m + 1 <= j
  <2>1. m + 1 \in P
    BY <1>2, <1>3
  <2>2. ASSUME NEW j \in P, j <= m PROVE FALSE
    <3>1. j \in 1..m
      BY <1>3, <2>2
    <3> QED
      BY <1>3, <3>1 DEF OneLine, m
  <2>3. \A j \in P : j \in Nat
    OBVIOUS
  <2> QED
    BY <1>3, <2>1, <2>2, <2>3
<1>6. EndOfLine(t, 1) = m + 1
  BY <1>5, FirstOfIs DEF EndOfLine
<1>7. f[1] = <<Chomp(SubSeq(t, 1, m))>> \o f[m + 2]
  <2>1. 1 \in 1..(Len(t) + 1) /\ ~(1 > Len(t)) /\ m + 1 # 0 /\ m + 1 - 1 = m /\ m + 1 + 1 = m + 2
    BY <1>2, <1>3
  <2>2. f[1] = LineFrom(t, 1, f)
    BY <1>4, <2>1 DEF Breaks
  <2> DEFINE e == EndOfLine(t, 1)
  <2>3. e = m + 1
    BY <1>6
  <2> HIDE DEF e, P
  <2>4. LineFrom(t, 1, f) = <<Chomp(SubSeq(t, 1, e - 1))>> \o f[e + 1]
    BY <2>1, <2>3 DEF LineFrom, e
  <2>5. e - 1 = m /\ e + 1 = m + 2
    BY <1>3, <2>3
  <2> QED
    BY <2>2, <2>4, <2>5
<1>8. From(t, m + 2) = x /\ m + 2 \in 1..(Len(t) + 1)
  <2>1. m + 1 \in 1..(Len(t) + 1) /\ 2 \in 1..(Len(t) - (m + 1) + 2) /\ m + 1 + 2 - 1 = m + 2
    BY <1>2, <1>3
  <2>2. From(From(t, m + 1), 2) = From(t, m + 1 + 2 - 1)
    BY <1>3, <2>1, FromFrom, SMTT(30)
  <2> QED
    BY <1>2, <1>3, <2>1, <2>2
<1>9. Lines(x) = f[m + 2]
  BY <1>3, <1>4, <1>8, LinesOfRest
<1> QED
  BY <1>3, <1>4, <1>7, <1>9 DEF t, y, b

(* A text without a line feed is one line, unless it is empty.             *)
LEMMA LinesLast ==
  ASSUME NEW A, NEW l \in Seq(A), OneLine(l)
  PROVE  Lines(l) = IF l = <<>> THEN <<>> ELSE <<l>>
<1>1. PICK f \in [1..(Len(l) + 1) -> Seq(Seq(A))] : Breaks(l, f) /\ Lines(l) = f[1]
  BY LinesUnfold
<1>2. 1 \in 1..(Len(l) + 1) /\ (1 > Len(l) <=> l = <<>>)
  OBVIOUS
<1>3. f[1] = LineFrom(l, 1, f)
  BY <1>1, <1>2 DEF Breaks
<1>4. From(l, 1) = l
  BY SubSeqFull DEF From
<1>5. EndOfLine(l, 1) = 0
  <2> DEFINE P == {j \in 1..Len(l) : l[j] = "n"}
  <2>1. P = {}
    BY DEF OneLine
  <2>2. FirstOf(P) = 0
    BY <2>1, FirstOfPlaces
  <2> QED
    BY <2>2 DEF EndOfLine
<1> QED
  BY <1>1, <1>2, <1>3, <1>4, <1>5 DEF LineFrom

-----------------------------------------------------------------------------
(* Lines that are all ended by the same break.                             *)
LinesOver(A) == Seq(A \ {"n", "r"})
Breaking == {<<"n">>, <<"r", "n">>}
Terminated(ls, break) == FlattenSeq([i \in DOMAIN ls |-> ls[i] \o break])

(* A line holds no break, and a carriage return behind it is not its.      *)
LEMMA LineIsWhole ==
  ASSUME NEW A, "r" \in A, NEW l \in LinesOver(A)
  PROVE  /\ l \in Seq(A) /\ OneLine(l) /\ Chomp(l) = l
         /\ l \o <<"r">> \in Seq(A) /\ OneLine(l \o <<"r">>) /\ Chomp(l \o <<"r">>) = l
<1> DEFINE B == A \ {"n", "r"}
<1>1. l \in Seq(B) /\ B \subseteq A
  BY DEF LinesOver
<1>2. l \in Seq(A)
  BY <1>1, SeqOfMore
<1>3. \A i \in 1..Len(l) : l[i] # "n" /\ l[i] # "r"
  BY <1>1
<1>4. l # <<>> => Last(l) # "r"
  BY <1>2, <1>3 DEF Last
<1>5. Chomp(l) = l
  BY <1>4 DEF Chomp
<1> DEFINE s == Append(l, "r")
<1>6. /\ s \in Seq(A) /\ Len(s) = Len(l) + 1 /\ s[Len(l) + 1] = "r" /\ s = l \o <<"r">>
      /\ \A i \in 1..Len(l) : s[i] = l[i]
  BY <1>2
<1>7. s # <<>> /\ Last(s) = "r" /\ Front(s) = l
  BY <1>2, <1>6, AppendProperties DEF Last, Front
<1>8. OneLine(s)
  BY <1>2, <1>3, <1>6 DEF OneLine
<1> QED
  BY <1>2, <1>3, <1>5, <1>6, <1>7, <1>8 DEF OneLine, Chomp

(* A line up to its break is the first one.                                *)
LEMMA LinesBreak ==
  ASSUME NEW A, "n" \in A, "r" \in A, NEW l \in LinesOver(A), NEW break \in Breaking, NEW x \in Seq(A)
  PROVE  Lines(l \o (break \o x)) = <<l>> \o Lines(x)
<1>1. CASE break = <<"n">>
  BY <1>1, LineIsWhole, LinesFirst
<1>2. CASE break = <<"r", "n">>
  <2> DEFINE r == <<"r">>
             n == <<"n">>
             nx == n \o x
  <2>1. r \in Seq(A) /\ n \in Seq(A) /\ break = r \o n
    BY <1>2
  <2>2. l \in Seq(A) /\ nx \in Seq(A)
    BY <2>1, LineIsWhole
  <2> HIDE DEF r, n
  <2>3. break \o x = r \o nx
    BY <2>1, ConcatAssociative
  <2> HIDE DEF nx
  <2>4. l \o (break \o x) = (l \o r) \o nx
    <3>1. Associates(l, r, nx)
      BY <2>1, <2>2, ThreeInARow
    <3> QED
      BY <2>3, <3>1 DEF Associates
  <2>5. Lines((l \o r) \o nx) = <<Chomp(l \o r)>> \o Lines(x)
    BY LineIsWhole, LinesFirst, ZenonT(30) DEF r, n, nx
  <2>6. Chomp(l \o r) = l
    BY LineIsWhole DEF r
  <2> QED
    BY <2>4, <2>5, <2>6
<1> QED
  BY <1>1, <1>2 DEF Breaking

(* Each line with its break.                                               *)
Breaker(A, break) == [l \in Seq(A) |-> l \o break]

(* They are spread.                                                        *)
LEMMA TerminatedSpreads ==
  ASSUME NEW A, NEW break \in Seq(A), NEW ls \in Seq(Seq(A))
  PROVE  /\ Maps(Breaker(A, break), Seq(A), Seq(A))
         /\ Terminated(ls, break) = Spread(ls, Breaker(A, break))
<1> DEFINE B == Seq(A)
           f == Breaker(A, break)
<1>1. ASSUME NEW l \in B PROVE l \o break \in B
  OBVIOUS
<1>2. f = [l \in B |-> l \o break]
  BY DEF Breaker
<1>3. ls \in Seq(B)
  OBVIOUS
<1> HIDE DEF B, f
<1>4. Maps(f, B, B)
  BY <1>1, <1>2 DEF Maps
<1>5. \A i \in DOMAIN ls : ls[i] \in B
  BY <1>3
<1>6. \A i \in DOMAIN ls : f[ls[i]] = ls[i] \o break
  BY <1>2, <1>5
<1>7. [i \in DOMAIN ls |-> ls[i] \o break] = [i \in DOMAIN ls |-> f[ls[i]]]
  BY <1>6
<1> QED
  BY <1>4, <1>7 DEF Terminated, Spread, Each, f, B

(* They are a text, that of the lines one by one.                          *)
LEMMA TerminatedConcat ==
  ASSUME NEW A, NEW break \in Seq(A), NEW ls \in Seq(Seq(A)), NEW us \in Seq(Seq(A))
  PROVE  /\ Terminated(ls, break) \in Seq(A)
         /\ Terminated(ls \o us, break) = Terminated(ls, break) \o Terminated(us, break)
<1> DEFINE B == Seq(A)
           f == Breaker(A, break)
<1>1. Maps(f, B, Seq(A))
  BY TerminatedSpreads
<1>2. ls \in Seq(B) /\ us \in Seq(B)
  OBVIOUS
<1> HIDE DEF B, f
<1>3. ls \o us \in Seq(B)
  BY <1>2, ConcatShape
<1>4. Terminated(ls, break) = Spread(ls, f) /\ Terminated(us, break) = Spread(us, f)
  BY TerminatedSpreads DEF f
<1>5. Terminated(ls \o us, break) = Spread(ls \o us, f)
  BY <1>3, TerminatedSpreads DEF f, B
<1>6. Spread(ls, f) \in Seq(A)
  BY <1>1, <1>2, SpreadType
<1>7. Joins(Spread(ls \o us, f), Spread(ls, f), Spread(us, f))
  BY <1>1, <1>2, SpreadConcat
<1> QED
  BY <1>4, <1>5, <1>6, <1>7 DEF Joins

(* None, and one.                                                          *)
LEMMA TerminatedOne ==
  ASSUME NEW A, NEW break \in Seq(A), NEW l \in Seq(A)
  PROVE  Terminated(<<>>, break) = <<>> /\ Terminated(<<l>>, break) = l \o break
<1> DEFINE B == Seq(A)
           f == Breaker(A, break)
<1>2. <<>> \in Seq(Seq(A)) /\ <<l>> \in Seq(Seq(A))
  OBVIOUS
<1>1. Maps(f, B, Seq(A))
  BY <1>2, TerminatedSpreads
<1>3. Terminated(<<>>, break) = Spread(<<>>, f)
  BY <1>2, TerminatedSpreads
<1>4. Terminated(<<l>>, break) = Spread(<<l>>, f)
  BY <1>2, TerminatedSpreads
<1>5. f[l] = l \o break
  BY DEF Breaker
<1>6. l \in B
  OBVIOUS
<1> HIDE DEF B, f
<1>7. Spread(<<l>>, f) = f[l]
  BY <1>1, <1>6, SpreadOne
<1>8. Spread(<<>>, f) = <<>>
  BY SpreadNil
<1> QED
  BY <1>3, <1>4, <1>5, <1>7, <1>8

(* The first of them with its break, and the others.                       *)
LEMMA TerminatedFirst ==
  ASSUME NEW A, NEW break \in Seq(A), NEW l \in Seq(A), NEW ls \in Seq(Seq(A))
  PROVE  /\ Terminated(ls, break) \in Seq(A)
         /\ Terminated(<<l>> \o ls, break) = l \o (break \o Terminated(ls, break))
<1> DEFINE B == Seq(A)
           o == <<l>>
           u == Terminated(ls, break)
<1>1. o \in Seq(Seq(A))
  OBVIOUS
<1> HIDE DEF o
<1>2. u \in Seq(A)
  BY TerminatedConcat
<1>3. Terminated(o \o ls, break) = Terminated(o, break) \o u
  BY <1>1, TerminatedConcat
<1>4. Terminated(o, break) = l \o break
  BY TerminatedOne DEF o
<1> HIDE DEF u
<1>5. (l \o break) \o u = l \o (break \o u)
  BY <1>2, ConcatAssociative
<1> QED
  BY <1>2, <1>3, <1>4, <1>5 DEF o, u

(* Lines over some atoms are texts over them.                              *)
LEMMA LinesAreTexts ==
  ASSUME NEW A, NEW ls \in Seq(LinesOver(A))
  PROVE  LinesOver(A) \subseteq Seq(A) /\ ls \in Seq(Seq(A))
<1>1. A \ {"n", "r"} \subseteq A
  OBVIOUS
<1>2. LinesOver(A) \subseteq Seq(A)
  BY <1>1, SeqOfMore DEF LinesOver
<1> DEFINE B == LinesOver(A)
           C == Seq(A)
<1>3. B \subseteq C /\ ls \in Seq(B)
  BY <1>2
<1> HIDE DEF B, C
<1>4. ls \in Seq(C)
  BY <1>3, SeqOfMore
<1> QED
  BY <1>2, <1>4 DEF C

(* A break is a text.                                                      *)
LEMMA BreakIsText ==
  ASSUME NEW A, "n" \in A, "r" \in A, NEW break \in Breaking
  PROVE  break \in Seq(A)
<1>1. <<"n">> \in Seq(A) /\ <<"r", "n">> \in Seq(A)
  OBVIOUS
<1> QED
  BY <1>1 DEF Breaking

(* Lines finds them, whatever comes behind.                                *)
LEMMA LinesTerminated ==
  ASSUME NEW A, "n" \in A, "r" \in A, NEW ls \in Seq(LinesOver(A)), NEW break \in Breaking, NEW x \in Seq(A)
  PROVE  Lines(Terminated(ls, break) \o x) = ls \o Lines(x)
<1> DEFINE B == LinesOver(A)
           T(s) == Terminated(s, break)
           S == {s \in Seq(B) : Lines(T(s) \o x) = s \o Lines(x)}
<1>1. break \in Seq(A) /\ Lines(x) \in Seq(Seq(A)) /\ <<>> \in Seq(A)
  BY BreakIsText, LinesType
<1>2. <<>> \in S
  <2>1. T(<<>>) = <<>>
    BY <1>1, TerminatedOne
  <2>2. <<>> \in Seq(B) /\ <<>> \o x = x
    BY ConcatEmptySeq
  <2>3. <<>> \o Lines(x) = Lines(x)
    BY <1>1, ConcatEmptySeq
  <2> HIDE DEF T, B
  <2> QED
    BY <2>1, <2>2, <2>3
<1>3. ASSUME NEW s \in Seq(B), NEW a \in B, s \in S PROVE <<a>> \o s \in S
  <2> DEFINE u == T(s)
             o == <<a>>
  <2>1. a \in Seq(A) /\ s \in Seq(Seq(A))
    BY LinesAreTexts
  <2>2. u \in Seq(A) /\ T(o \o s) = a \o (break \o u)
    BY <1>1, <2>1, TerminatedFirst, ZenonT(30)
  <2>3. o \in Seq(B) /\ o \in Seq(Seq(A)) /\ o \o s \in Seq(B)
    BY <2>1
  <2> HIDE DEF u, o, T
  <2>4. (a \o (break \o u)) \o x = a \o (break \o (u \o x))
    <3>1. break \o u \in Seq(A)
      BY <1>1, <2>2
    <3>2. (a \o (break \o u)) \o x = a \o ((break \o u) \o x)
      <4>1. Associates(a, break \o u, x)
        BY <2>1, <3>1, ThreeInARow
      <4> QED
        BY <4>1 DEF Associates
    <3>3. (break \o u) \o x = break \o (u \o x)
      <4>1. Associates(break, u, x)
        BY <1>1, <2>2, ThreeInARow
      <4> QED
        BY <4>1 DEF Associates
    <3> QED
      BY <3>2, <3>3
  <2>5. u \o x \in Seq(A)
    BY <2>2
  <2>6. Lines(a \o (break \o (u \o x))) = o \o Lines(u \o x)
    BY <2>5, LinesBreak DEF o
  <2>7. Lines(u \o x) = s \o Lines(x)
    BY <1>3 DEF u
  <2>8. o \o (s \o Lines(x)) = (o \o s) \o Lines(x)
    <3> DEFINE C == Seq(A)
               y == Lines(x)
    <3>1. o \in Seq(C) /\ s \in Seq(C) /\ y \in Seq(C)
      BY <1>1, <2>1, <2>3
    <3> HIDE DEF C, y
    <3>2. o \o (s \o y) = (o \o s) \o y
      <4>1. Associates(o, s, y)
        BY <3>1, ThreeInARow
      <4> QED
        BY <4>1 DEF Associates
    <3> QED
      BY <3>2 DEF y
  <2> QED
    BY <2>2, <2>3, <2>4, <2>6, <2>7, <2>8 DEF o
<1> HIDE DEF S, B
<1>4. Seq(B) \subseteq S
  BY <1>2, <1>3, PrependInduction
<1> QED
  BY <1>4 DEF S, B

(* Four texts in a row, joined in three ways.                              *)
Regrouped(s, t, u, v) ==
  /\ (s \o t) \o (u \o v) = (s \o (t \o u)) \o v
  /\ (s \o t) \o (u \o v) = s \o (t \o (u \o v))

(* They are the same.                                                      *)
LEMMA FourJoined ==
  ASSUME NEW A, NEW s \in Seq(A), NEW t \in Seq(A), NEW u \in Seq(A), NEW v \in Seq(A)
  PROVE  Regrouped(s, t, u, v)
<1> DEFINE x == t \o u
           y == u \o v
<1>1. x \in Seq(A) /\ y \in Seq(A)
  OBVIOUS
<1>2. t \o y = x \o v
  BY ConcatAssociative
<1> HIDE DEF x, y
<1>3. (s \o t) \o y = s \o (t \o y)
  BY <1>1, ConcatAssociative, SMTT(30)
<1>4. (s \o x) \o v = s \o (x \o v)
  BY <1>1, ConcatAssociative
<1> QED
  BY <1>2, <1>3, <1>4 DEF x, y, Regrouped

(* Joined lines are terminated by a feed, but the last.                    *)
LEMMA JoinTerminates ==
  ASSUME NEW A, "n" \in A, NEW ls \in Seq(Seq(A)), NEW l \in Seq(A)
  PROVE  Join(ls \o <<l>>) = Terminated(ls, <<"n">>) \o l
<1> DEFINE B == Seq(A)
           n == <<"n">>
           T(s) == Terminated(s, n)
           Right(s) == \A a \in B : Join(Append(s, a)) = T(s) \o a
           S == {s \in Seq(B) : Right(s)}
<1>1. n \in B
  BY OneType
<1>2. ASSUME NEW s \in Seq(B), s # <<>>, NEW a \in B
      PROVE  Join(Append(s, a)) = Join(s) \o (n \o a) /\ Join(s) \in B
  <2> DEFINE na == n \o a
             t == Append(s, a)
  <2>1. na \in B
    BY <1>1
  <2>2. t \in Seq(B) /\ Len(t) = Len(s) + 1 /\ Len(s) \in Nat \ {0} /\ t[Len(s) + 1] = a
        /\ \A i \in 1..Len(s) : t[i] = s[i]
    <3> HIDE DEF B
    <3> QED
      BY <1>2, AppendProperties
  <2>3. Joined(t) = Append(Joined(s), na)
    <3> DEFINE js == Joined(s)
    <3>1. js = [i \in 1..Len(s) |-> IF i = 1 THEN s[i] ELSE n \o s[i]]
      BY <2>2 DEF Joined
    <3>2. Joined(t) = [i \in 1..(Len(s) + 1) |-> IF i = 1 THEN t[i] ELSE n \o t[i]]
      <4>1. DOMAIN t = 1..(Len(s) + 1)
        BY <2>2
      <4> QED
        BY <4>1 DEF Joined
    <3>3. js \in Seq(B)
      BY JoinType
    <3> HIDE DEF js, t, na, B
    <3>4. Len(js) = Len(s)
      BY <2>2, <3>1, <3>3
    <3>5. Append(js, na) \in Seq(B) /\ Len(Append(js, na)) = Len(s) + 1
      BY <2>1, <3>3, <3>4, AppendProperties
    <3>6. Joined(t) \in Seq(B) /\ Len(Joined(t)) = Len(s) + 1
      <4>1. Joined(t) \in Seq(B)
        BY <2>2, JoinType DEF B
      <4> QED
        BY <2>2, <3>2, <4>1
    <3>7. ASSUME NEW i \in 1..(Len(s) + 1) PROVE Joined(t)[i] = Append(js, na)[i]
      <4>1. CASE i = Len(s) + 1
        <5>1. Append(js, na)[i] = na
          BY <3>3, <3>4, <4>1, AppendProperties
        <5>2. Joined(t)[i] = n \o a
          BY <2>2, <3>2, <4>1
        <5> QED
          BY <5>1, <5>2 DEF na
      <4>2. CASE i # Len(s) + 1
        <5>1. i \in 1..Len(s)
          BY <2>2, <4>2
        <5>2. Append(js, na)[i] = js[i]
          BY <2>1, <3>3, <3>4, <5>1, AppendProperties
        <5>3. Joined(t)[i] = js[i]
          BY <2>2, <3>1, <3>2, <5>1
        <5> QED
          BY <5>2, <5>3
      <4> QED
        BY <4>1, <4>2
    <3>8. Joined(t) = Append(js, na)
      BY <3>5, <3>6, <3>7, SeqEqual
    <3> QED
      BY <3>8 DEF js
  <2>4. Join(t) = FlattenSeq(Joined(t))
    BY <2>2, JoinType
  <2>5. Join(s) = FlattenSeq(Joined(s)) /\ Join(s) \in Seq(A) /\ Joined(s) \in Seq(Seq(A))
    BY JoinType
  <2>6. FlattenSeq(Append(Joined(s), na)) = FlattenSeq(Joined(s)) \o na
    BY <2>1, <2>5, FlattenAppend
  <2> QED
    BY <2>3, <2>4, <2>5, <2>6
<1>3. ASSUME NEW a \in B PROVE Join(Append(<<>>, a)) = a
  <2>1. Append(<<>>, a) = <<a>>
    OBVIOUS
  <2>2. Join(<<a>>) = FlattenSeq(<<a>>)
    BY DEF Join
  <2> QED
    BY <2>1, <2>2, FlattenOne
<1>4. <<>> \in S
  <2>1. ASSUME NEW a \in B PROVE T(<<>>) \o a = a
    <3>1. T(<<>>) = <<>>
      BY <1>1, TerminatedOne
    <3> HIDE DEF T
    <3> QED
      BY <3>1, ConcatEmptySeq
  <2>2. Right(<<>>)
    BY <1>3, <2>1
  <2> HIDE DEF Right
  <2> QED
    BY <2>2
<1>5. ASSUME NEW s \in Seq(B), NEW b \in B, s \in S PROVE Append(s, b) \in S
  <2> DEFINE t == Append(s, b)
             u == T(s)
  <2>1. t \in Seq(B) /\ t # <<>> /\ t = s \o <<b>>
    OBVIOUS
  <2>2. Join(t) = u \o b
    BY <1>5
  <2>3. u \in Seq(A) /\ T(t) = u \o (b \o n)
    <3> DEFINE o == <<b>>
    <3>1. o \in Seq(Seq(A)) /\ s \in Seq(Seq(A))
      OBVIOUS
    <3> HIDE DEF o
    <3>2. u \in Seq(A) /\ T(s \o o) = u \o T(o)
      BY <1>1, <3>1, TerminatedConcat
    <3>3. T(o) = b \o n
      BY <1>1, TerminatedOne DEF o
    <3> QED
      BY <2>1, <3>2, <3>3 DEF o
  <2> HIDE DEF u, t, T
  <2>4. ASSUME NEW a \in B PROVE Join(Append(t, a)) = T(t) \o a
    <3>1. Join(Append(t, a)) = (u \o b) \o (n \o a)
      BY <1>2, <2>1, <2>2
    <3>2. (u \o b) \o (n \o a) = (u \o (b \o n)) \o a
      <4>1. u \in Seq(A) /\ b \in Seq(A) /\ n \in Seq(A) /\ a \in Seq(A)
        BY <1>1, <2>3
      <4> HIDE DEF n, B
      <4>2. Regrouped(u, b, n, a)
        BY <4>1, FourJoined
      <4> QED
        BY <4>2 DEF Regrouped
    <3> QED
      BY <2>3, <3>1, <3>2
  <2>5. Right(t)
    BY <2>4
  <2> HIDE DEF Right
  <2> QED
    BY <2>1, <2>5 DEF t
<1> HIDE DEF S, B
<1>6. Seq(B) \subseteq S
  BY <1>4, <1>5, AppendInduction
<1>7. Right(ls)
  BY <1>6 DEF S, B
<1>8. Append(ls, l) = ls \o <<l>>
  OBVIOUS
<1> QED
  BY <1>7, <1>8 DEF B

-----------------------------------------------------------------------------
(* The first frame of lines.                                               *)

(* No frame ends in a line.                                                *)
LEMMA SeparatorNone ==
  ASSUME NEW A, "r" \in A, NEW l \in LinesOver(A)
  PROVE  Separator(l) = 0
<1>1. l \in Seq(A) /\ l \in Seq(A \ {"n", "r"})
  BY LineIsWhole DEF LinesOver
<1>2. \A i \in DOMAIN l : l[i] # "n" /\ l[i] # "r"
  BY <1>1
<1>3. BlankLines(l) = {}
  BY <1>2 DEF BlankLines, LfLf, CrlfCrlf
<1> QED
  BY <1>1, <1>3, BlankLinesArePlaces, FirstOfPlaces

(* A part of a rest is a part of the text.                                 *)
LEMMA PartOfRest ==
  ASSUME NEW A, NEW s \in Seq(A), NEW t \in Seq(A),
         NEW i \in 1..(Len(t) + 1), NEW k \in (i - 1)..Len(t)
  PROVE  SubSeq(t, i, k) = SubSeq(s \o t, Len(s) + i, Len(s) + k)
<1> DEFINE z == s \o t
           m == Len(s)
           n == Len(t)
<1>1. z \in Seq(A) /\ Len(z) = m + n /\ m \in Nat /\ n \in Nat
  BY ConcatPlaces
<1>2. From(z, m + 1) = t
  BY ConcatCut
<1> HIDE DEF z, m
<1>3. t = SubSeq(z, m + 1, m + n)
  BY <1>1, <1>2 DEF From
<1> HIDE DEF n
<1>4. /\ m + 1 \in 1..(Len(z) + 1) /\ m + n \in (m + 1 - 1)..Len(z)
      /\ i \in 1..(m + n - (m + 1) + 2) /\ k \in (i - 1)..(m + n - (m + 1) + 1)
      /\ m + 1 + i - 1 = m + i /\ m + 1 + k - 1 = m + k
  BY <1>1 DEF n
<1>5. SubSeq(SubSeq(z, m + 1, m + n), i, k) = SubSeq(z, m + 1 + i - 1, m + 1 + k - 1)
  BY <1>1, <1>4, SubSeqOfSubSeq
<1> QED
  BY <1>3, <1>4, <1>5 DEF z, m

(* A frame ends where a blank line begins: behind a line, at its break.    *)
LEMMA SeparatorHere ==
  ASSUME NEW A, "n" \in A, "r" \in A, NEW l \in LinesOver(A), NEW break \in Breaking, NEW x \in Seq(A)
  PROVE  LET t == l \o ((break \o break) \o x)
         IN  /\ Separator(t) # 0 /\ Frame(t) = l
             /\ SeparatorOf(t) = break \o break /\ Behind(t) = x
<1> DEFINE q == break \o break
           y == q \o x
           t == l \o y
           m == Len(l)
           d == Len(q)
<1>1. l \in Seq(A) /\ l \in Seq(A \ {"n", "r"}) /\ break \in Seq(A)
  BY LineIsWhole, BreakIsText DEF LinesOver
<1>2. \A i \in 1..m : l[i] # "n" /\ l[i] # "r"
  BY <1>1
<1>3. /\ q \in Seq(A)
      /\ \/ d = 2 /\ q[1] = "n" /\ q[2] = "n"
         \/ d = 4 /\ q[1] = "r" /\ q[2] = "n" /\ q[3] = "r" /\ q[4] = "n"
  <2>1. CASE break = <<"n">>
    BY <1>1, <2>1
  <2>2. CASE break = <<"r", "n">>
    BY <1>1, <2>2
  <2> QED
    BY <2>1, <2>2 DEF Breaking
<1> HIDE DEF q
<1>4. /\ y \in Seq(A) /\ Len(y) = d + Len(x) /\ \A i \in 1..d : y[i] = q[i]
      /\ SubSeq(y, 1, d) = q /\ From(y, d + 1) = x /\ Len(x) \in Nat /\ d \in Nat
  BY <1>3, ConcatPlaces, ConcatCut
<1> HIDE DEF y, d
<1>5. /\ t \in Seq(A) /\ Len(t) = m + Len(y) /\ m \in Nat
      /\ \A i \in 1..m : t[i] = l[i]
      /\ \A i \in 1..Len(y) : t[m + i] = y[i]
  <2>1. y \in Seq(A) /\ m \in Nat
    BY <1>1, <1>4
  <2>2. /\ t \in Seq(A) /\ Len(t) = m + Len(y)
        /\ \A i \in 1..m : t[i] = l[i]
        /\ \A i \in 1..Len(y) : t[m + i] = y[i]
    BY <1>1, <2>1, ConcatPlaces
  <2> QED
    BY <2>1, <2>2
<1>6. SubSeq(t, 1, m) = l /\ From(t, m + 1) = y
  BY <1>1, <1>4, ConcatCut
<1>7. SubSeq(y, 1, d) = SubSeq(t, m + 1, m + d)
  <2>1. 1 \in 1..(Len(y) + 1) /\ d \in (1 - 1)..Len(y)
    BY <1>3, <1>4
  <2> QED
    BY <1>1, <1>4, <2>1, PartOfRest
<1> HIDE DEF t, m
<1>8. \A i \in 1..d : m + i \in 1..Len(t) /\ t[m + i] = q[i]
  <2>1. \A i \in 1..d : i \in 1..Len(y) /\ m + i \in 1..Len(t)
    BY <1>4, <1>5
  <2> QED
    BY <1>4, <1>5, <2>1
<1>9. /\ m + 1 \in 1..Len(t)
      /\ \/ LfLf(t, m + 1) /\ d = 2
         \/ CrlfCrlf(t, m + 1) /\ ~LfLf(t, m + 1) /\ d = 4
  <2>1. CASE d = 2 /\ q[1] = "n" /\ q[2] = "n"
    <3> 1 \in 1..d /\ 2 \in 1..d
      BY <2>1
    <3>1. m + 2 \in 1..Len(t) /\ t[m + 1] = "n" /\ t[m + 2] = "n" /\ m + 1 \in 1..Len(t)
      BY <1>8, <2>1
    <3>2. m + 1 + 1 = m + 2 /\ m + 2 <= Len(t)
      BY <1>5, <3>1
    <3> QED
      BY <2>1, <3>1, <3>2 DEF LfLf
  <2>2. CASE d = 4 /\ q[1] = "r" /\ q[2] = "n" /\ q[3] = "r" /\ q[4] = "n"
    <3> 1 \in 1..d /\ 2 \in 1..d /\ 3 \in 1..d /\ 4 \in 1..d
      BY <2>2
    <3>1. /\ t[m + 1] = "r" /\ t[m + 2] = "n" /\ t[m + 3] = "r" /\ t[m + 4] = "n"
          /\ m + 1 \in 1..Len(t) /\ m + 4 \in 1..Len(t)
      BY <1>8, <2>2
    <3>2. m + 1 + 1 = m + 2 /\ m + 1 + 2 = m + 3 /\ m + 1 + 3 = m + 4 /\ m + 4 <= Len(t)
      BY <1>5, <3>1
    <3> QED
      BY <2>2, <3>1, <3>2 DEF LfLf, CrlfCrlf
  <2> QED
    BY <1>3, <2>1, <2>2
<1>10. BlankLines(t) \in SUBSET (Nat \ {0}) /\ Separator(t) = FirstOf(BlankLines(t))
  BY <1>5, BlankLinesArePlaces
<1>11. m + 1 \in BlankLines(t) /\ DOMAIN t = 1..Len(t)
  BY <1>5, <1>9 DEF BlankLines
<1>12. \A j \in BlankLines(t) : m + 1 <= j
  <2> SUFFICES ASSUME NEW j \in BlankLines(t), ~(m + 1 <= j) PROVE FALSE
    OBVIOUS
  <2>1. j \in 1..m
    BY <1>5, <1>10
  <2>2. t[j] # "n" /\ t[j] # "r"
    BY <1>2, <1>5, <2>1 DEF m
  <2> QED
    BY <2>2 DEF BlankLines, LfLf, CrlfCrlf
<1>13. Separator(t) = m + 1
  BY <1>10, <1>11, <1>12, FirstOfIs
<1>14. SeparatorLength(t, m + 1) = d
  BY <1>9 DEF SeparatorLength
<1>15. Frame(t) = l
  <2>1. m + 1 - 1 = m
    BY <1>5
  <2> QED
    BY <1>5, <1>6, <1>13, <2>1 DEF Frame
<1>16. SeparatorOf(t) = q
  <2>1. m + 1 + d - 1 = m + d
    BY <1>4, <1>5
  <2> QED
    BY <1>4, <1>7, <1>13, <1>14, <2>1 DEF SeparatorOf
<1>17. Behind(t) = x
  <2>1. /\ m + 1 \in 1..(Len(t) + 1) /\ d + 1 \in 1..(Len(t) - (m + 1) + 2)
        /\ m + 1 + (d + 1) - 1 = m + 1 + d
    BY <1>4, <1>5
  <2>2. From(From(t, m + 1), d + 1) = From(t, m + 1 + (d + 1) - 1)
    BY <1>5, <2>1, FromFrom
  <2> QED
    BY <1>4, <1>6, <1>13, <1>14, <2>1, <2>2 DEF Behind
<1>18. Separator(t) # 0
  BY <1>5, <1>13
<1> QED
  BY <1>15, <1>16, <1>17, <1>18 DEF t, y, q

(* A text that does not begin with a break.                                *)
BeginsLine(y) == y # <<>> => y[1] # "n" /\ y[1] # "r"

(* Before it, a line and its break belong to its frame.                    *)
LEMMA SeparatorLater ==
  ASSUME NEW A, "n" \in A, "r" \in A, NEW l \in LinesOver(A), NEW break \in Breaking,
         NEW y \in Seq(A), BeginsLine(y)
  PROVE  LET t == (l \o break) \o y
         IN  /\ Separator(y) = 0 => Separator(t) = 0
             /\ Separator(y) # 0 =>
                  /\ Separator(t) # 0 /\ Frame(t) = (l \o break) \o Frame(y)
                  /\ SeparatorOf(t) = SeparatorOf(y) /\ Behind(t) = Behind(y)
<1> DEFINE b == l \o break
           t == b \o y
           m == Len(l)
           e == Len(b)
<1>1. l \in Seq(A) /\ l \in Seq(A \ {"n", "r"}) /\ break \in Seq(A)
  BY LineIsWhole, BreakIsText DEF LinesOver
<1>2. \A i \in 1..m : l[i] # "n" /\ l[i] # "r"
  BY <1>1
<1>3. /\ b \in Seq(A) /\ m \in Nat /\ \A i \in 1..m : b[i] = l[i]
      /\ \/ e = m + 1 /\ b[m + 1] = "n"
         \/ e = m + 2 /\ b[m + 1] = "r" /\ b[m + 2] = "n"
  <2>1. /\ b \in Seq(A) /\ e = m + Len(break) /\ \A i \in 1..m : b[i] = l[i]
        /\ \A i \in 1..Len(break) : b[m + i] = break[i]
    BY <1>1, ConcatPlaces
  <2>2. \/ Len(break) = 1 /\ break[1] = "n"
        \/ Len(break) = 2 /\ break[1] = "r" /\ break[2] = "n"
    BY DEF Breaking
  <2>3. m \in Nat
    BY <1>1
  <2> HIDE DEF b, e, m
  <2>4. CASE Len(break) = 1 /\ break[1] = "n"
    <3>1. b[m + 1] = break[1] /\ e = m + 1
      BY <2>1, <2>4
    <3> QED
      BY <2>1, <2>3, <2>4, <3>1
  <2>5. CASE Len(break) = 2 /\ break[1] = "r" /\ break[2] = "n"
    <3>1. b[m + 1] = break[1] /\ b[m + 2] = break[2] /\ e = m + 2
      BY <2>1, <2>5
    <3> QED
      BY <2>1, <2>3, <2>5, <3>1
  <2> QED
    BY <2>2, <2>4, <2>5
<1> HIDE DEF b
<1>4. /\ t \in Seq(A) /\ Len(t) = e + Len(y) /\ Len(y) \in Nat
      /\ \A i \in 1..e : t[i] = b[i]
      /\ \A i \in 1..Len(y) : t[e + i] = y[i]
  BY <1>3, ConcatPlaces
<1>5. SubSeq(t, 1, e) = b /\ From(t, e + 1) = y
  BY <1>3, ConcatCut
<1>6. \A i \in 1..(Len(y) + 1), k \in 0..Len(y) :
         k \in (i - 1)..Len(y) => SubSeq(y, i, k) = SubSeq(t, e + i, e + k)
  BY <1>3, PartOfRest
<1> HIDE DEF t, e, m
<1>7. e \in Nat
  BY <1>3
<1>8. ASSUME NEW j \in BlankLines(t) PROVE j > e
  <2>1. j \in 1..Len(t) /\ (LfLf(t, j) \/ CrlfCrlf(t, j))
    BY <1>4 DEF BlankLines
  <2>2. CASE j \in 1..m
    <3>1. t[j] = l[j]
      BY <1>3, <1>4, <2>2
    <3> QED
      BY <1>2, <2>1, <2>2, <3>1 DEF LfLf, CrlfCrlf, m
  <2>3. e + 1 \in 1..Len(t) => t[e + 1] # "n" /\ t[e + 1] # "r"
    <3> SUFFICES ASSUME e + 1 \in 1..Len(t) PROVE t[e + 1] # "n" /\ t[e + 1] # "r"
      OBVIOUS
    <3>1. 1 \in 1..Len(y)
      BY <1>4, <1>7
    <3>2. y # <<>> /\ t[e + 1] = y[1]
      BY <1>4, <3>1
    <3> QED
      BY <3>2 DEF BeginsLine
  <2>4. CASE e = m + 1 /\ b[m + 1] = "n" /\ j = m + 1
    <3>1. t[j] = "n"
      BY <1>3, <1>4, <2>4
    <3>2. LfLf(t, j)
      BY <2>1, <3>1 DEF CrlfCrlf
    <3> QED
      BY <1>3, <2>1, <2>3, <2>4, <3>2 DEF LfLf
  <2>5. CASE e = m + 2 /\ b[m + 1] = "r" /\ b[m + 2] = "n" /\ j = m + 1
    <3>1. t[j] = "r"
      BY <1>3, <1>4, <2>5
    <3>2. CrlfCrlf(t, j)
      BY <2>1, <3>1 DEF LfLf
    <3>3. j + 2 = e + 1 /\ j + 2 \in 1..Len(t) /\ t[j + 2] = "r"
      BY <1>3, <1>4, <2>1, <2>5, <3>2 DEF CrlfCrlf
    <3> QED
      BY <2>3, <3>3
  <2>6. CASE e = m + 2 /\ b[m + 1] = "r" /\ b[m + 2] = "n" /\ j = m + 2
    <3>1. t[j] = "n"
      BY <1>3, <1>4, <2>6
    <3>2. LfLf(t, j)
      BY <2>1, <3>1 DEF CrlfCrlf
    <3>3. j + 1 = e + 1 /\ j + 1 \in 1..Len(t) /\ t[j + 1] = "n"
      BY <1>3, <1>4, <2>1, <2>6, <3>2 DEF LfLf
    <3> QED
      BY <2>3, <3>3
  <2> QED
    BY <1>3, <2>1, <2>2, <2>4, <2>5, <2>6
<1>9. ASSUME NEW i \in 1..Len(y)
      PROVE  (LfLf(t, e + i) <=> LfLf(y, i)) /\ (CrlfCrlf(t, e + i) <=> CrlfCrlf(y, i))
  <2>1. /\ e + i + 1 <= Len(t) <=> i + 1 <= Len(y)
        /\ e + i + 3 <= Len(t) <=> i + 3 <= Len(y)
        /\ e + i + 1 = e + (i + 1) /\ e + i + 2 = e + (i + 2) /\ e + i + 3 = e + (i + 3)
    BY <1>4, <1>7
  <2>2. t[e + i] = y[i]
    BY <1>4
  <2>3. i + 1 <= Len(y) => i + 1 \in 1..Len(y)
    BY <1>4
  <2>4. i + 3 <= Len(y) => i + 1 \in 1..Len(y) /\ i + 2 \in 1..Len(y) /\ i + 3 \in 1..Len(y)
    BY <1>4
  <2>5. i + 1 <= Len(y) => t[e + i + 1] = y[i + 1]
    BY <1>4, <2>1, <2>3
  <2>6. i + 3 <= Len(y) => t[e + i + 1] = y[i + 1] /\ t[e + i + 2] = y[i + 2] /\ t[e + i + 3] = y[i + 3]
    BY <1>4, <2>1, <2>4
  <2> QED
    BY <2>1, <2>2, <2>5, <2>6 DEF LfLf, CrlfCrlf
<1>10. \A i \in BlankLines(y) : i \in 1..Len(y) /\ e + i \in BlankLines(t)
  <2> SUFFICES ASSUME NEW i \in BlankLines(y) PROVE i \in 1..Len(y) /\ e + i \in BlankLines(t)
    OBVIOUS
  <2>1. i \in 1..Len(y) /\ (LfLf(y, i) \/ CrlfCrlf(y, i))
    BY DEF BlankLines
  <2>2. e + i \in DOMAIN t
    BY <1>4, <1>7, <2>1
  <2> QED
    BY <1>9, <2>1, <2>2 DEF BlankLines
<1>11. \A j \in BlankLines(t) : j \in Nat /\ j - e \in BlankLines(y)
  <2> SUFFICES ASSUME NEW j \in BlankLines(t) PROVE j \in Nat /\ j - e \in BlankLines(y)
    OBVIOUS
  <2> DEFINE i == j - e
  <2>1. j \in 1..Len(t) /\ (LfLf(t, j) \/ CrlfCrlf(t, j)) /\ j > e
    BY <1>4, <1>8 DEF BlankLines
  <2>2. i \in 1..Len(y) /\ e + i = j /\ j \in Nat
    BY <1>4, <1>7, <2>1
  <2> HIDE DEF i
  <2>3. LfLf(y, i) \/ CrlfCrlf(y, i)
    BY <1>9, <2>1, <2>2
  <2>4. i \in BlankLines(y)
    BY <2>2, <2>3 DEF BlankLines
  <2> QED
    BY <2>2, <2>4 DEF i
<1>12. /\ BlankLines(t) \in SUBSET (Nat \ {0}) /\ Separator(t) = FirstOf(BlankLines(t))
       /\ BlankLines(y) \in SUBSET (Nat \ {0}) /\ Separator(y) = FirstOf(BlankLines(y))
  BY <1>4, BlankLinesArePlaces
<1>13. ASSUME Separator(y) = 0 PROVE Separator(t) = 0
  <2>1. BlankLines(y) = {}
    BY <1>12, <1>13, FirstOfPlaces
  <2>2. BlankLines(t) = {}
    BY <1>11, <2>1
  <2> QED
    BY <1>12, <2>2, FirstOfPlaces
<1> DEFINE p == Separator(y)
           d == SeparatorLength(y, p)
<1>14. ASSUME p # 0
       PROVE  /\ Separator(t) # 0 /\ Frame(t) = b \o Frame(y)
              /\ SeparatorOf(t) = SeparatorOf(y) /\ Behind(t) = Behind(y)
  <2>1. p \in 1..Len(y) /\ d \in {2, 4} /\ p + d \in 1..(Len(y) + 1)
    BY <1>14, SeparatorInside
  <2>2. p \in BlankLines(y) /\ \A i \in BlankLines(y) : p <= i
    <3>1. BlankLines(y) # {}
      BY <1>12, <1>14, FirstOfPlaces
    <3> QED
      BY <1>12, <3>1, FirstOfPlaces
  <2>3. Frame(y) = SubSeq(y, 1, p - 1) /\ SeparatorOf(y) = SubSeq(y, p, p + d - 1)
        /\ Behind(y) = From(y, p + d)
    BY DEF Frame, SeparatorOf, Behind
  <2>4. d = IF LfLf(y, p) THEN 2 ELSE 4
    BY DEF SeparatorLength
  <2> HIDE DEF p, d
  <2>5. e + p \in BlankLines(t)
    BY <1>10, <2>2
  <2>6. \A j \in BlankLines(t) : e + p <= j
    <3> SUFFICES ASSUME NEW j \in BlankLines(t) PROVE e + p <= j
      OBVIOUS
    <3>1. j \in Nat /\ j - e \in BlankLines(y)
      BY <1>11
    <3>2. p <= j - e
      BY <2>2, <3>1
    <3> QED
      BY <1>7, <2>1, <3>1, <3>2
  <2>7. Separator(t) = e + p
    BY <1>12, <2>5, <2>6, FirstOfIs
  <2>8. SeparatorLength(t, e + p) = d
    BY <1>9, <2>1, <2>4 DEF SeparatorLength
  <2>9. Frame(t) = b \o Frame(y)
    <3> DEFINE k == e + p - 1
    <3>1. /\ p - 1 \in 0..Len(y) /\ 1 \in 1..(Len(y) + 1) /\ p - 1 \in (1 - 1)..Len(y)
          /\ e + (p - 1) = k
      BY <1>4, <1>7, <2>1
    <3>2. SubSeq(y, 1, p - 1) = SubSeq(t, e + 1, e + (p - 1))
      BY <1>6, <3>1
    <3>3. 1 \in 1..(Len(t) + 1) /\ e \in (1 - 1)..Len(t) /\ k \in e..Len(t)
      BY <1>4, <1>7, <2>1
    <3> HIDE DEF k
    <3>4. SubSeq(t, 1, e) \o SubSeq(t, e + 1, k) = SubSeq(t, 1, k)
      BY <1>4, <3>3, ConcatAdjacentSubSeq
    <3>5. Frame(t) = SubSeq(t, 1, k)
      BY <1>7, <2>1, <2>7 DEF Frame, k
    <3> QED
      BY <1>5, <2>3, <3>1, <3>2, <3>4, <3>5
  <2>10. SeparatorOf(t) = SeparatorOf(y)
    <3>1. /\ p \in 1..(Len(y) + 1) /\ p + d - 1 \in 0..Len(y) /\ p + d - 1 \in (p - 1)..Len(y)
          /\ e + (p + d - 1) = e + p + d - 1
      BY <1>4, <1>7, <2>1
    <3>2. SubSeq(y, p, p + d - 1) = SubSeq(t, e + p, e + (p + d - 1))
      BY <1>6, <3>1
    <3>3. SeparatorOf(t) = SubSeq(t, e + p, e + p + d - 1)
      BY <2>7, <2>8 DEF SeparatorOf
    <3> QED
      BY <2>3, <3>1, <3>2, <3>3
  <2>11. Behind(t) = Behind(y)
    <3>1. /\ e + 1 \in 1..(Len(t) + 1) /\ p + d \in 1..(Len(t) - (e + 1) + 2)
          /\ e + 1 + (p + d) - 1 = e + p + d
      BY <1>4, <1>7, <2>1
    <3>2. From(From(t, e + 1), p + d) = From(t, e + 1 + (p + d) - 1)
      BY <1>4, <3>1, FromFrom
    <3>3. Behind(t) = From(t, e + p + d)
      BY <2>7, <2>8 DEF Behind
    <3> QED
      BY <1>5, <2>3, <3>1, <3>2, <3>3
  <2>12. Separator(t) # 0
    BY <1>7, <2>1, <2>7
  <2> QED
    BY <2>9, <2>10, <2>11, <2>12
<1> QED
  BY <1>13, <1>14 DEF t, b, p

(* Lines none of which is blank, and lines of which only the first may be. *)
NoBlank(ls) == \A i \in 1..Len(ls) : ls[i] # <<>>
BlankFirst(ls) == \A i \in 2..Len(ls) : ls[i] # <<>>

(* One line more in front.                                                 *)
LEMMA BlankInFront ==
  ASSUME NEW B, NEW a \in B, NEW ls \in Seq(B)
  PROVE  /\ NoBlank(ls) => BlankFirst(<<a>> \o ls)
         /\ BlankFirst(ls) /\ ls # <<>> /\ ls[1] # <<>> => NoBlank(ls)
<1> DEFINE o == <<a>>
           z == o \o ls
<1>1. o \in Seq(B) /\ Len(o) = 1
  OBVIOUS
<1> HIDE DEF o
<1>2. /\ Len(z) = 1 + Len(ls) /\ Len(ls) \in Nat
      /\ \A i \in 1..Len(ls) : z[1 + i] = ls[i]
  BY <1>1, ConcatPlaces
<1> HIDE DEF z
<1>3. ASSUME NoBlank(ls), NEW i \in 2..Len(z) PROVE z[i] # <<>>
  <2> DEFINE k == i - 1
  <2>1. k \in 1..Len(ls) /\ 1 + k = i
    BY <1>2
  <2> HIDE DEF k
  <2>2. z[i] = ls[k]
    BY <1>2, <2>1
  <2> QED
    BY <1>3, <2>1, <2>2 DEF NoBlank
<1>4. NoBlank(ls) => BlankFirst(z)
  BY <1>3 DEF BlankFirst
<1>5. BlankFirst(ls) /\ ls # <<>> /\ ls[1] # <<>> => NoBlank(ls)
  <2> SUFFICES ASSUME BlankFirst(ls), ls # <<>>, ls[1] # <<>>, NEW i \in 1..Len(ls) PROVE ls[i] # <<>>
    BY DEF NoBlank
  <2>1. i = 1 \/ i \in 2..Len(ls)
    BY <1>2
  <2> QED
    BY <2>1 DEF BlankFirst
<1> QED
  BY <1>4, <1>5 DEF z, o

(* The first frame of some lines is those before a blank one, the first    *)
(* line of all aside.                                                      *)
CutAt(break, ls, l, t, hs, h, us) ==
  /\ Separator(t) # 0 /\ BlankFirst(hs \o <<h>>)
  /\ ls = (hs \o <<h>>) \o (<<(<<>>)>> \o us)
  /\ Frame(t) = Terminated(hs, break) \o h
  /\ SeparatorOf(t) = break \o break
  /\ Behind(t) = Terminated(us, break) \o l
Framed(A, break, ls, l, t) ==
  \/ Separator(t) = 0 /\ BlankFirst(ls)
  \/ \E hs \in Seq(LinesOver(A)), h \in LinesOver(A), us \in Seq(LinesOver(A)) :
       CutAt(break, ls, l, t, hs, h, us)

(* One line more in front of other lines.                                  *)
InFront(break, a, ls, l) ==
  Terminated(<<a>> \o ls, break) \o l = (a \o break) \o (Terminated(ls, break) \o l)

(* It comes with its break.                                                *)
LEMMA TerminatedBefore ==
  ASSUME NEW A, NEW break \in Seq(A), NEW a \in Seq(A), NEW ls \in Seq(Seq(A)), NEW l \in Seq(A)
  PROVE  /\ Terminated(ls, break) \o l \in Seq(A)
         /\ InFront(break, a, ls, l)
<1> DEFINE u == Terminated(ls, break)
           z == Terminated(<<a>> \o ls, break)
<1>1. u \in Seq(A) /\ z = a \o (break \o u)
  BY TerminatedFirst
<1> HIDE DEF u, z
<1>2. Regrouped(a, break, u, l)
  BY <1>1, FourJoined
<1>3. u \o l \in Seq(A)
  BY <1>1, ConcatShape
<1> QED
  BY <1>1, <1>2, <1>3 DEF Regrouped, InFront, u, z

(* That is so of every lines.                                              *)
LEMMA FirstFrame ==
  ASSUME NEW A, "n" \in A, "r" \in A, NEW ls \in Seq(LinesOver(A)), NEW l \in LinesOver(A),
         NEW break \in Breaking
  PROVE  Framed(A, break, ls, l, Terminated(ls, break) \o l)
<1> DEFINE B == LinesOver(A)
           T(s) == Terminated(s, break)
           S == {s \in Seq(B) : Framed(A, break, s, l, T(s) \o l)}
<1>1. break \in Seq(A) /\ l \in Seq(A) /\ BeginsLine(l)
  <2>1. l \in Seq(A \ {"n", "r"})
    BY DEF LinesOver
  <2>2. BeginsLine(l)
    BY <2>1 DEF BeginsLine
  <2> QED
    BY <2>2, BreakIsText, LineIsWhole
<1>2. <<>> \in S
  <2>1. T(<<>>) = <<>>
    BY <1>1, TerminatedOne
  <2>2. <<>> \o l = l
    BY <1>1, ConcatEmptySeq
  <2>3. Separator(l) = 0
    BY SeparatorNone
  <2>4. BlankFirst(<<>>) /\ <<>> \in Seq(B)
    BY DEF BlankFirst
  <2> HIDE DEF T, B
  <2>5. Framed(A, break, <<>>, l, T(<<>>) \o l)
    BY <2>1, <2>2, <2>3, <2>4 DEF Framed
  <2> QED
    BY <2>4, <2>5
<1>3. ASSUME NEW s \in Seq(B), NEW a \in B, s \in S PROVE <<a>> \o s \in S
  <2> DEFINE o == <<a>>
             z == o \o s
             t == T(z) \o l
             y == T(s) \o l
  <2>1. a \in Seq(A) /\ s \in Seq(Seq(A)) /\ o \in Seq(B) /\ z \in Seq(B)
    BY LinesAreTexts
  <2>2. y \in Seq(A) /\ t = (a \o break) \o y
    <3>1. y \in Seq(A) /\ InFront(break, a, s, l)
      BY <1>1, <2>1, TerminatedBefore
    <3> QED
      BY <3>1 DEF InFront
  <2>3. Framed(A, break, s, l, y)
    BY <1>3
  <2> SUFFICES Framed(A, break, z, l, t)
    <3> HIDE DEF B, T
    <3> QED
      BY <2>1
  <2> HIDE DEF t, y, z, S
  <2>4. ASSUME BeginsLine(y)
        PROVE  /\ Separator(y) = 0 => Separator(t) = 0
               /\ Separator(y) # 0 =>
                    /\ Separator(t) # 0 /\ Frame(t) = (a \o break) \o Frame(y)
                    /\ SeparatorOf(t) = SeparatorOf(y) /\ Behind(t) = Behind(y)
    BY <2>2, <2>4, SeparatorLater
  <2>5. CASE s = <<>>
    <3>1. y = l
      <4>1. T(<<>>) = <<>>
        BY <1>1, TerminatedOne
      <4> QED
        BY <1>1, <2>5, <4>1, ConcatEmptySeq DEF y
    <3>2. Separator(t) = 0
      BY <1>1, <2>4, <3>1, SeparatorNone
    <3>3. BlankFirst(z)
      <4>1. NoBlank(s)
        BY <2>5 DEF NoBlank
      <4> HIDE DEF B
      <4> QED
        BY <4>1, BlankInFront DEF z
    <3> QED
      BY <3>2, <3>3 DEF Framed
  <2>6. CASE s # <<>> /\ s[1] = <<>>
    <3> DEFINE v == Tail(s)
               e == <<(<<>>)>>
               w == T(v) \o l
    <3>1. s = e \o v /\ v \in Seq(B) /\ e \in Seq(B)
      <4>1. <<>> \in B
        BY DEF LinesOver
      <4> HIDE DEF B
      <4> QED
        BY <2>6, <4>1
    <3>2. v \in Seq(Seq(A)) /\ <<>> \in Seq(A)
      BY <3>1, LinesAreTexts
    <3>3. w \in Seq(A) /\ y = (<<>> \o break) \o w
      <4>1. w \in Seq(A) /\ InFront(break, <<>>, v, l)
        BY <1>1, <3>2, TerminatedBefore
      <4> QED
        BY <3>1, <4>1 DEF InFront, y
    <3>4. <<>> \o break = break
      BY <1>1, ConcatEmptySeq
    <3> HIDE DEF w, v, e, T
    <3>5. t = a \o ((break \o break) \o w)
      <4>1. Regrouped(a, break, break, w)
        BY <1>1, <2>1, <3>3, FourJoined
      <4>2. (break \o break) \o w = break \o (break \o w)
        BY <1>1, <3>3, ConcatAssociative
      <4> QED
        BY <2>2, <3>3, <3>4, <4>1, <4>2 DEF Regrouped
    <3>6. /\ Separator(t) # 0 /\ Frame(t) = a
          /\ SeparatorOf(t) = break \o break /\ Behind(t) = w
      BY <3>3, <3>5, SeparatorHere
    <3>7. BlankFirst(<<>> \o o)
      BY DEF BlankFirst
    <3>8. z = (<<>> \o o) \o (e \o v)
      <4>1. <<>> \o o = o
        BY <2>1, ConcatEmptySeq
      <4> QED
        BY <3>1, <4>1 DEF z
    <3>9. a = T(<<>>) \o a
      <4>1. T(<<>>) = <<>>
        BY <1>1, TerminatedOne DEF T
      <4> QED
        BY <2>1, <4>1, ConcatEmptySeq
    <3>10. CutAt(break, z, l, t, <<>>, a, v)
      BY <3>6, <3>7, <3>8, <3>9 DEF CutAt, w, e, T, o
    <3>11. <<>> \in Seq(B)
      OBVIOUS
    <3> HIDE DEF B
    <3>12. \E hs \in Seq(B), h \in B, us \in Seq(B) : CutAt(break, z, l, t, hs, h, us)
      BY <3>1, <3>10, <3>11
    <3> QED
      BY <3>12 DEF Framed, B
  <2>7. CASE s # <<>> /\ s[1] # <<>>
    <3>1. BeginsLine(y)
      <4> DEFINE f == s[1]
                 v == Tail(s)
                 w == T(v) \o l
                 fb == f \o break
      <4>1. s = <<f>> \o v /\ v \in Seq(B) /\ f \in B
        <5> HIDE DEF B
        <5> QED
          BY <2>7
      <4>2. v \in Seq(Seq(A)) /\ f \in Seq(A) /\ f \in Seq(A \ {"n", "r"})
        BY <4>1, LinesAreTexts DEF LinesOver
      <4>3. w \in Seq(A) /\ y = fb \o w
        <5>1. w \in Seq(A) /\ InFront(break, f, v, l)
          BY <1>1, <4>2, TerminatedBefore
        <5> QED
          BY <4>1, <5>1 DEF InFront, y
      <4>4. f # <<>> /\ 1 \in 1..Len(f) /\ f[1] # "n" /\ f[1] # "r"
        BY <2>7, <4>2
      <4> HIDE DEF f, w
      <4>5. fb \in Seq(A) /\ fb[1] = f[1] /\ 1 \in 1..Len(fb)
        BY <1>1, <4>2, <4>4
      <4> HIDE DEF fb
      <4>6. (fb \o w)[1] = fb[1]
        BY <4>3, <4>5
      <4> QED
        BY <4>3, <4>4, <4>5, <4>6 DEF BeginsLine
    <3>2. CASE Separator(y) = 0 /\ BlankFirst(s)
      <4>1. Separator(t) = 0
        BY <2>4, <3>1, <3>2
      <4>2. BlankFirst(z)
        <5> HIDE DEF B
        <5> QED
          BY <2>7, <3>2, BlankInFront DEF z
      <4> QED
        BY <4>1, <4>2 DEF Framed
    <3>3. ASSUME NEW hs \in Seq(B), NEW h \in B, NEW us \in Seq(B), CutAt(break, s, l, y, hs, h, us)
          PROVE  Framed(A, break, z, l, t)
      <4> DEFINE p == <<h>>
                 hp == hs \o p
                 r == <<(<<>>)>> \o us
                 gs == o \o hs
      <4>1. /\ Separator(y) # 0 /\ BlankFirst(hp) /\ s = hp \o r
            /\ Frame(y) = T(hs) \o h
            /\ SeparatorOf(y) = break \o break
            /\ Behind(y) = T(us) \o l
        BY <3>3 DEF CutAt
      <4>2. p \in Seq(B) /\ <<(<<>>)>> \in Seq(B)
        <5>1. <<>> \in B
          BY DEF LinesOver
        <5> HIDE DEF B
        <5> QED
          BY <5>1
      <4>3. hs \in Seq(Seq(A)) /\ h \in Seq(A)
        BY LinesAreTexts
      <4>4. T(gs) \o h = (a \o break) \o (T(hs) \o h)
        <5>1. InFront(break, a, hs, h)
          BY <1>1, <2>1, <4>3, TerminatedBefore
        <5> QED
          BY <5>1 DEF InFront
      <4> HIDE DEF T, p
      <4>5. Frame(t) = T(gs) \o h /\ Separator(t) # 0 /\ SeparatorOf(t) = break \o break
            /\ Behind(t) = T(us) \o l
        BY <2>4, <3>1, <4>1, <4>4
      <4> HIDE DEF o
      <4>6. r \in Seq(B) /\ hp \in Seq(B) /\ gs \in Seq(B) /\ gs \o p = o \o hp
        <5> HIDE DEF B
        <5>1. r \in Seq(B)
          BY <4>2, ConcatShape
        <5>2. hp \in Seq(B)
          BY <4>2, ConcatShape
        <5>3. gs \in Seq(B)
          BY <2>1, ConcatShape
        <5>4. gs \o p = o \o hp
          <6>1. Associates(o, hs, p)
            BY <2>1, <4>2, ThreeInARow
          <6> QED
            BY <6>1 DEF Associates
        <5> QED
          BY <5>1, <5>2, <5>3, <5>4
      <4> HIDE DEF r, hp, gs
      <4>7. z = (gs \o p) \o r
        <5> HIDE DEF B
        <5>1. Associates(o, hp, r)
          BY <2>1, <4>6, ThreeInARow
        <5>2. s = hp \o r
          BY <4>1 DEF hp, r
        <5> QED
          BY <4>6, <5>1, <5>2 DEF z, Associates
      <4>8. hp # <<>> /\ hp[1] # <<>>
        <5> HIDE DEF B
        <5>1. hp # <<>>
          BY <4>2 DEF hp, p
        <5>2. 1 \in 1..Len(hp)
          BY <4>6, <5>1
        <5>3. (hp \o r)[1] = hp[1]
          BY <4>6, <5>2, ConcatPlaces
        <5> QED
          BY <2>7, <4>1, <5>1, <5>3
      <4>9. BlankFirst(gs \o p)
        <5> HIDE DEF B
        <5>1. NoBlank(hp)
          BY <4>1, <4>6, <4>8, BlankInFront
        <5>2. BlankFirst(o \o hp)
          BY <4>6, <5>1, BlankInFront DEF o
        <5> QED
          BY <4>6, <5>2
      <4>10. CutAt(break, z, l, t, gs, h, us)
        BY <4>5, <4>7, <4>9 DEF CutAt, T, p, r
      <4> HIDE DEF B
      <4>11. \E ks \in Seq(B), k \in B, vs \in Seq(B) : CutAt(break, z, l, t, ks, k, vs)
        BY <4>6, <4>10
      <4> QED
        BY <4>11 DEF Framed, B
    <3> QED
      BY <2>3, <3>2, <3>3 DEF Framed
  <2> QED
    BY <2>5, <2>6, <2>7
<1> HIDE DEF S, B
<1>4. Seq(B) \subseteq S
  BY <1>2, <1>3, PrependInduction
<1> QED
  BY <1>4 DEF S, B

(* What the text of a frame is like: lines with breaks between them, of    *)
(* which the last one is not blank where there are several.                *)
FrameShape(A, feed, t) ==
  \E ls \in Seq(LinesOver(A)), l \in LinesOver(A) :
    (l # <<>> \/ ls = <<>>) /\ t = Terminated(ls, feed) \o l

(* What a frame and the blank line behind it add to the lines.             *)
Gap(t) == IF t = <<>> THEN <<(<<>>), (<<>>)>> ELSE <<(<<>>)>>
GapFollows(break, t, x) == Lines((t \o (break \o break)) \o x) = (Lines(t) \o Gap(t)) \o Lines(x)

(* The lines of a frame, a blank one, and those of what comes behind.      *)
LEMMA FrameLines ==
  ASSUME NEW A, "n" \in A, "r" \in A, NEW feed \in Breaking, NEW frame, FrameShape(A, feed, frame),
         NEW break \in Breaking, NEW x \in Seq(A)
  PROVE  GapFollows(break, frame, x)
<1> PICK ls \in Seq(LinesOver(A)), l \in LinesOver(A) :
       (l # <<>> \/ ls = <<>>) /\ frame = Terminated(ls, feed) \o l
  BY DEF FrameShape
<1> DEFINE B == LinesOver(A)
           u == Terminated(ls, feed)
           t == u \o l
           e == <<>>
           w == break \o x
           v == break \o w
<1>1. /\ feed \in Seq(A) /\ break \in Seq(A) /\ l \in Seq(A) /\ OneLine(l)
      /\ ls \in Seq(Seq(A)) /\ e \in B /\ e \in Seq(A)
  BY BreakIsText, LineIsWhole, LinesAreTexts DEF LinesOver
<1>2. u \in Seq(A)
  BY <1>1, TerminatedConcat
<1>3. t \in Seq(A)
  BY <1>1, <1>2, ConcatShape
<1>4. w \in Seq(A) /\ v \in Seq(A)
  BY <1>1
<1>5. Lines(t) = ls \o Lines(l) /\ Lines(l) = IF l = <<>> THEN <<>> ELSE <<l>>
  BY <1>1, LinesTerminated, LinesLast
<1>6. Lines(w) = <<e>> \o Lines(x)
  <2>1. Lines(e \o (break \o x)) = <<e>> \o Lines(x)
    BY <1>1, LinesBreak
  <2>2. e \o w = w
    BY <1>4, ConcatEmptySeq
  <2> QED
    BY <2>1, <2>2
<1>7. Lines(l \o v) = <<l>> \o (<<e>> \o Lines(x))
  <2> HIDE DEF w
  <2>1. Lines(l \o (break \o w)) = <<l>> \o Lines(w)
    BY <1>4, LinesBreak
  <2> QED
    BY <1>6, <2>1
<1>8. Lines(u \o (l \o v)) = ls \o Lines(l \o v)
  <2> HIDE DEF v
  <2>1. l \o v \in Seq(A)
    BY <1>1, <1>4, ConcatShape
  <2> QED
    BY <2>1, LinesTerminated
<1>9. (t \o (break \o break)) \o x = u \o (l \o v)
  <2> HIDE DEF u, t, w, v
  <2> DEFINE q == break \o break
  <2>1. q \in Seq(A)
    BY <1>1, ConcatShape
  <2>2. Associates(break, break, x)
    BY <1>1, ThreeInARow
  <2>3. q \o x = v
    BY <2>2 DEF Associates, v, w
  <2> HIDE DEF q
  <2>4. Associates(t, q, x)
    BY <1>3, <2>1, ThreeInARow
  <2>5. Associates(u, l, v)
    BY <1>1, <1>2, <1>4, ThreeInARow
  <2>6. (t \o q) \o x = t \o v
    BY <2>3, <2>4 DEF Associates
  <2>7. t \o v = u \o (l \o v)
    BY <2>5 DEF Associates, t
  <2> QED
    BY <2>6, <2>7 DEF q
<1>10. CASE l = <<>>
  <2>1. ls = <<>> /\ u = <<>> /\ t = <<>>
    <3>1. ls = <<>>
      BY <1>10
    <3>2. u = <<>>
      BY <1>1, <3>1, TerminatedOne
    <3> QED
      BY <1>10, <3>1, <3>2
  <2> DEFINE C == Seq(A)
             y == Lines(x)
  <2>2. y \in Seq(C) /\ e \in C
    BY <1>1, LinesType
  <2> HIDE DEF C, y
  <2>3. <<>> \o (<<e>> \o (<<e>> \o y)) = (<<>> \o <<e, e>>) \o y
    BY <2>2
  <2>4. Lines(t) = <<>>
    BY <1>1, <1>10, <2>1, LinesLast
  <2> HIDE DEF t, u, v
  <2>5. Lines(u \o (l \o v)) = <<>> \o (<<e>> \o (<<e>> \o y))
    BY <1>7, <1>8, <1>10, <2>1 DEF y
  <2> QED
    BY <1>9, <1>10, <2>1, <2>3, <2>4, <2>5 DEF Gap, GapFollows, y, t, u
<1>11. CASE l # <<>>
  <2> DEFINE C == Seq(A)
             y == Lines(x)
             o == <<l>>
             g == <<e>>
  <2>1. t # <<>>
    BY <1>1, <1>2, <1>11
  <2>2. y \in Seq(C) /\ o \in Seq(C) /\ g \in Seq(C) /\ ls \in Seq(C)
    BY <1>1, LinesType
  <2>3. Lines(t) = ls \o o
    BY <1>5, <1>11
  <2>4. Lines(u \o (l \o v)) = ls \o (o \o (g \o y))
    BY <1>7, <1>8
  <2> HIDE DEF C, y, t, u, v, o, g
  <2>5. ls \o (o \o (g \o y)) = ((ls \o o) \o g) \o y
    <3>1. Regrouped(ls, o, g, y)
      BY <2>2, FourJoined
    <3>2. Associates(ls, o, g)
      BY <2>2, ThreeInARow
    <3> QED
      BY <3>1, <3>2 DEF Regrouped, Associates
  <2> QED
    BY <1>9, <1>11, <2>1, <2>3, <2>4, <2>5 DEF Gap, GapFollows, y, t, u, o, g
<1> QED
  BY <1>10, <1>11 DEF t, u
=============================================================================
