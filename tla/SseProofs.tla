------------------------------ MODULE SseProofs -----------------------------
(***************************************************************************)
(* What holds of the two readers for every body and every way of cutting   *)
(* it into chunks: their buffers hold the end of what has arrived, between *)
(* two chunks without a complete frame, and both refine Framing: each      *)
(* frame that is complete is handled once, in order, before more is read.  *)
(* The frames of a text are a recursive function; FramesGrow says by       *)
(* induction over the text that what arrives only adds frames behind the   *)
(* complete ones.  Of a body in one spelling of line breaks the rewriter   *)
(* sends the same events: each frame is a sequence of lines, and what is   *)
(* sent before the next frame reads as what has been taken.  The turn      *)
(* hands on the texts of the same events: what damage does to a text is    *)
(* followed, place by place, to its lines, its data and its delta.         *)
(***************************************************************************)
EXTENDS SseTurns, TextLinesProofs


-----------------------------------------------------------------------------
(* The frames of a text.                                                   *)
NextFrom(t, i) == i + Separator(From(t, i)) - 1 + SeparatorLength(From(t, i), Separator(From(t, i)))
FramesFrom(t, i, rest) ==
  IF Separator(From(t, i)) = 0 THEN <<>> ELSE <<Frame(From(t, i))>> \o rest[NextFrom(t, i)]
Cuts(t, f) == \A i \in 1..(Len(t) + 1) : f[i] = FramesFrom(t, i, f)

(* A cut goes on behind the blank line.                                    *)
LEMMA NextBehind ==
  ASSUME NEW A, NEW t \in Seq(A), NEW i \in 1..(Len(t) + 1), Separator(From(t, i)) # 0
  PROVE  /\ NextFrom(t, i) \in (i + 1)..(Len(t) + 1)
         /\ Frame(From(t, i)) \in Seq(A)
<1> DEFINE u == From(t, i)
           p == Separator(u)
           d == SeparatorLength(u, p)
<1>1. u \in Seq(A) /\ Len(u) = Len(t) - i + 1
  BY FromRest
<1>2. p \in 1..Len(u) /\ d \in {2, 4} /\ p + d \in 1..(Len(u) + 1)
  BY <1>1, SeparatorInside
<1>3. NextFrom(t, i) = i + p - 1 + d
  BY DEF NextFrom
<1>4. Frame(u) = SubSeq(u, 1, p - 1)
  BY DEF Frame
<1> HIDE DEF u, p, d
<1>5. \A k \in 1..(p - 1) : u[k] \in A
  BY <1>1, <1>2
<1>6. Frame(u) \in Seq(A)
  BY <1>2, <1>4, <1>5, SubSeqProperties
<1> QED
  BY <1>1, <1>2, <1>3, <1>6 DEF u

(* The frames from any place on, of which Frames are those from the first. *)
LEMMA FramesUnfoldFrom ==
  ASSUME NEW A, NEW t \in Seq(A)
  PROVE  \E f \in [1..(Len(t) + 1) -> Seq(Seq(A))] : Cuts(t, f) /\ Frames(t) = f[1]
<1> DEFINE n == Len(t)
           D == 1..(n + 1)
           V == Seq(Seq(A))
           rank == [i \in D |-> n + 1 - i]
           N == n + 1
           e == [x \in [D -> V] \X D |-> FramesFrom(t, x[2], x[1])]
<1>1. n \in Nat /\ \A i \in 1..n : t[i] \in A
  OBVIOUS
<1>2. ASSUME NEW i \in D, Separator(From(t, i)) # 0
      PROVE  NextFrom(t, i) \in D /\ NextFrom(t, i) > i /\ Frame(From(t, i)) \in Seq(A)
  BY <1>1, <1>2, NextBehind
<1>3. ASSUME NEW f \in [D -> V], NEW i \in D
      PROVE  FramesFrom(t, i, f) \in V
  <2>1. CASE Separator(From(t, i)) = 0
    <3>1. <<>> \in V
      OBVIOUS
    <3> QED
      BY <2>1, <3>1 DEF FramesFrom
  <2>2. CASE Separator(From(t, i)) # 0
    <3> DEFINE l == Frame(From(t, i))
               r == f[NextFrom(t, i)]
    <3>1. l \in Seq(A) /\ r \in V
      BY <1>2, <2>2
    <3>2. FramesFrom(t, i, f) = <<l>> \o r
      BY <2>2 DEF FramesFrom
    <3> HIDE DEF l, r
    <3>3. <<l>> \in V
      BY <3>1
    <3> QED
      BY <3>1, <3>2, <3>3, ConcatProperties
  <2> QED
    BY <2>1, <2>2
<1>4. ASSUME NEW f \in [D -> V], NEW i \in D PROVE e[<<f, i>>] = FramesFrom(t, i, f)
  OBVIOUS
<1>5. e \in [[D -> V] \X D -> V]
  <2>1. ASSUME NEW x \in [D -> V] \X D PROVE e[x] \in V
    <3>1. x = <<x[1], x[2]>> /\ x[1] \in [D -> V] /\ x[2] \in D
      OBVIOUS
    <3>2. e[x] = FramesFrom(t, x[2], x[1])
      OBVIOUS
    <3> HIDE DEF e, D, V
    <3> QED
      BY <1>3, <3>1, <3>2
  <2> QED
    BY <2>1
<1>6. \A f \in [D -> V], g \in [D -> V], i \in D :
        (\A j \in D : rank[j] < rank[i] => f[j] = g[j]) => e[<<f, i>>] = e[<<g, i>>]
  <2> SUFFICES ASSUME NEW f \in [D -> V], NEW g \in [D -> V], NEW i \in D,
                      \A j \in D : rank[j] < rank[i] => f[j] = g[j]
               PROVE  e[<<f, i>>] = e[<<g, i>>]
    OBVIOUS
  <2>1. Separator(From(t, i)) # 0 => f[NextFrom(t, i)] = g[NextFrom(t, i)]
    <3> SUFFICES ASSUME Separator(From(t, i)) # 0
                 PROVE  f[NextFrom(t, i)] = g[NextFrom(t, i)]
      OBVIOUS
    <3> DEFINE j == NextFrom(t, i)
    <3>1. j \in D /\ j > i
      BY <1>2
    <3> HIDE DEF j
    <3>2. rank[j] < rank[i]
      BY <1>1, <3>1
    <3> QED
      BY <3>1, <3>2 DEF j
  <2>2. FramesFrom(t, i, f) = FramesFrom(t, i, g)
    BY <2>1 DEF FramesFrom
  <2> HIDE DEF e
  <2> QED
    BY <1>4, <2>2
<1>7. rank \in [D -> Nat] /\ \A i \in D : rank[i] < N
  BY <1>1
<1> HIDE DEF e
<1>8. PICK g \in [D -> V] : \A i \in D : g[i] = e[<<g, i>>]
  <2>1. V # {} /\ N \in Nat
    <3>1. <<>> \in V
      OBVIOUS
    <3>2. N \in Nat
      BY <1>1
    <3> HIDE DEF V
    <3> QED
      BY <3>1, <3>2
  <2>2. e \in [[D -> V] \X D -> V] /\ rank \in [D -> Nat] /\ \A i \in D : rank[i] < N
    BY <1>5, <1>7
  <2>3. \A f \in [D -> V], g \in [D -> V], i \in D :
          (\A j \in D : rank[j] < rank[i] => f[j] = g[j]) => e[<<f, i>>] = e[<<g, i>>]
    BY <1>6
  <2> HIDE DEF D, V, N, rank
  <2>4. Recursive(D, V, rank, N, e)
    BY <2>1, <2>2, <2>3 DEF Recursive
  <2>5. Solvable(D, V, e)
    BY <2>4, Recursion
  <2> QED
    BY <2>5 DEF Solvable, Solution
<1>9. Cuts(t, g)
  BY <1>4, <1>8 DEF Cuts
<1> DEFINE Then(f, i, rest, at) ==
             IF at = 0 THEN <<>>
             ELSE <<SubSeq(rest, 1, at - 1)>> \o f[i + at - 1 + SeparatorLength(rest, at)]
           Def(f) == f = [i \in D |-> Then(f, i, From(t, i), Separator(From(t, i)))]
<1>10. Def(g)
  <2>1. \A i \in D : g[i] = Then(g, i, From(t, i), Separator(From(t, i)))
    BY <1>9 DEF Cuts, FramesFrom, NextFrom, Frame
  <2> QED
    BY <1>8, <2>1
<1>11. PICK f : Def(f) /\ Frames(t) = f[1]
  BY <1>10 DEF Frames
<1>12. Cuts(t, f)
  <2>1. \A i \in D : f[i] = Then(f, i, From(t, i), Separator(From(t, i)))
    BY <1>11
  <2> QED
    BY <2>1 DEF Cuts, FramesFrom, NextFrom, Frame
<1>13. f = [i \in D |-> f[i]]
  BY <1>11
<1> HIDE DEF Def
<1> DEFINE S == {i \in D : f[i] \in V}
<1>14. ASSUME NEW i \in D, \A j \in D : rank[j] < rank[i] => j \in S PROVE i \in S
  <2> SUFFICES FramesFrom(t, i, f) \in V
    BY <1>12 DEF Cuts
  <2> DEFINE h == [j \in D |-> IF j \in S THEN f[j] ELSE <<>>]
  <2>1. h \in [D -> V]
    <3>1. <<>> \in V
      OBVIOUS
    <3> QED
      BY <3>1
  <2>2. Separator(From(t, i)) # 0 => h[NextFrom(t, i)] = f[NextFrom(t, i)]
    <3> SUFFICES ASSUME Separator(From(t, i)) # 0
                 PROVE  h[NextFrom(t, i)] = f[NextFrom(t, i)]
      OBVIOUS
    <3> DEFINE j == NextFrom(t, i)
    <3>1. j \in D /\ j > i
      BY <1>2
    <3> HIDE DEF j
    <3>2. rank[j] < rank[i]
      BY <1>1, <3>1
    <3>3. j \in S
      BY <1>14, <3>1, <3>2
    <3> QED
      BY <3>1, <3>3 DEF j
  <2> HIDE DEF h, S
  <2>3. FramesFrom(t, i, f) = FramesFrom(t, i, h)
    BY <2>2 DEF FramesFrom
  <2> QED
    BY <1>3, <2>1, <2>3
<1> HIDE DEF S, rank, D, V
<1>15. rank \in [D -> Nat]
  BY <1>7
<1>16. \A i \in D : (\A j \in D : rank[j] < rank[i] => j \in S) => i \in S
  BY <1>14
<1>17. D \subseteq S
  BY <1>15, <1>16, RankInduction
<1>18. \A i \in D : f[i] \in V
  BY <1>17 DEF S
<1>19. f \in [D -> V]
  BY <1>13, <1>18
<1> QED
  BY <1>11, <1>12, <1>19 DEF D, V

(* The frames from a place on are the frames of the rest.                  *)
LEMMA FramesOfRest ==
  ASSUME NEW A, NEW t \in Seq(A), NEW f, Cuts(t, f), NEW i \in 1..(Len(t) + 1)
  PROVE  Frames(From(t, i)) = f[i]
<1> DEFINE u == From(t, i)
           n == Len(u)
           D == 1..(n + 1)
           rank == [k \in D |-> n + 1 - k]
<1>1. u \in Seq(A) /\ n = Len(t) - i + 1 /\ n \in Nat
  BY FromRest
<1> HIDE DEF u
<1>2. PICK g \in [D -> Seq(Seq(A))] : Cuts(u, g) /\ Frames(u) = g[1]
  BY <1>1, FramesUnfoldFrom
<1> DEFINE S == {k \in D : g[k] = f[i + k - 1]}
<1>3. ASSUME NEW k \in D, \A j \in D : rank[j] < rank[k] => j \in S PROVE k \in S
  <2> DEFINE m == i + k - 1
             v == From(t, m)
  <2>1. From(u, k) = v
    <3>1. k \in 1..(Len(t) - i + 2)
      BY <1>1
    <3> QED
      BY <3>1, FromFrom DEF u
  <2>2. m \in 1..(Len(t) + 1) /\ k \in 1..(Len(u) + 1)
    BY <1>1
  <2>3. g[k] = FramesFrom(u, k, g) /\ f[m] = FramesFrom(t, m, f)
    BY <1>2, <2>2 DEF Cuts
  <2>4. CASE Separator(v) = 0
    BY <2>1, <2>3, <2>4 DEF FramesFrom
  <2>5. CASE Separator(v) # 0
    <3> DEFINE j == NextFrom(u, k)
    <3>1. j \in (k + 1)..(n + 1)
      BY <1>1, <2>1, <2>2, <2>5, NextBehind
    <3>2. NextFrom(t, m) = i + j - 1
      <4>1. j = k + Separator(v) - 1 + SeparatorLength(v, Separator(v))
        BY <2>1 DEF NextFrom
      <4>2. NextFrom(t, m) = m + Separator(v) - 1 + SeparatorLength(v, Separator(v))
        BY DEF NextFrom
      <4>3. v \in Seq(A)
        BY <2>2, FromRest
      <4> HIDE DEF j, v
      <4>4. Separator(v) \in Int /\ SeparatorLength(v, Separator(v)) \in Int
        BY <2>5, <4>3, SeparatorInside
      <4> QED
        BY <1>1, <4>1, <4>2, <4>4, SMTT(20)
    <3> HIDE DEF j
    <3>3. j \in D /\ rank[j] < rank[k]
      BY <1>1, <3>1
    <3>4. g[j] = f[i + j - 1]
      BY <1>3, <3>3
    <3>5. g[k] = <<Frame(v)>> \o g[j]
      BY <2>1, <2>3, <2>5 DEF FramesFrom, j
    <3>6. f[m] = <<Frame(v)>> \o f[i + j - 1]
      BY <2>3, <2>5, <3>2 DEF FramesFrom
    <3> QED
      BY <3>4, <3>5, <3>6
  <2> QED
    BY <2>3, <2>4, <2>5
<1>4. 1 \in D /\ i + 1 - 1 = i
  BY <1>1
<1>5. rank \in [D -> Nat]
  BY <1>1
<1>6. \A k \in D : (\A j \in D : rank[j] < rank[k] => j \in S) => k \in S
  BY <1>3
<1> HIDE DEF D, S, rank
<1>7. D \subseteq S
  BY <1>5, <1>6, RankInduction
<1>8. g[1] = f[i + 1 - 1]
  BY <1>4, <1>7 DEF S
<1> QED
  BY <1>2, <1>4, <1>8 DEF u

(* The frames of a text are its first one and the frames behind it.        *)
LEMMA FramesUnfold ==
  ASSUME NEW A, NEW t \in Seq(A)
  PROVE  /\ Frames(t) \in Seq(Seq(A))
         /\ Separator(t) = 0 => Frames(t) = <<>>
         /\ Separator(t) # 0 => Frames(t) = <<Frame(t)>> \o Frames(Behind(t))
<1>1. PICK f \in [1..(Len(t) + 1) -> Seq(Seq(A))] : Cuts(t, f) /\ Frames(t) = f[1]
  BY FramesUnfoldFrom
<1>2. 1 \in 1..(Len(t) + 1) /\ From(t, 1) = t
  BY SubSeqFull DEF From
<1>3. f[1] = FramesFrom(t, 1, f) /\ f[1] \in Seq(Seq(A))
  BY <1>1, <1>2 DEF Cuts
<1>4. CASE Separator(t) = 0
  BY <1>1, <1>2, <1>3, <1>4 DEF FramesFrom
<1>5. CASE Separator(t) # 0
  <2>1. NextFrom(t, 1) \in 1..(Len(t) + 1)
    <3>1. NextFrom(t, 1) \in (1 + 1)..(Len(t) + 1)
      BY <1>2, <1>5, NextBehind
    <3> QED
      BY <3>1
  <2>2. NextFrom(t, 1) = Separator(t) + SeparatorLength(t, Separator(t))
    <3>1. Separator(t) \in Int /\ SeparatorLength(t, Separator(t)) \in Int
      BY <1>5, SeparatorInside
    <3> QED
      BY <1>2, <3>1 DEF NextFrom
  <2>3. Frames(Behind(t)) = f[NextFrom(t, 1)]
    BY <1>1, <2>1, <2>2, FramesOfRest DEF Behind
  <2> QED
    BY <1>1, <1>2, <1>3, <1>5, <2>3 DEF FramesFrom
<1> QED
  BY <1>1, <1>3, <1>4, <1>5

(* The first frame of a text is a text.                                    *)
LEMMA FrameType ==
  ASSUME NEW A, NEW t \in Seq(A), Separator(t) # 0
  PROVE  Frame(t) \in Seq(A) /\ <<Frame(t)>> \in Seq(Seq(A)) /\ Len(<<Frame(t)>>) = 1
<1>1. Separator(t) \in 1..Len(t)
  BY SeparatorInside
<1>2. \A i \in 1..(Separator(t) - 1) : t[i] \in A
  BY <1>1
<1>3. Frame(t) \in Seq(A)
  BY <1>1, <1>2, SubSeqProperties DEF Frame
<1> DEFINE B == Seq(A)
           x == Frame(t)
<1>4. x \in B
  BY <1>3
<1> HIDE DEF B, x
<1>5. <<x>> \in Seq(B) /\ Len(<<x>>) = 1
  BY <1>4
<1> QED
  BY <1>3, <1>5 DEF B, x

(* What arrives adds frames behind those that are complete.                *)
LEMMA FramesGrow ==
  ASSUME NEW A, NEW t \in Seq(A), NEW c \in Seq(A)
  PROVE  \E u \in Seq(Seq(A)) : Frames(t \o c) = Frames(t) \o u
<1> DEFINE D == Seq(A)
           V == Seq(Seq(A))
           rank == [s \in D |-> Len(s)]
           S == {s \in D : \E u \in V : Frames(s \o c) = Frames(s) \o u}
<1>1. ASSUME NEW s \in D, \A r \in D : rank[r] < rank[s] => r \in S PROVE s \in S
  <2>1. s \o c \in D
    OBVIOUS
  <2>2. CASE Separator(s) = 0
    <3>1. Frames(s) = <<>> /\ Frames(s \o c) \in V
      BY <2>1, <2>2, FramesUnfold
    <3> HIDE DEF V
    <3>2. Frames(s \o c) = <<>> \o Frames(s \o c)
      BY <3>1, ConcatEmptySeq DEF V
    <3> QED
      BY <3>1, <3>2
  <2>3. CASE Separator(s) # 0
    <3> DEFINE b == Behind(s)
               F == <<Frame(s)>>
    <3>1. b \in D /\ Len(b) < Len(s)
      BY <2>3, BehindShorter
    <3>2. rank[b] < rank[s]
      BY <3>1
    <3>3. PICK u \in V : Frames(b \o c) = Frames(b) \o u
      BY <1>1, <3>1, <3>2
    <3>4. Separator(s \o c) # 0 /\ Frame(s \o c) = Frame(s) /\ Behind(s \o c) = b \o c
      BY <2>3, SeparatorStays, CutStays
    <3>5. Frames(s) = F \o Frames(b)
      BY <2>3, FramesUnfold
    <3>6. Frames(s \o c) = F \o Frames(b \o c)
      BY <2>1, <3>4, FramesUnfold
    <3>7. Frames(b) \in V /\ F \in V
      <4>1. Frames(b) \in Seq(Seq(A))
        BY <3>1, FramesUnfold
      <4>2. F \in Seq(Seq(A))
        BY <2>3, FrameType
      <4> QED
        BY <4>1, <4>2
    <3> HIDE DEF F, b
    <3> DEFINE B == Seq(A)
    <3>8. F \in Seq(B) /\ Frames(b) \in Seq(B) /\ u \in Seq(B)
      BY <3>3, <3>7
    <3> HIDE DEF B
    <3>9. F \o (Frames(b) \o u) = (F \o Frames(b)) \o u
      <4> HIDE DEF V, D, S, rank
      <4> QED
        BY <3>8, ConcatAssociative
    <3> QED
      BY <3>3, <3>5, <3>6, <3>9
  <2> QED
    BY <2>2, <2>3
<1>2. rank \in [D -> Nat]
  OBVIOUS
<1>3. \A s \in D : (\A r \in D : rank[r] < rank[s] => r \in S) => s \in S
  BY <1>1
<1> HIDE DEF D, S, rank
<1>4. D \subseteq S
  BY <1>2, <1>3, RankInduction
<1> QED
  BY <1>4 DEF D, S

(* How many frames are complete in a text.                                 *)
Count(t) == Len(Frames(t))

(* A text behind which frames are counted as if it were not there.         *)
Whole(A, q) == \A x \in Seq(A) : Count(q \o x) = Count(q) + Count(x)

(* The first frame with its blank line.                                    *)
LEMMA FirstWhole ==
  ASSUME NEW A, NEW t \in Seq(A), Separator(t) # 0
  PROVE  \E h \in Seq(A) : t = h \o Behind(t) /\ Separator(h) # 0 /\ Behind(h) = <<>>
<1> DEFINE n == Len(t)
           p == Separator(t)
           d == SeparatorLength(t, p)
           m == p + d - 1
           h == SubSeq(t, 1, m)
<1>1. p \in 1..n /\ d \in {2, 4} /\ p + d \in 1..(n + 1) /\ n \in Nat
  BY SeparatorInside
<1>2. p \in BlankLines(t) /\ \A y \in BlankLines(t) : p <= y
  BY <1>1, BlankLinesArePlaces, FirstOfPlaces
<1>3. d = IF LfLf(t, p) THEN 2 ELSE 4
  BY DEF SeparatorLength
<1>4. Behind(t) = From(t, p + d) /\ p + d = m + 1
  BY <1>1 DEF Behind
<1>5. LfLf(t, p) \/ CrlfCrlf(t, p)
  BY <1>2 DEF BlankLines
<1> HIDE DEF p, d
<1>6. m \in 1..n /\ m \in Int
  BY <1>1
<1>7. h \in Seq(A) /\ Len(h) = m /\ \A i \in 1..m : h[i] = t[i]
  <2>1. \A i \in 1..m : t[i] \in A
    BY <1>6
  <2>2. 1 \in Int /\ (IF 1 <= m THEN m - 1 + 1 ELSE 0) = m /\ m - 1 + 1 = m
    BY <1>6
  <2> HIDE DEF m
  <2>3. /\ SubSeq(t, 1, m) \in Seq(A) /\ Len(SubSeq(t, 1, m)) = IF 1 <= m THEN m - 1 + 1 ELSE 0
        /\ \A i \in 1..(m - 1 + 1) : SubSeq(t, 1, m)[i] = t[1 + i - 1]
    BY <1>6, <2>1, SubSeqProperties
  <2>4. \A i \in 1..m : 1 + i - 1 = i
    BY <1>6
  <2> QED
    BY <2>2, <2>3, <2>4
<1>8. t = h \o Behind(t)
  <2>1. 1 \in 1..(n + 1) /\ m \in (1 - 1)..n /\ n \in m..n
    BY <1>1, <1>6
  <2> HIDE DEF m
  <2>2. SubSeq(t, 1, m) \o SubSeq(t, m + 1, n) = SubSeq(t, 1, n)
    BY <2>1, ConcatAdjacentSubSeq
  <2> QED
    BY <1>4, <2>2, SubSeqFull DEF From
<1> HIDE DEF h
<1>9. ASSUME NEW i \in 1..m
      PROVE  /\ LfLf(h, i) => LfLf(t, i)
             /\ CrlfCrlf(h, i) => CrlfCrlf(t, i)
  BY <1>1, <1>6, <1>7 DEF LfLf, CrlfCrlf
<1>10. p \in 1..m /\ (LfLf(t, p) => LfLf(h, p)) /\ (~LfLf(t, p) => CrlfCrlf(h, p))
  <2>1. CASE LfLf(t, p)
    <3>1. m = p + 1
      BY <1>1, <1>3, <2>1
    <3> HIDE DEF m
    <3> QED
      BY <1>1, <1>7, <2>1, <3>1 DEF LfLf
  <2>2. CASE ~LfLf(t, p)
    <3>1. m = p + 3 /\ CrlfCrlf(t, p)
      BY <1>1, <1>3, <1>5, <2>2
    <3> HIDE DEF m
    <3> QED
      BY <1>1, <1>7, <2>2, <3>1 DEF CrlfCrlf
  <2> QED
    BY <2>1, <2>2
<1>11. p \in BlankLines(h) /\ \A y \in BlankLines(h) : p <= y
  <2>1. DOMAIN h = 1..m /\ DOMAIN t = 1..n
    BY <1>7
  <2>2. p \in BlankLines(h)
    BY <1>10, <2>1 DEF BlankLines
  <2>3. \A y \in BlankLines(h) : y \in BlankLines(t)
    BY <1>6, <1>9, <2>1 DEF BlankLines
  <2> QED
    BY <1>2, <2>2, <2>3
<1>12. Separator(h) = p
  BY <1>7, <1>11, BlankLinesArePlaces, FirstOfIs
<1>13. SeparatorLength(h, p) = d
  BY <1>3, <1>9, <1>10 DEF SeparatorLength
<1>14. Behind(h) = <<>>
  <2>1. Behind(h) = SubSeq(h, m + 1, m)
    BY <1>4, <1>7, <1>12, <1>13 DEF Behind, From
  <2>2. m + 1 \in Int /\ m < m + 1
    BY <1>6
  <2> HIDE DEF m
  <2> QED
    BY <1>6, <2>1, <2>2, SubSeqEmpty
<1>15. h \in Seq(A) /\ t = h \o Behind(t) /\ Separator(h) # 0 /\ Behind(h) = <<>>
  <2>1. p # 0
    BY <1>1
  <2> QED
    BY <2>1, <1>7, <1>8, <1>12, <1>14
<1> HIDE DEF m
<1> QED
  BY <1>15

(* A whole text and one frame more are whole, and hold one frame more.     *)
LEMMA WholeGrows ==
  ASSUME NEW A, NEW q \in Seq(A), Whole(A, q), NEW h \in Seq(A), Separator(h) # 0, Behind(h) = <<>>
  PROVE  Whole(A, q \o h) /\ Count(q \o h) = Count(q) + 1
<1>1. ASSUME NEW x \in Seq(A) PROVE Count(h \o x) = 1 + Count(x)
  <2> DEFINE V == Seq(Seq(A))
             F == <<Frame(h)>>
  <2>1. h \o x \in Seq(A) /\ <<>> \o x = x
    OBVIOUS
  <2>2. Separator(h \o x) # 0 /\ Behind(h \o x) = x /\ Frame(h \o x) = Frame(h)
    BY <2>1, SeparatorStays, CutStays
  <2>3. Frames(h \o x) = F \o Frames(x)
    BY <2>1, <2>2, FramesUnfold
  <2>4. F \in V /\ Len(F) = 1 /\ Frames(x) \in V
    <3>1. Frames(x) \in Seq(Seq(A))
      BY FramesUnfold
    <3>2. F \in Seq(Seq(A)) /\ Len(F) = 1
      BY FrameType
    <3> QED
      BY <3>1, <3>2
  <2> HIDE DEF F, V
  <2>5. Len(F \o Frames(x)) = Len(F) + Len(Frames(x))
    BY <2>4, ConcatProperties DEF V
  <2> QED
    BY <2>3, <2>4, <2>5 DEF Count
<1>2. \A x \in Seq(A) : Count(x) \in Nat
  <2> SUFFICES ASSUME NEW x \in Seq(A) PROVE Count(x) \in Nat
    OBVIOUS
  <2>1. Frames(x) \in Seq(Seq(A))
    BY FramesUnfold
  <2> QED
    BY <2>1, LenProperties DEF Count
<1>3. Count(<<>>) = 0 /\ h \o <<>> = h /\ <<>> \in Seq(A)
  <2>1. Separator(<<>>) = 0
    BY DEF Separator, FirstOf
  <2>2. <<>> \in Seq(A) /\ h \o <<>> = h
    OBVIOUS
  <2>3. Frames(<<>>) = <<>>
    BY <2>1, <2>2, FramesUnfold
  <2> QED
    BY <2>2, <2>3 DEF Count
<1>4. Count(h) = 1
  <2>1. Count(h \o <<>>) = 1 + Count(<<>>)
    BY <1>1, <1>3
  <2> QED
    BY <1>3, <2>1
<1>5. Count(q \o h) = Count(q) + 1
  BY <1>4 DEF Whole
<1>6. ASSUME NEW x \in Seq(A) PROVE Count((q \o h) \o x) = Count(q \o h) + Count(x)
  <2>1. (q \o h) \o x = q \o (h \o x) /\ h \o x \in Seq(A)
    BY ConcatAssociative
  <2>2. Count(q \o (h \o x)) = Count(q) + Count(h \o x)
    BY <2>1 DEF Whole
  <2>3. Count(q) \in Nat /\ Count(x) \in Nat
    BY <1>2
  <2> QED
    BY <1>1, <1>5, <2>1, <2>2, <2>3
<1> QED
  BY <1>5, <1>6 DEF Whole

-----------------------------------------------------------------------------
(* A text s is the end of what has arrived of b, place by place.           *)
IsEnd(s, b, t) == Len(s) <= t /\ \A i \in 1..Len(s) : s[i] = b[t - Len(s) + i]

(* The end place by place is the end.                                      *)
LEMMA EndIsSubSeq ==
  ASSUME NEW A, NEW b \in Seq(A), NEW t \in 0..Len(b), NEW s \in Seq(A), IsEnd(s, b, t)
  PROVE  s = SubSeq(b, t - Len(s) + 1, t)
<1> DEFINE q == SubSeq(b, t - Len(s) + 1, t)
           m == t - Len(s) + 1
<1>1. Len(s) \in Nat /\ Len(s) <= t /\ t \in Nat /\ m \in Int /\ t \in Int
  BY DEF IsEnd
<1>2. \A i \in m..t : b[i] \in A
  BY <1>1
<1>3. t - m + 1 = Len(s)
  BY <1>1
<1> HIDE DEF m
<1>4. /\ SubSeq(b, m, t) \in Seq(A) /\ Len(SubSeq(b, m, t)) = IF m <= t THEN t - m + 1 ELSE 0
      /\ \A i \in 1..(t - m + 1) : SubSeq(b, m, t)[i] = b[m + i - 1]
  BY <1>1, <1>2, SubSeqProperties
<1>5. q \in Seq(A) /\ Len(q) = Len(s) /\ \A i \in 1..Len(s) : q[i] = b[m + i - 1]
  BY <1>1, <1>3, <1>4 DEF m
<1> HIDE DEF q
<1>6. \A i \in 1..Len(s) : m + i - 1 = t - Len(s) + i
  BY <1>1 DEF m
<1>7. \A i \in 1..Len(s) : s[i] = q[i]
  BY <1>5, <1>6 DEF IsEnd
<1>8. s = q
  BY <1>5, <1>7, SeqEqual
<1> QED
  BY <1>8 DEF q

(* A chunk of the body, place by place.                                    *)
LEMMA ChunkPlaces ==
  ASSUME NEW n \in Nat \ {0}, body \in Seq(STRING), taken \in 0..Len(body), taken + n <= Len(body)
  PROVE  /\ Chunk(n) \in Seq(STRING) /\ Len(Chunk(n)) = n
         /\ \A i \in 1..n : Chunk(n)[i] = body[taken + i]
<1> DEFINE m == taken + 1
           e == taken + n
<1>1. m \in Int /\ e \in Int /\ m <= e /\ e - m + 1 = n /\ \A i \in m..e : body[i] \in STRING
  OBVIOUS
<1>2. Chunk(n) = SubSeq(body, m, e)
  BY DEF Chunk
<1>3. \A i \in 1..n : m + i - 1 = taken + i
  OBVIOUS
<1> HIDE DEF m, e
<1>4. /\ SubSeq(body, m, e) \in Seq(STRING)
      /\ Len(SubSeq(body, m, e)) = IF m <= e THEN e - m + 1 ELSE 0
      /\ \A i \in 1..(e - m + 1) : SubSeq(body, m, e)[i] = body[m + i - 1]
  BY <1>1, SubSeqProperties
<1> QED
  BY <1>1, <1>2, <1>3, <1>4

(* What arrives makes the end longer.                                      *)
LEMMA EndGrows ==
  ASSUME NEW A, NEW b, NEW t \in Nat, NEW s \in Seq(A), NEW c \in Seq(A), IsEnd(s, b, t),
         \A i \in 1..Len(c) : c[i] = b[t + i]
  PROVE  s \o c \in Seq(A) /\ IsEnd(s \o c, b, t + Len(c))
<1> DEFINE u == s \o c
<1>1. u \in Seq(A) /\ Len(u) = Len(s) + Len(c)
  BY ConcatShape
<1>2. ASSUME NEW i \in 1..Len(s) PROVE u[i] = s[i]
  OBVIOUS
<1>3. ASSUME NEW i \in 1..Len(c) PROVE u[Len(s) + i] = c[i]
  OBVIOUS
<1> HIDE DEF u
<1>4. ASSUME NEW i \in 1..Len(u) PROVE u[i] = b[t + Len(c) - Len(u) + i]
  <2>1. t + Len(c) - Len(u) + i = t - Len(s) + i
    BY <1>1
  <2>2. CASE i <= Len(s)
    <3>1. i \in 1..Len(s)
      BY <1>1, <2>2
    <3> QED
      BY <1>2, <2>1, <3>1 DEF IsEnd
  <2>3. CASE i > Len(s)
    <3>1. i - Len(s) \in 1..Len(c) /\ Len(s) + (i - Len(s)) = i /\ t + (i - Len(s)) = t - Len(s) + i
      BY <1>1, <2>3
    <3> DEFINE j == i - Len(s)
    <3> HIDE DEF j
    <3>2. u[Len(s) + j] = c[j] /\ c[j] = b[t + j]
      BY <1>3, <3>1 DEF j
    <3> QED
      BY <2>1, <3>1, <3>2 DEF j
  <2>4. i <= Len(s) \/ i > Len(s)
    BY <1>1
  <2> QED
    BY <2>2, <2>3, <2>4
<1>5. Len(u) <= t + Len(c)
  BY <1>1 DEF IsEnd
<1> QED
  BY <1>1, <1>4, <1>5 DEF IsEnd, u

(* The end of an end is an end.                                            *)
LEMMA EndShrinks ==
  ASSUME NEW A, NEW b, NEW t \in Nat, NEW s \in Seq(A), IsEnd(s, b, t), NEW i \in 1..(Len(s) + 1)
  PROVE  From(s, i) \in Seq(A) /\ IsEnd(From(s, i), b, t)
<1> DEFINE f == From(s, i)
<1>1. /\ f \in Seq(A) /\ Len(f) = Len(s) - i + 1
      /\ \A k \in 1..(Len(s) - i + 1) : f[k] = s[i + k - 1]
  BY FromRest
<1> HIDE DEF f
<1>2. ASSUME NEW k \in 1..Len(f) PROVE f[k] = b[t - Len(f) + k]
  <2>1. f[k] = s[i + k - 1] /\ i + k - 1 \in 1..Len(s)
    BY <1>1
  <2>2. s[i + k - 1] = b[t - Len(s) + (i + k - 1)]
    BY <2>1 DEF IsEnd
  <2>3. t - Len(s) + (i + k - 1) = t - Len(f) + k
    BY <1>1
  <2> QED
    BY <2>1, <2>2, <2>3
<1>3. Len(f) <= t
  BY <1>1 DEF IsEnd
<1> QED
  BY <1>1, <1>2, <1>3 DEF IsEnd, f

-----------------------------------------------------------------------------
(* The rewriter.                                                           *)
PendingInv ==
  /\ body \in Seq(STRING) /\ taken \in 0..Len(body)
  /\ pending \in Seq(STRING) /\ IsEnd(pending, body, taken)
  /\ rewriter = "polling" => Separator(pending) = 0

(* Nothing is pending at first.                                            *)
LEMMA NothingPending == BodyInit /\ RewriterInit => PendingInv
<1> SUFFICES ASSUME BodyInit, RewriterInit PROVE PendingInv
  OBVIOUS
<1>1. body \in Seq(STRING) /\ taken = 0 /\ pending = <<>>
  BY BodiesAssumption DEF BodyInit, RewriterInit
<1>2. Separator(<<>>) = 0
  BY DEF Separator, FirstOf
<1>3. <<>> \in Seq(STRING) /\ Len(<<>>) = 0
  OBVIOUS
<1>4. IsEnd(<<>>, body, 0)
  BY <1>3 DEF IsEnd
<1> QED
  BY <1>1, <1>2, <1>3, <1>4 DEF PendingInv

(* Every step of the rewriter leaves the end of what has arrived pending.  *)
LEMMA PendingKept ==
  ASSUME PendingInv, [RewriterNext]_<<bodyVars, rewriterVars>>
  PROVE  PendingInv'
<1>1. ASSUME NEW n \in 1..Len(body), Push(n) PROVE PendingInv'
  <2>1. /\ taken' = taken + n /\ body' = body /\ pending' = pending \o Chunk(n)
        /\ rewriter' = "pushing" /\ taken + n <= Len(body) /\ n \in Nat \ {0}
    BY <1>1 DEF Push, Arrives
  <2>2. /\ Chunk(n) \in Seq(STRING) /\ Len(Chunk(n)) = n
        /\ \A i \in 1..n : Chunk(n)[i] = body[taken + i]
    BY <2>1, ChunkPlaces DEF PendingInv
  <2> DEFINE c == Chunk(n)
  <2> HIDE DEF c
  <2>3. pending \o c \in Seq(STRING) /\ IsEnd(pending \o c, body, taken + Len(c))
    <3>1. taken \in Nat /\ c \in Seq(STRING) /\ \A i \in 1..Len(c) : c[i] = body[taken + i]
      BY <2>2 DEF PendingInv, c
    <3> QED
      BY <3>1, EndGrows DEF PendingInv
  <2> QED
    BY <2>1, <2>2, <2>3 DEF PendingInv, c
<1>2. CASE RewriteNext
  <2>1. Separator(pending) # 0 /\ pending' = Behind(pending) /\ UNCHANGED <<body, taken, rewriter>>
        /\ rewriter = "pushing"
    BY <1>2 DEF RewriteNext, bodyVars
  <2>2. PICK i \in 1..(Len(pending) + 1) : Behind(pending) = From(pending, i)
    BY <2>1, BehindShorter DEF PendingInv
  <2>3. From(pending, i) \in Seq(STRING) /\ IsEnd(From(pending, i), body, taken)
    <3>1. taken \in Nat
      BY DEF PendingInv
    <3> QED
      BY <3>1, EndShrinks DEF PendingInv
  <2> QED
    BY <2>1, <2>2, <2>3 DEF PendingInv
<1>3. CASE Pushed
  BY <1>3 DEF Pushed, PendingInv, bodyVars
<1>4. CASE ConnectionBreaks
  BY <1>4 DEF ConnectionBreaks, PendingInv, bodyVars
<1>5. CASE Finished
  <2>1. pending' = <<>> /\ rewriter' = "finished" /\ UNCHANGED <<body, taken>>
    BY <1>5 DEF Finished, bodyVars
  <2>2. <<>> \in Seq(STRING) /\ Len(<<>>) = 0
    OBVIOUS
  <2>3. IsEnd(<<>>, body, taken)
    BY <2>2 DEF IsEnd, PendingInv
  <2> QED
    BY <2>1, <2>2, <2>3 DEF PendingInv
<1>6. CASE UNCHANGED <<bodyVars, rewriterVars>>
  BY <1>6 DEF PendingInv, bodyVars, rewriterVars
<1> QED
  BY <1>1, <1>2, <1>3, <1>4, <1>5, <1>6 DEF RewriterNext

(* A passthrough turn holds back the end of what has arrived, byte for     *)
(* byte, and between two chunks never a frame that is complete, for every  *)
(* body and every way of cutting it (SseModelRewriter::push).              *)
THEOREM RewriterHoldsTheEnd == RewriterSpec => []RewriterBufferInv
<1>1. PendingInv => RewriterBufferInv
  <2> SUFFICES ASSUME PendingInv PROVE RewriterBufferInv
    OBVIOUS
  <2>1. pending = SubSeq(body, taken - Len(pending) + 1, taken)
    BY EndIsSubSeq DEF PendingInv
  <2> QED
    BY <2>1 DEF PendingInv, RewriterBufferInv, IsEnd
<1>2. PendingInv /\ [RewriterNext]_<<bodyVars, rewriterVars>> => PendingInv'
  BY PendingKept
<1> QED
  BY <1>1, <1>2, NothingPending, PTL DEF RewriterSpec

-----------------------------------------------------------------------------
(* The reader.                                                             *)
BufferInv ==
  /\ body \in Seq(STRING) /\ taken \in 0..Len(body)
  /\ buffer \in Seq(Atoms)
  /\ \E e \in Seq(STRING) : Damaged(buffer, e) /\ IsEnd(e, body, taken)
  /\ reader = "polling" => Separator(buffer) = 0

(* Decoding a chunk by itself damages the halves of characters only.       *)
LEMMA LossyDamages ==
  ASSUME NEW c \in Seq(STRING)
  PROVE  Lossy(c) \in Seq(Atoms) /\ Damaged(Lossy(c), c)
<1> DEFINE d == Lossy(c)
<1>1. Len(c) \in Nat /\ DOMAIN c = 1..Len(c) /\ \A i \in 1..Len(c) : c[i] \in STRING
  OBVIOUS
<1>2. /\ DOMAIN d = 1..Len(c)
      /\ \A i \in 1..Len(c) : d[i] = c[i] \/ (d[i] = "?" /\ c[i] \in {"c1", "c2"})
  BY <1>1 DEF Lossy
<1>3. \A i \in 1..Len(c) : d[i] \in Atoms
  BY <1>1, <1>2 DEF Atoms
<1>4. d = [i \in 1..Len(c) |-> d[i]]
  BY <1>1 DEF Lossy
<1> HIDE DEF d
<1>5. d \in [1..Len(c) -> Atoms]
  BY <1>3, <1>4
<1>6. d \in Seq(Atoms) /\ Len(d) = Len(c)
  BY <1>1, <1>5
<1> QED
  BY <1>2, <1>6 DEF Damaged, d

(* What is damaged in its parts is so as a whole.                          *)
LEMMA DamageGrows ==
  ASSUME NEW s \in Seq(Atoms), NEW e \in Seq(STRING), NEW d \in Seq(Atoms), NEW c \in Seq(STRING),
         Damaged(s, e), Damaged(d, c)
  PROVE  s \o d \in Seq(Atoms) /\ Damaged(s \o d, e \o c)
<1> DEFINE u == s \o d
           w == e \o c
<1>1. Len(s) = Len(e) /\ Len(d) = Len(c) /\ Len(e) \in Nat /\ Len(c) \in Nat
  BY DEF Damaged
<1>2. u \in Seq(Atoms) /\ Len(u) = Len(s) + Len(d)
  BY ConcatShape
<1>3. w \in Seq(STRING) /\ Len(w) = Len(e) + Len(c)
  BY ConcatShape
<1>4. ASSUME NEW i \in 1..Len(s) PROVE u[i] = s[i]
  OBVIOUS
<1>5. ASSUME NEW i \in 1..Len(d) PROVE u[Len(s) + i] = d[i]
  OBVIOUS
<1>6. ASSUME NEW i \in 1..Len(e) PROVE w[i] = e[i]
  OBVIOUS
<1>7. ASSUME NEW i \in 1..Len(c) PROVE w[Len(e) + i] = c[i]
  OBVIOUS
<1> HIDE DEF u, w
<1>8. ASSUME NEW i \in 1..Len(u)
      PROVE  u[i] = w[i] \/ (u[i] = "?" /\ w[i] \in {"c1", "c2"})
  <2>1. CASE i <= Len(s)
    <3>1. i \in 1..Len(s) /\ i \in 1..Len(e) /\ i \in DOMAIN s
      BY <1>1, <1>2, <2>1
    <3>2. s[i] = e[i] \/ (s[i] = "?" /\ e[i] \in {"c1", "c2"})
      BY <3>1 DEF Damaged
    <3> QED
      BY <1>4, <1>6, <3>1, <3>2
  <2>2. CASE i > Len(s)
    <3> DEFINE j == i - Len(s)
    <3>1. j \in 1..Len(d) /\ j \in 1..Len(c) /\ j \in DOMAIN d /\ Len(s) + j = i /\ Len(e) + j = i
      BY <1>1, <1>2, <2>2
    <3> HIDE DEF j
    <3>2. d[j] = c[j] \/ (d[j] = "?" /\ c[j] \in {"c1", "c2"})
      BY <3>1 DEF Damaged
    <3>3. u[Len(s) + j] = d[j] /\ w[Len(e) + j] = c[j]
      BY <1>5, <1>7, <3>1
    <3>4. u[i] = d[j] /\ w[i] = c[j]
      BY <3>1, <3>3
    <3> QED
      BY <3>2, <3>4
  <2>3. i <= Len(s) \/ i > Len(s)
    BY <1>1, <1>2
  <2> QED
    BY <2>1, <2>2, <2>3
<1>9. DOMAIN u = 1..Len(u) /\ Len(u) = Len(w)
  BY <1>1, <1>2, <1>3
<1> QED
  BY <1>2, <1>8, <1>9 DEF Damaged, u, w

(* So is the rest of it.                                                   *)
LEMMA DamageShrinks ==
  ASSUME NEW s \in Seq(Atoms), NEW e \in Seq(STRING), Damaged(s, e), NEW i \in 1..(Len(s) + 1)
  PROVE  From(s, i) \in Seq(Atoms) /\ Damaged(From(s, i), From(e, i))
<1> DEFINE f == From(s, i)
           g == From(e, i)
<1>1. Len(s) = Len(e) /\ i \in 1..(Len(e) + 1) /\ Len(s) \in Nat
  BY DEF Damaged
<1>2. /\ f \in Seq(Atoms) /\ Len(f) = Len(s) - i + 1
      /\ \A k \in 1..(Len(s) - i + 1) : f[k] = s[i + k - 1]
  BY FromRest
<1>3. /\ g \in Seq(STRING) /\ Len(g) = Len(e) - i + 1
      /\ \A k \in 1..(Len(e) - i + 1) : g[k] = e[i + k - 1]
  BY <1>1, FromRest
<1> HIDE DEF f, g
<1>4. ASSUME NEW k \in 1..Len(f)
      PROVE  f[k] = g[k] \/ (f[k] = "?" /\ g[k] \in {"c1", "c2"})
  <2> DEFINE j == i + k - 1
  <2>1. j \in DOMAIN s /\ f[k] = s[j] /\ g[k] = e[j]
    BY <1>1, <1>2, <1>3
  <2> HIDE DEF j
  <2>2. s[j] = e[j] \/ (s[j] = "?" /\ e[j] \in {"c1", "c2"})
    BY <2>1 DEF Damaged
  <2> QED
    BY <2>1, <2>2
<1>5. DOMAIN f = 1..Len(f) /\ Len(f) = Len(g)
  BY <1>1, <1>2, <1>3
<1> QED
  BY <1>2, <1>4, <1>5 DEF Damaged, f, g

(* Nothing is buffered at first.                                           *)
LEMMA NothingBuffered == BodyInit /\ ReaderInit => BufferInv
<1> SUFFICES ASSUME BodyInit, ReaderInit PROVE BufferInv
  OBVIOUS
<1>1. body \in Seq(STRING) /\ taken = 0 /\ buffer = <<>>
  BY BodiesAssumption DEF BodyInit, ReaderInit
<1>2. Separator(<<>>) = 0
  BY DEF Separator, FirstOf
<1>3. <<>> \in Seq(STRING) /\ <<>> \in Seq(Atoms) /\ Len(<<>>) = 0 /\ DOMAIN <<>> = {}
  OBVIOUS
<1>4. IsEnd(<<>>, body, 0) /\ Damaged(<<>>, <<>>)
  BY <1>3 DEF IsEnd, Damaged
<1>5. \E e \in Seq(STRING) : Damaged(buffer, e) /\ IsEnd(e, body, taken)
  BY <1>1, <1>3, <1>4
<1>6. taken \in 0..Len(body) /\ buffer \in Seq(Atoms) /\ Separator(buffer) = 0
  BY <1>1, <1>2, <1>3
<1> QED
  BY <1>1, <1>5, <1>6 DEF BufferInv

(* Every step of the reader leaves the end of what has arrived buffered.   *)
LEMMA BufferKept ==
  ASSUME BufferInv, [ReaderNext]_<<bodyVars, readerVars>>
  PROVE  BufferInv'
<1>1. PICK e \in Seq(STRING) : Damaged(buffer, e) /\ IsEnd(e, body, taken)
  BY DEF BufferInv
<1>2. ASSUME NEW n \in 1..Len(body), Poll(n) PROVE BufferInv'
  <2>1. /\ taken' = taken + n /\ body' = body /\ buffer' = buffer \o Lossy(Chunk(n))
        /\ reader' = "draining" /\ taken + n <= Len(body) /\ n \in Nat \ {0}
    BY <1>2 DEF Poll, Arrives
  <2> DEFINE c == Chunk(n)
             d == Lossy(c)
  <2>2. c \in Seq(STRING) /\ Len(c) = n /\ \A i \in 1..Len(c) : c[i] = body[taken + i]
    BY <2>1, ChunkPlaces DEF BufferInv
  <2>3. buffer' = buffer \o d
    BY <2>1
  <2> HIDE DEF c
  <2>4. d \in Seq(Atoms) /\ Damaged(d, c)
    BY <2>2, LossyDamages
  <2> HIDE DEF d
  <2>5. e \o c \in Seq(STRING) /\ IsEnd(e \o c, body, taken + Len(c))
    <3>1. taken \in Nat
      BY DEF BufferInv
    <3> QED
      BY <1>1, <2>2, <3>1, EndGrows
  <2>6. buffer \o d \in Seq(Atoms) /\ Damaged(buffer \o d, e \o c)
    BY <1>1, <2>2, <2>4, DamageGrows DEF BufferInv
  <2>7. \E x \in Seq(STRING) : Damaged(buffer', x) /\ IsEnd(x, body', taken')
    BY <2>1, <2>2, <2>3, <2>5, <2>6
  <2> QED
    BY <2>1, <2>3, <2>6, <2>7 DEF BufferInv
<1>3. CASE TakeFrame
  <2>1. /\ Separator(buffer) # 0 /\ buffer' = Behind(buffer) /\ UNCHANGED <<body, taken>>
        /\ reader' # "polling"
    BY <1>3 DEF TakeFrame, bodyVars
  <2>2. PICK i \in 1..(Len(buffer) + 1) : Behind(buffer) = From(buffer, i)
    BY <2>1, BehindShorter DEF BufferInv
  <2>3. From(buffer, i) \in Seq(Atoms) /\ Damaged(From(buffer, i), From(e, i))
    BY <1>1, DamageShrinks DEF BufferInv
  <2>4. From(e, i) \in Seq(STRING) /\ IsEnd(From(e, i), body, taken)
    <3>1. taken \in Nat /\ i \in 1..(Len(e) + 1)
      BY <1>1 DEF BufferInv, Damaged
    <3> QED
      BY <1>1, <3>1, EndShrinks
  <2> QED
    BY <2>1, <2>2, <2>3, <2>4 DEF BufferInv
<1>4. CASE Drained
  BY <1>4 DEF Drained, BufferInv, bodyVars
<1>5. CASE TransportError
  BY <1>5 DEF TransportError, BufferInv, bodyVars
<1>6. CASE StreamEnds
  BY <1>6 DEF StreamEnds, BufferInv, bodyVars
<1>7. CASE UNCHANGED <<bodyVars, readerVars>>
  BY <1>7 DEF BufferInv, bodyVars, readerVars
<1> QED
  BY <1>2, <1>3, <1>4, <1>5, <1>6, <1>7 DEF ReaderNext

(* The end place by place is the end.                                      *)
LEMMA EndBuffered == BufferInv => ReaderBufferInv
<1> SUFFICES ASSUME BufferInv PROVE ReaderBufferInv
  OBVIOUS
<1>1. PICK e \in Seq(STRING) : Damaged(buffer, e) /\ IsEnd(e, body, taken)
  BY DEF BufferInv
<1>2. e = SubSeq(body, taken - Len(e) + 1, taken)
  BY <1>1, EndIsSubSeq DEF BufferInv
<1>3. Len(buffer) = Len(e) /\ Len(buffer) <= taken
  BY <1>1 DEF Damaged, IsEnd
<1> QED
  BY <1>1, <1>2, <1>3 DEF BufferInv, ReaderBufferInv

(* A bridged turn's buffer is the end of what has arrived but for the      *)
(* characters a chunk has halved, and between two chunks it holds no frame *)
(* that is complete (drive_successful_stream).                             *)
THEOREM ReaderHoldsTheEnd == ReaderSpec => []ReaderBufferInv
<1>1. BufferInv => ReaderBufferInv
  BY EndBuffered
<1>2. BufferInv /\ [ReaderNext]_<<bodyVars, readerVars>> => BufferInv'
  BY BufferKept
<1> QED
  BY <1>1, <1>2, NothingBuffered, PTL DEF ReaderSpec

-----------------------------------------------------------------------------
(* The frames that have been handled, and what is held behind them.        *)

(* Damage leaves the blank lines where they are.                           *)
LEMMA DamageCuts ==
  ASSUME NEW s \in Seq(Atoms), NEW e \in Seq(STRING), Damaged(s, e)
  PROVE  /\ Separator(s) = Separator(e)
         /\ Separator(s) # 0 => /\ Behind(s) \in Seq(Atoms) /\ Behind(e) \in Seq(STRING)
                                /\ Damaged(Behind(s), Behind(e))
<1>1. Len(s) = Len(e) /\ Len(s) \in Nat
  BY DEF Damaged
<1>2. ASSUME NEW i \in 1..Len(s) PROVE (s[i] = "n" <=> e[i] = "n") /\ (s[i] = "r" <=> e[i] = "r")
  BY <1>2 DEF Damaged
<1>3. ASSUME NEW i \in 1..Len(s) PROVE LfLf(s, i) <=> LfLf(e, i)
  <2>1. CASE i + 1 <= Len(s)
    <3>1. i + 1 \in 1..Len(s)
      BY <1>1, <2>1
    <3> QED
      BY <1>1, <1>2, <3>1 DEF LfLf
  <2>2. CASE ~(i + 1 <= Len(s))
    BY <1>1, <2>2 DEF LfLf
  <2> QED
    BY <2>1, <2>2
<1>4. ASSUME NEW i \in 1..Len(s) PROVE CrlfCrlf(s, i) <=> CrlfCrlf(e, i)
  <2>1. CASE i + 3 <= Len(s)
    <3>1. i + 1 \in 1..Len(s) /\ i + 2 \in 1..Len(s) /\ i + 3 \in 1..Len(s)
      BY <1>1, <2>1
    <3> QED
      BY <1>1, <1>2, <3>1 DEF CrlfCrlf
  <2>2. CASE ~(i + 3 <= Len(s))
    BY <1>1, <2>2 DEF CrlfCrlf
  <2> QED
    BY <2>1, <2>2
<1>5. DOMAIN s = 1..Len(s) /\ DOMAIN e = 1..Len(s)
  BY <1>1
<1>6. Separator(s) = Separator(e)
  <2>1. {i \in DOMAIN s : LfLf(s, i) \/ CrlfCrlf(s, i)} = {i \in DOMAIN e : LfLf(e, i) \/ CrlfCrlf(e, i)}
    BY <1>3, <1>4, <1>5
  <2> QED
    BY <2>1 DEF Separator
<1>7. ASSUME Separator(s) # 0
      PROVE  /\ Behind(s) \in Seq(Atoms) /\ Behind(e) \in Seq(STRING)
             /\ Damaged(Behind(s), Behind(e))
  <2> DEFINE p == Separator(s)
             i == p + SeparatorLength(s, p)
  <2>1. p \in 1..Len(s) /\ i \in 1..(Len(s) + 1)
    BY <1>7, SeparatorInside
  <2>2. SeparatorLength(e, p) = SeparatorLength(s, p)
    BY <1>3, <2>1 DEF SeparatorLength
  <2>3. Behind(s) = From(s, i) /\ Behind(e) = From(e, i)
    BY <1>6, <2>2 DEF Behind
  <2> HIDE DEF i
  <2>4. Behind(e) \in Seq(STRING)
    BY <1>6, <1>7, BehindShorter
  <2> QED
    BY <2>1, <2>3, <2>4, DamageShrinks
<1> QED
  BY <1>6, <1>7

(* Of the text that has arrived, k frames have been handled, and what is   *)
(* behind them is held, damaged or not.                                    *)
Counted(P, s, k) ==
  \E q, e \in Seq(STRING) :
    P = q \o e /\ Damaged(s, e) /\ Whole(STRING, q) /\ Count(q) = k

(* The frames of a text are so many.                                       *)
LEMMA CountType ==
  ASSUME NEW A, NEW t \in Seq(A)
  PROVE  Count(t) \in Nat /\ (Separator(t) = 0 => Count(t) = 0)
<1>1. Frames(t) \in Seq(Seq(A)) /\ (Separator(t) = 0 => Frames(t) = <<>>)
  BY FramesUnfold
<1>2. Len(<<>>) = 0
  OBVIOUS
<1> QED
  BY <1>1, <1>2, LenProperties DEF Count

(* Nothing is handled of nothing.                                          *)
LEMMA CountedNone == Counted(<<>>, <<>>, 0) /\ Frames(<<>>) = <<>>
<1>1. Separator(<<>>) = 0
  BY DEF Separator, FirstOf
<1>2. <<>> \in Seq(STRING) /\ <<>> = <<>> \o <<>> /\ DOMAIN <<>> = {} /\ Len(<<>>) = 0
  OBVIOUS
<1>3. Frames(<<>>) = <<>> /\ Count(<<>>) = 0
  BY <1>1, <1>2, FramesUnfold DEF Count
<1>4. Damaged(<<>>, <<>>)
  BY <1>2 DEF Damaged
<1>5. Whole(STRING, <<>>)
  <2> SUFFICES ASSUME NEW x \in Seq(STRING) PROVE Count(<<>> \o x) = Count(<<>>) + Count(x)
    BY DEF Whole
  <2>1. <<>> \o x = x
    OBVIOUS
  <2> QED
    BY <1>3, <2>1, CountType
<1> QED
  BY <1>2, <1>3, <1>4, <1>5 DEF Counted

(* How many are complete: those handled, and those in what is held.        *)
LEMMA CountedBounds ==
  ASSUME NEW P \in Seq(STRING), NEW s \in Seq(Atoms), NEW k, Counted(P, s, k)
  PROVE  k \in Nat /\ k <= Count(P) /\ (Separator(s) = 0 => k = Count(P))
<1>1. PICK q \in Seq(STRING), e \in Seq(STRING) :
        P = q \o e /\ Damaged(s, e) /\ Whole(STRING, q) /\ Count(q) = k
  BY DEF Counted
<1>2. Count(P) = k + Count(e)
  BY <1>1 DEF Whole
<1>3. Count(e) \in Nat /\ k \in Nat /\ (Separator(e) = 0 => Count(e) = 0)
  BY <1>1, CountType
<1>4. Separator(s) = Separator(e)
  BY <1>1, DamageCuts
<1> QED
  BY <1>2, <1>3, <1>4

(* What arrives is held.                                                   *)
LEMMA CountedGrows ==
  ASSUME NEW P, NEW s \in Seq(Atoms), NEW k, Counted(P, s, k),
         NEW d \in Seq(Atoms), NEW c \in Seq(STRING), Damaged(d, c)
  PROVE  Counted(P \o c, s \o d, k)
<1>1. PICK q \in Seq(STRING), e \in Seq(STRING) :
        P = q \o e /\ Damaged(s, e) /\ Whole(STRING, q) /\ Count(q) = k
  BY DEF Counted
<1>2. e \o c \in Seq(STRING) /\ P \o c = q \o (e \o c)
  <2>1. (q \o e) \o c = q \o (e \o c)
    BY ConcatAssociative
  <2> QED
    BY <1>1, <2>1
<1>3. Damaged(s \o d, e \o c)
  BY <1>1, DamageGrows
<1> QED
  BY <1>1, <1>2, <1>3 DEF Counted

(* A frame that is taken counts.                                           *)
LEMMA CountedTakes ==
  ASSUME NEW P, NEW s \in Seq(Atoms), NEW k, Counted(P, s, k), Separator(s) # 0
  PROVE  Counted(P, Behind(s), k + 1)
<1>1. PICK q \in Seq(STRING), e \in Seq(STRING) :
        P = q \o e /\ Damaged(s, e) /\ Whole(STRING, q) /\ Count(q) = k
  BY DEF Counted
<1>2. Separator(e) # 0 /\ Behind(e) \in Seq(STRING) /\ Damaged(Behind(s), Behind(e))
  BY <1>1, DamageCuts
<1>3. PICK h \in Seq(STRING) : e = h \o Behind(e) /\ Separator(h) # 0 /\ Behind(h) = <<>>
  BY <1>2, FirstWhole
<1>4. Whole(STRING, q \o h) /\ Count(q \o h) = k + 1
  BY <1>1, <1>3, WholeGrows
<1>5. q \o h \in Seq(STRING)
  OBVIOUS
<1>6. q \o (h \o Behind(e)) = (q \o h) \o Behind(e)
  BY <1>2, ConcatAssociative, SMTT(20)
<1> QED
  BY <1>1, <1>2, <1>3, <1>4, <1>5, <1>6 DEF Counted

(* What has arrived.                                                       *)
Sent == SubSeq(body, 1, taken)

(* What has arrived is a text, at first none.                              *)
LEMMA SentType ==
  ASSUME body \in Seq(STRING), taken \in 0..Len(body)
  PROVE  Sent \in Seq(STRING) /\ (taken = 0 => Sent = <<>>)
<1>1. \A i \in 1..taken : body[i] \in STRING
  OBVIOUS
<1>2. taken \in Int /\ 1 \in Int
  OBVIOUS
<1>3. SubSeq(body, 1, taken) \in Seq(STRING)
  BY <1>1, <1>2, SubSeqProperties
<1>4. ASSUME taken = 0 PROVE Sent = <<>>
  BY <1>4, SubSeqEmpty DEF Sent
<1> QED
  BY <1>3, <1>4 DEF Sent

(* A chunk comes behind it, and only adds to the frames that are complete. *)
LEMMA SentGrows ==
  ASSUME body \in Seq(STRING), taken \in 0..Len(body), NEW n \in Nat \ {0}, Arrives(n)
  PROVE  Sent' = Sent \o Chunk(n) /\ IsPrefix(Arrived, Arrived')
<1>1. taken' = taken + n /\ taken + n <= Len(body) /\ body' = body
  BY DEF Arrives
<1> DEFINE m == taken + n
<1>2. Sent' = SubSeq(body, 1, m) /\ Chunk(n) = SubSeq(body, taken + 1, m)
  BY <1>1 DEF Sent, Chunk
<1>3. 1 \in 1..(Len(body) + 1) /\ taken \in (1 - 1)..Len(body) /\ m \in taken..Len(body)
  BY <1>1
<1> HIDE DEF m
<1>4. Sent' = Sent \o Chunk(n)
  BY <1>2, <1>3, ConcatAdjacentSubSeq DEF Sent
<1>5. Sent \in Seq(STRING) /\ Chunk(n) \in Seq(STRING)
  BY <1>1, SentType, ChunkPlaces
<1>6. Arrived = Frames(Sent) /\ Arrived' = Frames(Sent')
  BY DEF Arrived, Sent
<1>7. PICK u \in Seq(Seq(STRING)) : Frames(Sent \o Chunk(n)) = Frames(Sent) \o u
  BY <1>5, FramesGrow
<1>8. Frames(Sent) \in Seq(Seq(STRING))
  BY <1>5, FramesUnfold
<1> DEFINE B == Seq(STRING)
           s == Frames(Sent)
<1>9. s \in Seq(B) /\ u \in Seq(B)
  BY <1>7, <1>8
<1> HIDE DEF B, s
<1>10. IsPrefix(s, s \o u)
  BY <1>9, PrefixOfConcat
<1> QED
  BY <1>4, <1>6, <1>7, <1>10 DEF s

-----------------------------------------------------------------------------
(* Both readers hold what is behind the frames that they have handled.     *)
HeldInv ==
  /\ PendingInv
  /\ buffer \in Seq(Atoms) /\ Len(buffer) <= taken
  /\ ~Returned => BufferInv /\ Counted(Sent, buffer, read)
  /\ rewriter # "finished" => Counted(Sent, pending, rewritten)

(* A text is damaged at no place, and is one of atoms.                     *)
LEMMA Undamaged ==
  ASSUME NEW s \in Seq(STRING)
  PROVE  s \in Seq(Atoms) /\ Damaged(s, s)
<1>1. STRING \subseteq Atoms
  BY DEF Atoms
<1>2. s \in Seq(Atoms)
  BY <1>1, SeqOfMore
<1> QED
  BY <1>2 DEF Damaged

(* Every step is one of the rewriter's own.                                *)
LEMMA RewriterSteps ==
  ASSUME body \in Seq(STRING), taken \in 0..Len(body), SseNext
  PROVE  [RewriterNext]_<<bodyVars, rewriterVars>>
<1>1. ASSUME NEW n \in ChunkSizes, n > 0, Push(n) PROVE RewriterNext
  <2>1. n \in Nat
    BY <1>1, MaxChunkAssumption DEF ChunkSizes
  <2>2. n \in 1..Len(body)
    BY <1>1, <2>1 DEF Push, Arrives
  <2> QED
    BY <1>1, <2>2 DEF RewriterNext
<1>2. CASE ConnectionBreaks /\ (TransportError \/ ReaderGone)
  BY <1>2 DEF RewriterNext
<1>3. CASE ReaderAlone(TakeFrame) \/ ReaderAlone(Drained) \/ ReaderAlone(StreamEnds)
  BY <1>3 DEF ReaderAlone, TakeFrame, Drained, StreamEnds
<1>4. CASE RewriterAlone(RewriteNext) \/ RewriterAlone(Pushed) \/ RewriterAlone(Finished)
  BY <1>4 DEF RewriterAlone, RewriterNext
<1> QED
  BY <1>1, <1>2, <1>3, <1>4 DEF SseNext

(* Every step is one of the reader's own, or passes it by when it has      *)
(* returned.                                                               *)
LEMMA ReaderSteps ==
  ASSUME body \in Seq(STRING), taken \in 0..Len(body), SseNext
  PROVE  \/ [ReaderNext]_<<bodyVars, readerVars>>
         \/ Returned /\ UNCHANGED readerVars /\ \E n \in Nat \ {0} : Arrives(n)
<1>1. ASSUME NEW n \in ChunkSizes, n > 0, Push(n), Poll(n) \/ ReaderGone
      PROVE  \/ ReaderNext
             \/ Returned /\ UNCHANGED readerVars /\ \E k \in Nat \ {0} : Arrives(k)
  <2>1. n \in Nat \ {0}
    BY <1>1, MaxChunkAssumption DEF ChunkSizes
  <2>2. n \in 1..Len(body) /\ Arrives(n)
    BY <1>1, <2>1 DEF Push, Arrives
  <2> QED
    BY <1>1, <2>1, <2>2 DEF ReaderNext, ReaderGone
<1>2. CASE ConnectionBreaks /\ (TransportError \/ ReaderGone)
  BY <1>2 DEF ReaderNext, ReaderGone, ConnectionBreaks
<1>3. CASE ReaderAlone(TakeFrame) \/ ReaderAlone(Drained) \/ ReaderAlone(StreamEnds)
  BY <1>3 DEF ReaderAlone, ReaderNext
<1>4. CASE RewriterAlone(RewriteNext) \/ RewriterAlone(Pushed) \/ RewriterAlone(Finished)
  BY <1>4 DEF RewriterAlone, RewriteNext, Pushed, Finished
<1> QED
  BY <1>1, <1>2, <1>3, <1>4 DEF SseNext

(* The promise of the reader while it runs.                                *)
LEMMA ReaderCounts ==
  ASSUME HeldInv, ~Returned, [ReaderNext]_<<bodyVars, readerVars>>
  PROVE  /\ ~Returned' => Counted(Sent, buffer, read)'
         /\ Len(buffer') <= taken'
         /\ [Reading!FramingNext]_(Reading!framingVars)
<1>1. /\ body \in Seq(STRING) /\ taken \in 0..Len(body) /\ BufferInv /\ Counted(Sent, buffer, read)
      /\ buffer \in Seq(Atoms) /\ Len(buffer) <= taken /\ reader \in {"polling", "draining"}
  BY DEF HeldInv, PendingInv, Returned
<1>2. /\ Sent \in Seq(STRING) /\ read \in Nat /\ read <= Count(Sent)
      /\ Separator(buffer) = 0 => read = Count(Sent)
  BY <1>1, SentType, CountedBounds
<1>3. Count(Sent) = Len(Arrived)
  BY DEF Count, Arrived, Sent
<1> USE DEF Reading!FramingNext, Reading!framingVars
<1>4. ASSUME NEW n \in 1..Len(body), Poll(n)
      PROVE  Counted(Sent, buffer, read)' /\ Len(buffer') <= taken' /\ Reading!Arrive
  <2> DEFINE c == Chunk(n)
             d == Lossy(c)
  <2>1. n \in Nat \ {0} /\ Arrives(n) /\ buffer' = buffer \o d /\ read' = read
        /\ taken' = taken + n /\ taken + n <= Len(body) /\ reader' = "draining" /\ reader = "polling"
    BY <1>4 DEF Poll, Arrives
  <2>2. Sent' = Sent \o c /\ IsPrefix(Arrived, Arrived')
    BY <1>1, <2>1, SentGrows
  <2>3. c \in Seq(STRING) /\ Len(c) = n
    BY <1>1, <2>1, ChunkPlaces
  <2>4. d \in Seq(Atoms) /\ Damaged(d, c)
    BY <2>3, LossyDamages
  <2> HIDE DEF c, d
  <2>5. Counted(Sent \o c, buffer \o d, read)
    BY <1>1, <2>3, <2>4, CountedGrows
  <2>6. Counted(Sent, buffer, read)'
    BY <2>1, <2>2, <2>5 DEF Counted
  <2>7. Len(buffer \o d) = Len(buffer) + Len(d) /\ Len(d) = n
    <3>1. Len(buffer \o d) = Len(buffer) + Len(d)
      BY <1>1, <2>4, ConcatShape
    <3> QED
      BY <2>3, <2>4, <3>1 DEF Damaged
  <2>8. read = Len(Arrived)
    BY <1>1, <1>2, <1>3, <2>1 DEF BufferInv
  <2>9. Reading!IsPrefix(Arrived, Arrived')
    BY <2>2 DEF IsPrefix, Reading!IsPrefix
  <2>10. Len(buffer') <= taken'
    <3>1. Len(buffer) \in Nat /\ taken \in Nat
      BY <1>1
    <3> QED
      BY <1>1, <2>1, <2>7, <3>1
  <2>11. Reading!Arrive
    BY <1>1, <2>1, <2>8, <2>9 DEF Reading!Arrive
  <2> QED
    BY <2>6, <2>10, <2>11
<1>5. ASSUME TakeFrame
      PROVE  /\ Counted(Sent, buffer, read)' /\ Len(buffer') <= taken'
             /\ Reading!Handle \/ Reading!Fail
  <2>1. /\ Separator(buffer) # 0 /\ buffer' = Behind(buffer) /\ read' = read + 1
        /\ UNCHANGED <<body, taken>> /\ reader' \in {"invalid", "draining"}
    BY <1>5 DEF TakeFrame, bodyVars
  <2>2. Counted(Sent, Behind(buffer), read + 1)
    BY <1>1, <2>1, CountedTakes
  <2>3. Sent' = Sent /\ Arrived' = Arrived
    BY <2>1 DEF Sent, Arrived
  <2>4. Counted(Sent, buffer, read)'
    BY <2>1, <2>2, <2>3 DEF Counted
  <2>5. Behind(buffer) \in Seq(Atoms) /\ Len(Behind(buffer)) < Len(buffer)
    BY <1>1, <2>1, BehindShorter
  <2>6. read + 1 <= Count(Sent)
    BY <1>2, <2>2, <2>5, CountedBounds
  <2>7. Len(buffer') <= taken'
    BY <1>1, <2>1, <2>5
  <2>8. Reading!Handle \/ Reading!Fail
    BY <1>1, <1>2, <1>3, <2>1, <2>3, <2>6 DEF Reading!Handle, Reading!Fail
  <2> QED
    BY <2>4, <2>7, <2>8
<1>6. ASSUME Drained
      PROVE  /\ Counted(Sent, buffer, read)' /\ Len(buffer') <= taken'
             /\ UNCHANGED Reading!framingVars
  <2>1. UNCHANGED <<body, taken, buffer, read>> /\ reader' = "polling"
    BY <1>6 DEF Drained, bodyVars
  <2> QED
    BY <1>1, <2>1 DEF Counted, Sent, Arrived
<1>7. ASSUME TransportError
      PROVE  Returned' /\ Len(buffer') <= taken' /\ Reading!Fail
  <2>1. UNCHANGED <<body, taken, buffer, read>> /\ reader' = "broken"
    BY <1>7 DEF TransportError, bodyVars
  <2>2. Arrived' = Arrived
    BY <2>1 DEF Arrived
  <2> QED
    BY <1>1, <1>2, <1>3, <2>1, <2>2 DEF Returned, Reading!Fail
<1>8. ASSUME StreamEnds
      PROVE  Returned' /\ Len(buffer') <= taken' /\ (Reading!Fail \/ Reading!End)
  <2>1. /\ UNCHANGED <<body, taken, buffer, read>> /\ reader = "polling"
        /\ reader' \in {"invalid", "empty", "ok"}
    BY <1>8 DEF StreamEnds, bodyVars
  <2>2. Arrived' = Arrived
    BY <2>1 DEF Arrived
  <2>3. read = Len(Arrived)
    BY <1>1, <1>2, <1>3, <2>1 DEF BufferInv
  <2> QED
    BY <1>1, <1>2, <1>3, <2>1, <2>2, <2>3 DEF Returned, Reading!Fail, Reading!End
<1>9. ASSUME UNCHANGED <<bodyVars, readerVars>>
      PROVE  /\ Counted(Sent, buffer, read)' /\ Len(buffer') <= taken'
             /\ UNCHANGED Reading!framingVars
  BY <1>1, <1>9 DEF Counted, Sent, Arrived, bodyVars, readerVars
<1> HIDE DEF Reading!framingVars
<1> QED
  BY <1>4, <1>5, <1>6, <1>7, <1>8, <1>9 DEF ReaderNext

(* The promise of the rewriter while it runs.                              *)
LEMMA RewriterCounts ==
  ASSUME HeldInv, [RewriterNext]_<<bodyVars, rewriterVars>>
  PROVE  /\ rewriter' # "finished" => Counted(Sent, pending, rewritten)'
         /\ [Rewriting!FramingNext]_(Rewriting!framingVars)
<1>1. /\ body \in Seq(STRING) /\ taken \in 0..Len(body) /\ pending \in Seq(STRING)
      /\ pending \in Seq(Atoms) /\ (rewriter = "polling" => Separator(pending) = 0)
      /\ rewriter # "finished" => Counted(Sent, pending, rewritten)
  BY Undamaged DEF HeldInv, PendingInv
<1>2. ASSUME rewriter # "finished"
      PROVE  /\ rewritten \in Nat /\ rewritten <= Len(Arrived)
             /\ Separator(pending) = 0 => rewritten = Len(Arrived)
  <2>1. Sent \in Seq(STRING)
    BY <1>1, SentType
  <2>2. /\ rewritten \in Nat /\ rewritten <= Count(Sent)
        /\ Separator(pending) = 0 => rewritten = Count(Sent)
    BY <1>1, <1>2, <2>1, CountedBounds
  <2> QED
    BY <2>2 DEF Count, Arrived, Sent
<1>3. Len(Arrived) \in Nat
  BY <1>1, SentType, CountType DEF Count, Arrived, Sent
<1> USE DEF Rewriting!FramingNext, Rewriting!framingVars
<1>4. ASSUME NEW n \in 1..Len(body), Push(n)
      PROVE  Counted(Sent, pending, rewritten)' /\ Rewriting!Arrive
  <2> DEFINE c == Chunk(n)
  <2>1. /\ n \in Nat \ {0} /\ Arrives(n) /\ pending' = pending \o c /\ rewritten' = rewritten
        /\ taken + n <= Len(body) /\ rewriter' = "pushing" /\ rewriter = "polling"
    BY <1>4 DEF Push, Arrives
  <2>2. Sent' = Sent \o c /\ IsPrefix(Arrived, Arrived')
    BY <1>1, <2>1, SentGrows
  <2>3. c \in Seq(STRING)
    BY <1>1, <2>1, ChunkPlaces
  <2> HIDE DEF c
  <2>4. Counted(Sent \o c, pending \o c, rewritten)
    BY <1>1, <2>1, <2>3, Undamaged, CountedGrows
  <2>5. Counted(Sent, pending, rewritten)'
    BY <2>1, <2>2, <2>4 DEF Counted
  <2>6. rewritten = Len(Arrived)
    BY <1>1, <1>2, <2>1
  <2>7. Rewriting!IsPrefix(Arrived, Arrived')
    BY <2>2 DEF IsPrefix, Rewriting!IsPrefix
  <2>8. Rewriting!Arrive
    BY <2>1, <2>6, <2>7 DEF Rewriting!Arrive
  <2> QED
    BY <2>5, <2>8
<1>5. ASSUME RewriteNext
      PROVE  Counted(Sent, pending, rewritten)' /\ Rewriting!Handle
  <2>1. /\ Separator(pending) # 0 /\ pending' = Behind(pending) /\ rewritten' = rewritten + 1
        /\ UNCHANGED <<body, taken, rewriter>> /\ rewriter = "pushing"
    BY <1>5 DEF RewriteNext, bodyVars
  <2>2. Counted(Sent, Behind(pending), rewritten + 1)
    BY <1>1, <2>1, CountedTakes
  <2>3. Sent' = Sent /\ Arrived' = Arrived
    BY <2>1 DEF Sent, Arrived
  <2>4. Counted(Sent, pending, rewritten)'
    BY <2>1, <2>2, <2>3 DEF Counted
  <2>5. Behind(pending) \in Seq(Atoms) /\ Sent \in Seq(STRING)
    BY <1>1, <2>1, BehindShorter, SentType
  <2>6. rewritten + 1 <= Len(Arrived)
    <3>1. rewritten + 1 <= Count(Sent)
      BY <2>2, <2>5, CountedBounds
    <3> QED
      BY <3>1 DEF Count, Arrived, Sent
  <2>7. Rewriting!Handle
    BY <1>2, <1>3, <2>1, <2>3, <2>6 DEF Rewriting!Handle
  <2> QED
    BY <2>4, <2>7
<1>6. ASSUME Pushed
      PROVE  Counted(Sent, pending, rewritten)' /\ UNCHANGED Rewriting!framingVars
  <2>1. /\ UNCHANGED <<body, taken, pending, rewritten>>
        /\ rewriter = "pushing" /\ rewriter' = "polling"
    BY <1>6 DEF Pushed, bodyVars
  <2> QED
    BY <1>1, <2>1 DEF Counted, Sent, Arrived
<1>7. ASSUME ConnectionBreaks
      PROVE  Counted(Sent, pending, rewritten)' /\ Rewriting!Fail
  <2>1. /\ UNCHANGED <<body, taken, pending, rewritten>>
        /\ rewriter = "polling" /\ rewriter' = "failed"
    BY <1>7 DEF ConnectionBreaks, bodyVars
  <2>2. Arrived' = Arrived
    BY <2>1 DEF Arrived
  <2>3. Counted(Sent, pending, rewritten)'
    BY <1>1, <2>1 DEF Counted, Sent
  <2>4. Rewriting!Fail
    BY <1>2, <2>1, <2>2 DEF Rewriting!Fail
  <2> QED
    BY <2>3, <2>4
<1>8. ASSUME Finished
      PROVE  rewriter' = "finished" /\ Rewriting!End
  <2>1. /\ UNCHANGED <<body, taken, rewritten>> /\ rewriter = "polling" /\ rewriter' = "finished"
    BY <1>8 DEF Finished, bodyVars
  <2>2. Arrived' = Arrived
    BY <2>1 DEF Arrived
  <2> QED
    BY <1>1, <1>2, <2>1, <2>2 DEF Rewriting!End
<1>9. ASSUME UNCHANGED <<bodyVars, rewriterVars>>
      PROVE  /\ rewriter' # "finished" => Counted(Sent, pending, rewritten)'
             /\ UNCHANGED Rewriting!framingVars
  BY <1>1, <1>9 DEF Counted, Sent, Arrived, bodyVars, rewriterVars
<1> HIDE DEF Rewriting!framingVars
<1> QED
  BY <1>4, <1>5, <1>6, <1>7, <1>8, <1>9 DEF RewriterNext

(* At first nothing has arrived, and nothing is held.                      *)
LEMMA NothingHeld == SseInit => HeldInv
<1> SUFFICES ASSUME SseInit PROVE HeldInv
  OBVIOUS
<1>1. PendingInv /\ BufferInv
  BY NothingPending, NothingBuffered DEF SseInit
<1>2. buffer = <<>> /\ read = 0 /\ pending = <<>> /\ rewritten = 0 /\ taken = 0
  BY DEF SseInit, BodyInit, ReaderInit, RewriterInit
<1>3. Sent = <<>>
  BY <1>1, <1>2, SentType DEF PendingInv
<1>4. Counted(Sent, buffer, read) /\ Counted(Sent, pending, rewritten)
  BY <1>2, <1>3, CountedNone
<1>5. buffer \in Seq(Atoms) /\ Len(buffer) <= taken
  <2>1. Len(<<>>) = 0
    OBVIOUS
  <2> QED
    BY <1>1, <1>2, <2>1 DEF BufferInv
<1> QED
  BY <1>1, <1>4, <1>5 DEF HeldInv

(* A step of both leaves what is held behind what has been handled.        *)
LEMMA HeldKept ==
  ASSUME HeldInv, [SseNext]_<<bodyVars, readerVars, rewriterVars>>
  PROVE  /\ HeldInv'
         /\ [Reading!FramingNext]_(Reading!framingVars)
         /\ [Rewriting!FramingNext]_(Rewriting!framingVars)
<1>1. body \in Seq(STRING) /\ taken \in 0..Len(body) /\ PendingInv
  BY DEF HeldInv, PendingInv
<1>2. [RewriterNext]_<<bodyVars, rewriterVars>>
  BY <1>1, RewriterSteps
<1>3. \/ [ReaderNext]_<<bodyVars, readerVars>>
      \/ Returned /\ UNCHANGED readerVars /\ \E n \in Nat \ {0} : Arrives(n)
  <2>1. CASE SseNext
    BY <1>1, <2>1, ReaderSteps
  <2>2. CASE UNCHANGED <<bodyVars, readerVars, rewriterVars>>
    BY <2>2
  <2> QED
    BY <2>1, <2>2
<1>4. PendingInv'
  BY <1>1, <1>2, PendingKept
<1>5. /\ rewriter' # "finished" => Counted(Sent, pending, rewritten)'
      /\ [Rewriting!FramingNext]_(Rewriting!framingVars)
  BY <1>2, RewriterCounts
<1>6. CASE ~Returned
  <2>1. [ReaderNext]_<<bodyVars, readerVars>> /\ BufferInv
    BY <1>3, <1>6 DEF HeldInv
  <2>2. BufferInv'
    BY <2>1, BufferKept
  <2>3. /\ ~Returned' => Counted(Sent, buffer, read)'
        /\ Len(buffer') <= taken'
        /\ [Reading!FramingNext]_(Reading!framingVars)
    BY <1>6, <2>1, ReaderCounts
  <2>4. buffer' \in Seq(Atoms)
    BY <2>2 DEF BufferInv
  <2> QED
    BY <1>4, <1>5, <2>2, <2>3, <2>4 DEF HeldInv
<1>7. CASE Returned
  <2>1. /\ UNCHANGED readerVars
        /\ UNCHANGED bodyVars \/ \E n \in Nat \ {0} : Arrives(n)
    BY <1>3, <1>7 DEF ReaderNext, Returned, Poll, TakeFrame, Drained, TransportError, StreamEnds
  <2>2. Returned' /\ buffer' = buffer
    BY <1>7, <2>1 DEF Returned, readerVars
  <2>3. taken <= taken'
    <3>1. CASE UNCHANGED bodyVars
      BY <1>1, <3>1 DEF bodyVars
    <3>2. CASE \E n \in Nat \ {0} : Arrives(n)
      BY <1>1, <3>2 DEF Arrives
    <3> QED
      BY <2>1, <3>1, <3>2
  <2>4. buffer' \in Seq(Atoms) /\ Len(buffer') <= taken'
    <3>1. Len(buffer) \in Nat /\ taken \in Nat /\ taken' \in Nat
      BY <1>1, <1>4 DEF HeldInv, PendingInv
    <3> QED
      BY <2>2, <2>3, <3>1 DEF HeldInv
  <2>5. [Reading!FramingNext]_(Reading!framingVars)
    <3>1. CASE UNCHANGED bodyVars
      BY <2>1, <3>1 DEF Reading!framingVars, Arrived, bodyVars, readerVars
    <3>2. CASE \E n \in Nat \ {0} : Arrives(n)
      <4>1. IsPrefix(Arrived, Arrived')
        BY <1>1, <3>2, SentGrows
      <4>2. Reading!IsPrefix(Arrived, Arrived')
        BY <4>1 DEF IsPrefix, Reading!IsPrefix
      <4>3. Reading!Arrive
        BY <1>7, <2>1, <4>2 DEF Reading!Arrive, Returned, readerVars
      <4> QED
        BY <4>3 DEF Reading!FramingNext
    <3> QED
      BY <2>1, <3>1, <3>2
  <2> QED
    BY <1>4, <1>5, <2>2, <2>4, <2>5 DEF HeldInv
<1> QED
  BY <1>6, <1>7

(* Neither has left at first, or handled a frame.                          *)
LEMMA NothingHandled == SseInit => Reading!FramingInit /\ Rewriting!FramingInit
<1> SUFFICES ASSUME SseInit PROVE Reading!FramingInit /\ Rewriting!FramingInit
  OBVIOUS
<1>1. /\ read = 0 /\ rewritten = 0 /\ taken = 0 /\ reader = "polling" /\ rewriter = "polling"
      /\ body \in Seq(STRING)
  BY BodiesAssumption DEF SseInit, BodyInit, ReaderInit, RewriterInit
<1>2. Arrived = <<>>
  <2>1. Sent = <<>>
    BY <1>1, SentType
  <2> QED
    BY <2>1, CountedNone DEF Arrived, Sent
<1> QED
  BY <1>1, <1>2 DEF Reading!FramingInit, Rewriting!FramingInit

(* Whatever the body and wherever the chunks end, a bridged turn reads     *)
(* every complete frame once, in order, and none later than the chunk      *)
(* that completes it (drive_successful_stream).                            *)
THEOREM ReaderFrames == SseSpec => ReaderKeepsFraming
<1>1. HeldInv /\ [SseNext]_<<bodyVars, readerVars, rewriterVars>>
        => HeldInv' /\ [Reading!FramingNext]_(Reading!framingVars)
  BY HeldKept
<1> QED
  BY <1>1, NothingHeld, NothingHandled, PTL DEF SseSpec, ReaderKeepsFraming, Reading!FramingSpec

(* So does a passthrough turn with the frames it rewrites                  *)
(* (SseModelRewriter::push, finish).                                       *)
THEOREM RewriterFrames == SseSpec => RewriterKeepsFraming
<1>1. HeldInv /\ [SseNext]_<<bodyVars, readerVars, rewriterVars>>
        => HeldInv' /\ [Rewriting!FramingNext]_(Rewriting!framingVars)
  BY HeldKept
<1> QED
  BY <1>1, NothingHeld, NothingHandled, PTL DEF SseSpec, RewriterKeepsFraming, Rewriting!FramingSpec

-----------------------------------------------------------------------------
(* The types.                                                              *)

(* The data of a line is texts.                                            *)
LEMMA DataOfType ==
  ASSUME NEW A, NEW l \in Seq(A)
  PROVE  DataOf(l) \in Seq(Seq(A))
<1>1. CASE IsDataLine(l)
  <2> DEFINE x == Trim(Tail(l))
  <2>1. Tail(l) \in Seq(A)
    BY <1>1 DEF IsDataLine
  <2>2. x \in Seq(A)
    <3>1. {} \cap Blanks = {}
      OBVIOUS
    <3> QED
      BY <2>1, <3>1, TrimKeeps
  <2> HIDE DEF x
  <2>3. <<x>> \in Seq(Seq(A))
    BY <2>2, OneType
  <2> QED
    BY <1>1, <2>3 DEF DataOf, x
<1>2. CASE ~IsDataLine(l)
  <2>1. <<>> \in Seq(Seq(A))
    OBVIOUS
  <2> QED
    BY <1>2, <2>1 DEF DataOf
<1> QED
  BY <1>1, <1>2

(* The data of a frame, and the text of a value, are texts.                *)
LEMMA DataType ==
  ASSUME NEW A, "n" \in A, NEW f \in Seq(A)
  PROVE  Data(f) \in Seq(A)
<1> DEFINE B == Seq(A)
           ls == Lines(f)
<1>1. ls \in Seq(B)
  BY LinesType
<1>2. ASSUME NEW l \in B PROVE DataOf(l) \in Seq(B)
  BY DataOfType
<1> HIDE DEF B, ls
<1> DEFINE g == [i \in DOMAIN ls |-> DataOf(ls[i])]
<1>3. g \in Seq(Seq(B))
  <2>1. Len(ls) \in Nat /\ DOMAIN ls = 1..Len(ls) /\ \A i \in 1..Len(ls) : ls[i] \in B
    BY <1>1
  <2>2. \A i \in 1..Len(ls) : DataOf(ls[i]) \in Seq(B)
    BY <1>2, <2>1
  <2>3. g \in [1..Len(ls) -> Seq(B)]
    BY <2>1, <2>2
  <2> HIDE DEF g
  <2> DEFINE C == Seq(B)
  <2>4. g \in [1..Len(ls) -> C]
    BY <2>3
  <2> HIDE DEF C
  <2>5. g \in Seq(C)
    BY <2>1, <2>4
  <2> QED
    BY <2>5 DEF C
<1> HIDE DEF g
<1>4. FlattenSeq(g) \in Seq(B)
  BY <1>3, FlattenType
<1>5. DataLines(ls) \in Seq(Seq(A))
  BY <1>4 DEF DataLines, g, B
<1>6. Join(DataLines(ls)) \in Seq(A)
  BY <1>5, JoinType
<1> QED
  BY <1>6 DEF Data, ls

(* So is what a frame gives the turn.                                      *)
LEMMA GivenType ==
  ASSUME NEW A, NEW d \in Seq(A)
  PROVE  Given(d) \in Seq(Seq(A))
<1> DEFINE B == Seq(A)
           x == Delta(d)
<1>1. x \in B
  BY KeptType DEF Delta
<1> HIDE DEF B, x
<1>2. <<x>> \in Seq(B) /\ <<>> \in Seq(B)
  BY <1>1
<1> QED
  BY <1>2 DEF Given, B, x

(* With the client's model in it, a value is still a text.                 *)
LEMMA ClientModelType ==
  ASSUME NEW A, "own" \in A, NEW v \in Seq(A)
  PROVE  ClientModel(v) \in Seq(A)
<1> DEFINE m == ClientModel(v)
<1>1. Len(v) \in Nat /\ DOMAIN v = 1..Len(v) /\ \A i \in 1..Len(v) : v[i] \in A
  OBVIOUS
<1>2. m \in [1..Len(v) -> A]
  BY <1>1 DEF ClientModel
<1> HIDE DEF m
<1>3. m \in Seq(A)
  BY <1>1, <1>2
<1> QED
  BY <1>3 DEF m

(* What is shown of a value is a text.                                     *)
LEMMA ShownType ==
  ASSUME NEW A, "own" \in A, NEW v \in Seq(A)
  PROVE  Trim(v) \in Seq(A) /\ ClientModel(Trim(v)) \in Seq(A) /\ Shown(v) \in Seq(A)
<1>1. Trim(v) \in Seq(A)
  <2>1. {} \cap Blanks = {}
    OBVIOUS
  <2> QED
    BY <2>1, TrimKeeps
<1>2. ClientModel(Trim(v)) \in Seq(A)
  BY <1>1, ClientModelType
<1> QED
  BY <1>1, <1>2 DEF Shown

(* A line is rewritten to a line, blank, or of data, as it was, and of its *)
(* value what is shown of it.                                              *)
RewritesLine(l) ==
  /\ RewriteLine(l) = <<>> <=> l = <<>>
  /\ IsDataLine(RewriteLine(l)) <=> IsDataLine(l)
  /\ IsDataLine(l) => Tail(RewriteLine(l)) = Shown(Tail(l))

(* That is so of every line.                                               *)
LEMMA LineRewritten ==
  ASSUME NEW A, "own" \in A, "data:" \in A, NEW l \in Seq(A)
  PROVE  RewriteLine(l) \in Seq(A) /\ RewritesLine(l)
<1>1. CASE IsDataLine(l) /\ IsJson(Tail(l))
  <2> DEFINE m == ClientModel(Trim(Tail(l)))
             d == <<"data:">>
  <2>1. l # <<>> /\ Tail(l) \in Seq(A)
    BY <1>1 DEF IsDataLine
  <2>2. m \in Seq(A)
    BY <2>1, ShownType
  <2>3. RewriteLine(l) = d \o m
    BY <1>1 DEF RewriteLine
  <2>4. Shown(Tail(l)) = m
    BY <1>1 DEF Shown
  <2> HIDE DEF m
  <2>5. d \o m \in Seq(A) /\ d \o m # <<>> /\ Head(d \o m) = "data:" /\ Tail(d \o m) = m
    <3>1. d \in Seq(A) /\ Len(d) = 1 /\ d[1] = "data:"
      OBVIOUS
    <3> HIDE DEF d
    <3>2. d \o m \in Seq(A) /\ Len(d \o m) = 1 + Len(m) /\ (d \o m)[1] = "data:"
      BY <2>2, <3>1, ConcatPlaces, SMTT(30)
    <3>3. From(d \o m, 2) = m
      <4>1. From(d \o m, Len(d) + 1) = m
        BY <2>2, <3>1, ConcatCut
      <4> QED
        BY <3>1, <4>1
    <3> DEFINE z == d \o m
    <3> HIDE DEF z
    <3>4. Len(m) \in Nat
      BY <2>2
    <3>5. z # <<>> /\ Head(z) = z[1] /\ Tail(z) = From(z, 2)
      <4>1. z # <<>>
        BY <3>2, <3>4 DEF z
      <4>2. z \in Seq(A)
        BY <3>2 DEF z
      <4> QED
        BY <4>1, <4>2 DEF From
    <3> QED
      BY <3>2, <3>3, <3>5 DEF z
  <2> QED
    BY <1>1, <2>1, <2>3, <2>4, <2>5 DEF RewritesLine, IsDataLine
<1>2. CASE IsDataLine(l) /\ ~IsJson(Tail(l))
  BY <1>2 DEF RewriteLine, RewritesLine, Shown
<1>3. CASE ~IsDataLine(l)
  BY <1>3 DEF RewriteLine, RewritesLine
<1> QED
  BY <1>1, <1>2, <1>3

(* A frame is rewritten to a text.                                         *)
LEMMA RewriteType ==
  ASSUME NEW f \in Seq(Atoms)
  PROVE  RewriteFrame(f) \in Seq(Atoms)
<1> DEFINE B == Seq(Atoms)
           ls == Lines(f)
           rs == [i \in DOMAIN ls |-> RewriteLine(ls[i])]
<1>1. ls \in Seq(B)
  BY LinesType
<1>2. "n" \in Atoms /\ "data:" \in Atoms /\ "own" \in Atoms
  BY DEF Atoms
<1>3. ASSUME NEW l \in Seq(Atoms) PROVE RewriteLine(l) \in Seq(Atoms)
  BY <1>2, LineRewritten
<1>4. rs \in Seq(Seq(Atoms))
  <2>1. \A l \in B : RewriteLine(l) \in B
    BY <1>3
  <2> HIDE DEF B, ls
  <2>2. Len(ls) \in Nat /\ DOMAIN ls = 1..Len(ls) /\ \A i \in 1..Len(ls) : ls[i] \in B
    BY <1>1
  <2>3. rs \in [1..Len(ls) -> B]
    BY <2>1, <2>2
  <2> HIDE DEF rs
  <2>4. rs \in Seq(B)
    BY <2>2, <2>3
  <2> QED
    BY <2>4 DEF B
<1> HIDE DEF rs
<1>5. <<>> \in Seq(Atoms)
  OBVIOUS
<1> DEFINE full == {i \in DOMAIN rs : rs[i] # <<>>}
<1>6. ASSUME full # {} PROVE Join(From(rs, Min(full))) \in Seq(Atoms)
  <2>1. rs \in Seq(B) /\ DOMAIN rs = 1..Len(rs) /\ Len(rs) \in Nat
    BY <1>4
  <2>2. FirstOf(full) \in full /\ Min(full) = FirstOf(full)
    <3>1. full \in SUBSET (Nat \ {0})
      BY <2>1
    <3> HIDE DEF full
    <3>2. FirstOf(full) \in full
      BY <1>6, <3>1, FirstOfPlaces
    <3> QED
      BY <1>6, <3>2 DEF FirstOf
  <2>3. Min(full) \in 1..(Len(rs) + 1)
    BY <2>1, <2>2
  <2> DEFINE m == Min(full)
  <2> HIDE DEF m, full, B
  <2>4. From(rs, m) \in Seq(B)
    BY <2>1, <2>3, FromRest DEF m
  <2> QED
    BY <1>2, <2>4, JoinType DEF B, m
<1>7. JoinRewritten(rs) \in Seq(Atoms)
  BY <1>5, <1>6 DEF JoinRewritten
<1> QED
  BY <1>5, <1>7 DEF RewriteFrame, ls, rs

(* Both readers and what they have handed on have their types.             *)
TypedInv ==
  /\ read \in Nat /\ deltas \in Seq(Seq(Atoms))
  /\ reader \in {"polling", "draining", "ok", "invalid", "empty", "broken"}
  /\ rewritten \in Nat /\ out \in Seq(Atoms)
  /\ rewriter \in {"polling", "pushing", "finished", "failed"}

(* Every step keeps the types.                                             *)
LEMMA TypesKept ==
  ASSUME HeldInv, TypedInv, [SseNext]_<<bodyVars, readerVars, rewriterVars>>
  PROVE  TypedInv'
<1>1. /\ body \in Seq(STRING) /\ taken \in 0..Len(body)
      /\ buffer \in Seq(Atoms) /\ pending \in Seq(Atoms)
  BY Undamaged DEF HeldInv, PendingInv
<1>2. [RewriterNext]_<<bodyVars, rewriterVars>>
  BY <1>1, RewriterSteps
<1>3. [ReaderNext]_<<bodyVars, readerVars>> \/ UNCHANGED readerVars
  <2>1. CASE SseNext
    BY <1>1, <2>1, ReaderSteps
  <2>2. CASE UNCHANGED <<bodyVars, readerVars, rewriterVars>>
    BY <2>2
  <2> QED
    BY <2>1, <2>2
<1> DEFINE DeltasTyped == deltas' \in Seq(Seq(Atoms))
<1>4. ASSUME NEW f \in Seq(Atoms),
             deltas' = deltas \o (IF Invalid(Data(f)) THEN <<>> ELSE Given(Data(f)))
      PROVE  DeltasTyped
  <2>1. "n" \in Atoms
    BY DEF Atoms
  <2> DEFINE g == IF Invalid(Data(f)) THEN <<>> ELSE Given(Data(f))
             B == Seq(Atoms)
  <2>2. Given(Data(f)) \in Seq(B)
    BY <2>1, DataType, GivenType
  <2>3. <<>> \in Seq(B)
    OBVIOUS
  <2>4. g \in Seq(B) /\ deltas \in Seq(B)
    BY <2>2, <2>3 DEF TypedInv
  <2>5. deltas' = deltas \o g
    BY <1>4
  <2> HIDE DEF B, g
  <2>6. deltas \o g \in Seq(B)
    BY <2>4, ConcatShape
  <2> QED
    BY <2>5, <2>6 DEF B
<1> HIDE DEF DeltasTyped
<1>5. /\ read' \in Nat /\ DeltasTyped
      /\ reader' \in {"polling", "draining", "ok", "invalid", "empty", "broken"}
  <2>1. CASE TakeFrame
    <3>1. Frame(buffer) \in Seq(Atoms)
      BY <1>1, <2>1, FrameType DEF TakeFrame
    <3>2. DeltasTyped
      BY <1>4, <2>1, <3>1 DEF TakeFrame
    <3> QED
      BY <2>1, <3>2 DEF TakeFrame, TypedInv
  <2>2. CASE StreamEnds
    <3>1. DeltasTyped
      BY <1>1, <1>4, <2>2 DEF StreamEnds
    <3> QED
      BY <2>2, <3>1 DEF StreamEnds, TypedInv
  <2>3. CASE (\E n \in 1..Len(body) : Poll(n)) \/ Drained \/ TransportError
    BY <2>3 DEF Poll, Drained, TransportError, TypedInv, DeltasTyped
  <2>4. CASE UNCHANGED readerVars
    BY <2>4 DEF readerVars, TypedInv, DeltasTyped
  <2> QED
    BY <1>3, <2>1, <2>2, <2>3, <2>4 DEF ReaderNext
<1>6. /\ rewritten' \in Nat /\ out' \in Seq(Atoms)
      /\ rewriter' \in {"polling", "pushing", "finished", "failed"}
  <2>1. CASE RewriteNext
    <3> DEFINE f == RewriteFrame(Frame(pending))
               s == SeparatorOf(pending)
    <3>1. Frame(pending) \in Seq(Atoms)
      BY <1>1, <2>1, FrameType DEF RewriteNext
    <3>2. f \in Seq(Atoms)
      BY <3>1, RewriteType
    <3>3. s \in Seq(Atoms)
      <4> DEFINE p == Separator(pending)
                 d == SeparatorLength(pending, p)
      <4>1. p \in 1..Len(pending) /\ d \in {2, 4} /\ p + d \in 1..(Len(pending) + 1)
        BY <1>1, <2>1, SeparatorInside DEF RewriteNext
      <4>2. s = SubSeq(pending, p, p + d - 1)
        BY DEF SeparatorOf
      <4> DEFINE A == Atoms
                 e == p + d - 1
      <4> HIDE DEF p, d, s
      <4>3. p \in Int /\ e \in Int /\ \A i \in p..e : i \in 1..Len(pending)
        BY <1>1, <4>1
      <4> HIDE DEF A, e
      <4>4. \A i \in p..e : pending[i] \in A
        BY <1>1, <4>3 DEF A
      <4>5. SubSeq(pending, p, e) \in Seq(A)
        BY <4>3, <4>4, SubSeqProperties
      <4> QED
        BY <4>2, <4>5 DEF A, e
    <3>4. out' = out \o f \o s /\ out \in Seq(Atoms)
      BY <2>1 DEF RewriteNext, TypedInv
    <3> HIDE DEF f, s
    <3>5. (out \o f) \o s \in Seq(Atoms)
      <4>1. out \o f \in Seq(Atoms)
        BY <3>2, <3>4, ConcatShape
      <4> QED
        BY <3>3, <4>1, ConcatShape
    <3> QED
      BY <2>1, <3>4, <3>5 DEF RewriteNext, TypedInv
  <2>2. CASE Finished
    <3> DEFINE f == IF pending = <<>> THEN <<>> ELSE RewriteFrame(pending)
    <3>1. f \in Seq(Atoms)
      <4>1. <<>> \in Seq(Atoms)
        OBVIOUS
      <4> QED
        BY <1>1, <4>1, RewriteType
    <3>2. out' = out \o f /\ out \in Seq(Atoms)
      BY <2>2 DEF Finished, TypedInv
    <3> HIDE DEF f
    <3>3. out \o f \in Seq(Atoms)
      BY <3>1, <3>2, ConcatShape
    <3> QED
      BY <2>2, <3>2, <3>3 DEF Finished, TypedInv
  <2>3. CASE (\E n \in 1..Len(body) : Push(n)) \/ Pushed \/ ConnectionBreaks
    BY <2>3 DEF Push, Pushed, ConnectionBreaks, TypedInv
  <2>4. CASE UNCHANGED <<bodyVars, rewriterVars>>
    BY <2>4 DEF rewriterVars, TypedInv
  <2> QED
    BY <1>2, <2>1, <2>2, <2>3, <2>4 DEF RewriterNext
<1> QED
  BY <1>5, <1>6 DEF TypedInv, DeltasTyped

(* The type of every variable of the two readers, and what their buffers   *)
(* hold, for every body and every way of cutting it into chunks            *)
(* (drive_successful_stream, SseModelRewriter::push).                      *)
THEOREM SseInvariant == SseSpec => []SseInv
<1>1. SseInit => HeldInv /\ TypedInv
  <2> SUFFICES ASSUME SseInit PROVE TypedInv
    BY NothingHeld
  <2>1. <<>> \in Seq(Atoms) /\ <<>> \in Seq(Seq(Atoms))
    OBVIOUS
  <2> QED
    BY <2>1 DEF SseInit, ReaderInit, RewriterInit, TypedInv
<1>2. HeldInv /\ TypedInv /\ [SseNext]_<<bodyVars, readerVars, rewriterVars>>
        => HeldInv' /\ TypedInv'
  BY HeldKept, TypesKept
<1>3. HeldInv /\ TypedInv => SseInv
  <2> SUFFICES ASSUME HeldInv, TypedInv PROVE SseInv
    OBVIOUS
  <2>1. PendingInv
    BY DEF HeldInv
  <2>2. RewriterInv
    <3>1. pending = SubSeq(body, taken - Len(pending) + 1, taken)
      BY <2>1, EndIsSubSeq DEF PendingInv
    <3> QED
      BY <2>1, <3>1 DEF PendingInv, RewriterInv, RewriterTypeOK, RewriterBufferInv, IsEnd, TypedInv
  <2>3. ReaderTypeOK
    BY <2>1 DEF HeldInv, PendingInv, TypedInv, ReaderTypeOK
  <2>4. ReaderBufferInv
    <3>1. CASE Returned
      BY <3>1 DEF HeldInv, ReaderBufferInv, Returned
    <3>2. CASE ~Returned
      BY <3>2, EndBuffered DEF HeldInv
    <3> QED
      BY <3>1, <3>2
  <2> QED
    BY <2>2, <2>3, <2>4 DEF SseInv, ReaderInv
<1> QED
  BY <1>1, <1>2, <1>3, PTL DEF SseSpec

-----------------------------------------------------------------------------
(* Reading lines.                                                          *)
States(A) == [events : Seq(Seq(Seq(A))), values : Seq(Seq(A))]

(* No line is read yet.                                                    *)
LEMMA UnreadType == Unread \in States(Atoms)
<1>1. <<>> \in Seq(Seq(Atoms)) /\ <<>> \in Seq(Seq(Seq(Atoms)))
  OBVIOUS
<1> QED
  BY <1>1 DEF Unread, States

(* Another line is read.                                                   *)
LEMMA ReadLineType ==
  ASSUME NEW A, NEW st \in States(A), NEW l \in Seq(A)
  PROVE  ReadLine(st, l) \in States(A)
<1> DEFINE V == Seq(A)
           W == Seq(V)
<1>1. st.events \in Seq(W) /\ st.values \in Seq(V) /\ l \in V /\ st.values \in W
  BY DEF States
<1>2. <<>> \in Seq(V) /\ <<>> \in Seq(W)
  OBVIOUS
<1>3. CASE l = <<>>
  <2> DEFINE e == IF st.values = <<>> THEN <<>> ELSE <<st.values>>
  <2>1. e \in Seq(W)
    <3> HIDE DEF W
    <3> QED
      BY <1>1, <1>2
  <2> HIDE DEF e
  <2>2. st.events \o e \in Seq(W)
    <3> HIDE DEF W
    <3> QED
      BY <1>1, <2>1, ConcatShape
  <2> DEFINE z == st.events \o e
  <2>3. ReadLine(st, l) = [events |-> z, values |-> <<>>]
    BY <1>3 DEF ReadLine, e
  <2> HIDE DEF z, W
  <2>4. [events |-> z, values |-> <<>>] \in [events : Seq(W), values : Seq(V)]
    BY <1>2, <2>2 DEF z
  <2> QED
    BY <2>3, <2>4 DEF States, W
<1>4. CASE l # <<>> /\ IsDataLine(l)
  <2> DEFINE z == Append(st.values, Tail(l))
  <2>1. Tail(l) \in V
    BY <1>4
  <2>2. z \in Seq(V)
    <3> HIDE DEF V
    <3> QED
      BY <1>1, <2>1
  <2>3. ReadLine(st, l) = [events |-> st.events, values |-> z]
    BY <1>4 DEF ReadLine
  <2> HIDE DEF z, W
  <2>4. [events |-> st.events, values |-> z] \in [events : Seq(W), values : Seq(V)]
    BY <1>1, <2>2
  <2> QED
    BY <2>3, <2>4 DEF States, W
<1>5. CASE l # <<>> /\ ~IsDataLine(l)
  BY <1>5 DEF ReadLine
<1> QED
  BY <1>3, <1>4, <1>5

(* What ReadLines defines by recursion: the state behind each of the lines.*)
Reads(A, st, ls, f) ==
  /\ f \in [0..Len(ls) -> States(A)] /\ f[0] = st
  /\ \A n \in 1..Len(ls) : f[n] = ReadLine(f[n - 1], ls[n])

(* ReadLines is defined: there is such a function.                         *)
LEMMA ReadUnfolds ==
  ASSUME NEW A, NEW st \in States(A), NEW ls \in Seq(Seq(A))
  PROVE  \E f : Reads(A, st, ls, f) /\ ReadLines(st, ls) = f[Len(ls)]
<1> DEFINE N == Len(ls)
           D == 0..N
           V == States(A)
           rank == [n \in D |-> n]
           value(n, f) == IF n = 0 THEN st ELSE ReadLine(f[n - 1], ls[n])
           e == [x \in [D -> V] \X D |-> value(x[2], x[1])]
<1>1. N \in Nat /\ \A n \in 1..N : ls[n] \in Seq(A)
  OBVIOUS
<1>2. ASSUME NEW n \in D, NEW f, n # 0 => f[n - 1] \in V PROVE value(n, f) \in V
  <2>1. CASE n = 0
    BY <2>1
  <2>2. CASE n # 0
    <3>1. n \in 1..N
      BY <1>1, <2>2
    <3>2. ReadLine(f[n - 1], ls[n]) \in V
      BY <1>1, <1>2, <2>2, <3>1, ReadLineType
    <3> QED
      BY <2>2, <3>2
  <2> QED
    BY <2>1, <2>2
<1>3. \A n \in D : n # 0 => n - 1 \in D /\ n - 1 < n
  BY <1>1
<1>4. ASSUME NEW f \in [D -> V], NEW n \in D PROVE e[<<f, n>>] = value(n, f)
  OBVIOUS
<1>5. e \in [[D -> V] \X D -> V]
  <2>1. ASSUME NEW x \in [D -> V] \X D PROVE e[x] \in V
    <3>1. x = <<x[1], x[2]>> /\ x[1] \in [D -> V] /\ x[2] \in D
      OBVIOUS
    <3>2. e[x] = value(x[2], x[1])
      OBVIOUS
    <3>3. x[2] # 0 => x[1][x[2] - 1] \in V
      BY <1>3, <3>1
    <3> HIDE DEF e, D, V, value
    <3> QED
      BY <1>2, <3>1, <3>2, <3>3
  <2> QED
    BY <2>1
<1>6. ASSUME NEW f \in [D -> V], NEW g \in [D -> V], NEW n \in D,
             \A k \in D : rank[k] < rank[n] => f[k] = g[k]
      PROVE  e[<<f, n>>] = e[<<g, n>>]
  <2>1. n # 0 => f[n - 1] = g[n - 1]
    BY <1>3, <1>6
  <2>2. value(n, f) = value(n, g)
    BY <2>1
  <2> HIDE DEF e
  <2> QED
    BY <1>4, <2>2
<1>7. rank \in [D -> Nat] /\ \A n \in D : rank[n] < N + 1
  BY <1>1
<1>8. V # {} /\ N + 1 \in Nat
  BY <1>1
<1>9. \A f \in [D -> V], g \in [D -> V], n \in D :
        (\A k \in D : rank[k] < rank[n] => f[k] = g[k]) => e[<<f, n>>] = e[<<g, n>>]
  BY <1>6
<1> HIDE DEF e, value
<1>10. PICK g \in [D -> V] : \A n \in D : g[n] = e[<<g, n>>]
  <2> HIDE DEF D, V, N, rank
  <2>1. Recursive(D, V, rank, N + 1, e)
    BY <1>5, <1>7, <1>8, <1>9 DEF Recursive
  <2>2. Solvable(D, V, e)
    BY <2>1, Recursion
  <2> QED
    BY <2>2 DEF Solvable, Solution
<1> DEFINE Def(f) == f = [n \in 0..Len(ls) |-> IF n = 0 THEN st ELSE ReadLine(f[n - 1], ls[n])]
<1>11. Def(g)
  <2>1. \A n \in D : g[n] = value(n, g)
    BY <1>4, <1>10
  <2> QED
    BY <1>10, <2>1 DEF value
<1>12. PICK f : Def(f) /\ ReadLines(st, ls) = f[N]
  BY <1>11 DEF ReadLines
<1>13. \A n \in D : f[n] = value(n, f)
  BY <1>12 DEF value
<1>14. f = [n \in D |-> f[n]]
  BY <1>12
<1> HIDE DEF Def
<1> DEFINE S == {n \in D : f[n] \in V}
<1>15. ASSUME NEW n \in D, \A k \in D : rank[k] < rank[n] => k \in S PROVE n \in S
  <2>1. n # 0 => f[n - 1] \in V
    BY <1>3, <1>15
  <2>2. f[n] \in V
    BY <1>2, <1>13, <2>1
  <2> QED
    BY <2>2
<1>16. rank \in [D -> Nat]
  BY <1>7
<1>17. \A n \in D : (\A k \in D : rank[k] < rank[n] => k \in S) => n \in S
  BY <1>15
<1>18. 0 \in D /\ \A n \in 1..N : n \in D /\ n # 0
  BY <1>1
<1> HIDE DEF S, rank, D, V
<1>19. D \subseteq S
  BY <1>16, <1>17, RankInduction
<1>20. f \in [D -> V]
  BY <1>14, <1>19 DEF S
<1>21. f[0] = st /\ \A n \in 1..N : f[n] = ReadLine(f[n - 1], ls[n])
  BY <1>13, <1>18 DEF value
<1> QED
  BY <1>12, <1>20, <1>21 DEF Reads, D, V

(* No line changes nothing.                                                *)
LEMMA ReadNone ==
  ASSUME NEW A, NEW st \in States(A)
  PROVE  ReadLines(st, <<>>) = st
<1>1. <<>> \in Seq(Seq(A)) /\ Len(<<>>) = 0
  OBVIOUS
<1>2. PICK h : Reads(A, st, <<>>, h) /\ ReadLines(st, <<>>) = h[Len(<<>>)]
  BY <1>1, ReadUnfolds
<1> QED
  BY <1>1, <1>2 DEF Reads

(* Lines lead from a state to a state.                                     *)
LEMMA ReadType ==
  ASSUME NEW A, NEW st \in States(A), NEW ls \in Seq(Seq(A))
  PROVE  ReadLines(st, ls) \in States(A)
<1>1. PICK f : Reads(A, st, ls, f) /\ ReadLines(st, ls) = f[Len(ls)]
  BY ReadUnfolds
<1>2. Len(ls) \in 0..Len(ls)
  OBVIOUS
<1> QED
  BY <1>1, <1>2 DEF Reads

(* Lines are read one by one.                                              *)
LEMMA ReadAppend ==
  ASSUME NEW A, NEW st \in States(A), NEW ls \in Seq(Seq(A)), NEW l \in Seq(A)
  PROVE  ReadLines(st, Append(ls, l)) = ReadLine(ReadLines(st, ls), l)
<1> DEFINE B == Seq(A)
           t == Append(ls, l)
           n == Len(ls)
           D == 0..n
           rank == [k \in D |-> k]
<1>1. PICK f : Reads(A, st, ls, f) /\ ReadLines(st, ls) = f[n]
  BY ReadUnfolds
<1>2. /\ t \in Seq(B) /\ Len(t) = n + 1 /\ t[n + 1] = l /\ n \in Nat
      /\ \A i \in 1..n : t[i] = ls[i]
  <2>1. ls \in Seq(B) /\ l \in B
    OBVIOUS
  <2> HIDE DEF B
  <2> QED
    BY <2>1, AppendProperties
<1> HIDE DEF t
<1>3. PICK g : Reads(A, st, t, g) /\ ReadLines(st, t) = g[Len(t)]
  BY <1>2, ReadUnfolds
<1> DEFINE S == {k \in D : f[k] = g[k]}
<1>4. ASSUME NEW k \in D, \A j \in D : rank[j] < rank[k] => j \in S PROVE k \in S
  <2>1. CASE k = 0
    BY <1>1, <1>3, <2>1 DEF Reads
  <2>2. CASE k # 0
    <3>1. k \in 1..n /\ k \in 1..Len(t) /\ k - 1 \in D /\ k - 1 < k
      BY <1>2, <2>2
    <3>2. f[k - 1] = g[k - 1]
      BY <1>4, <3>1
    <3>3. f[k] = ReadLine(f[k - 1], ls[k])
      BY <1>1, <3>1 DEF Reads
    <3>4. g[k] = ReadLine(g[k - 1], t[k])
      BY <1>3, <3>1 DEF Reads
    <3> QED
      BY <1>2, <3>1, <3>2, <3>3, <3>4
  <2> QED
    BY <2>1, <2>2
<1>5. rank \in [D -> Nat] /\ n \in D
  BY <1>2
<1>6. \A k \in D : (\A j \in D : rank[j] < rank[k] => j \in S) => k \in S
  BY <1>4
<1> HIDE DEF D, S, rank
<1>7. f[n] = g[n]
  <2>1. D \subseteq S
    BY <1>5, <1>6, RankInduction, ZenonT(30)
  <2> QED
    BY <1>5, <2>1 DEF S
<1>8. g[n + 1] = ReadLine(g[n], l)
  <2>1. n + 1 \in 1..Len(t) /\ n + 1 - 1 = n
    BY <1>2
  <2>2. g[n + 1] = ReadLine(g[n + 1 - 1], t[n + 1])
    BY <1>3, <2>1 DEF Reads
  <2> QED
    BY <1>2, <2>1, <2>2
<1> QED
  BY <1>1, <1>2, <1>3, <1>7, <1>8 DEF t

(* Lines in a row are read one after the other.                            *)
ReadInARow(st, s, t) == ReadLines(st, s \o t) = ReadLines(ReadLines(st, s), t)

(* That is so of all.                                                      *)
LEMMA ReadConcat ==
  ASSUME NEW A, NEW st \in States(A), NEW s \in Seq(Seq(A)), NEW t \in Seq(Seq(A))
  PROVE  ReadInARow(st, s, t)
<1> DEFINE B == Seq(A)
           S == {u \in Seq(B) : ReadInARow(st, s, u)}
           m == ReadLines(st, s)
<1>1. m \in States(A)
  BY ReadType
<1> HIDE DEF m
<1>2. <<>> \in S
  <2>1. s \in Seq(B) /\ <<>> \in Seq(B)
    OBVIOUS
  <2> HIDE DEF B
  <2>2. s \o <<>> = s
    BY <2>1, ConcatEmptySeq
  <2>3. ReadLines(m, <<>>) = m
    BY <1>1, ReadNone
  <2> QED
    BY <2>1, <2>2, <2>3 DEF ReadInARow, m
<1>3. ASSUME NEW u \in Seq(B), NEW a \in B, u \in S PROVE Append(u, a) \in S
  <2> DEFINE o == <<a>>
             su == s \o u
             ua == Append(u, a)
  <2>1. s \in Seq(B) /\ o \in Seq(B)
    OBVIOUS
  <2>2. ua = u \o o /\ ua \in Seq(B)
    OBVIOUS
  <2> HIDE DEF o
  <2>3. su \in Seq(B)
    <3> HIDE DEF B
    <3> QED
      BY <2>1, ConcatShape
  <2>4. Associates(s, u, o)
    <3> HIDE DEF B
    <3> QED
      BY <2>1, ThreeInARow
  <2>5. Append(su, a) = su \o o
    <3> HIDE DEF B, su
    <3> QED
      BY <2>3 DEF o
  <2>6. s \o ua = Append(su, a)
    BY <2>2, <2>4, <2>5 DEF Associates
  <2> HIDE DEF su, ua
  <2>7. ReadLines(st, Append(su, a)) = ReadLine(ReadLines(st, su), a)
    BY <2>3, ReadAppend
  <2>8. ReadLines(m, Append(u, a)) = ReadLine(ReadLines(m, u), a)
    BY <1>1, ReadAppend
  <2>9. ReadLines(st, su) = ReadLines(m, u)
    BY <1>3 DEF ReadInARow, su, m
  <2>10. ReadInARow(st, s, ua)
    BY <2>6, <2>7, <2>8, <2>9 DEF ReadInARow, ua, m
  <2> QED
    BY <2>2, <2>10 DEF ua
<1> HIDE DEF S, B
<1>4. Seq(B) \subseteq S
  BY <1>2, <1>3, AppendInduction
<1> QED
  BY <1>4 DEF S, B

(* One line.                                                               *)
LEMMA ReadOne ==
  ASSUME NEW A, NEW st \in States(A), NEW l \in Seq(A)
  PROVE  ReadLines(st, <<l>>) = ReadLine(st, l)
<1>1. Append(<<>>, l) = <<l>> /\ <<>> \in Seq(Seq(A))
  OBVIOUS
<1>2. ReadLines(st, Append(<<>>, l)) = ReadLine(ReadLines(st, <<>>), l)
  BY <1>1, ReadAppend
<1>3. ReadLines(st, <<>>) = st
  BY ReadNone
<1> QED
  BY <1>1, <1>2, <1>3

(* Without data nothing is read.                                           *)
NoData(ls) == \A i \in 1..Len(ls) : ~IsDataLine(ls[i])

(* Blank lines and others add no event then.                               *)
LEMMA ReadNoData ==
  ASSUME NEW A, NEW st \in States(A), st.values = <<>>, NEW ls \in Seq(Seq(A)), NoData(ls)
  PROVE  ReadLines(st, ls) = st
<1> DEFINE B == Seq(A)
           S == {u \in Seq(B) : NoData(u) => ReadLines(st, u) = st}
<1>1. <<>> \in S
  <2>1. <<>> \in Seq(B) /\ <<>> \in B
    OBVIOUS
  <2>2. ReadLines(st, <<>>) = st
    BY ReadNone
  <2> QED
    BY <2>1, <2>2
<1>2. ASSUME NEW u \in Seq(B), NEW a \in B, u \in S PROVE Append(u, a) \in S
  <2>1. /\ Append(u, a) \in Seq(B) /\ Len(Append(u, a)) = Len(u) + 1 /\ Append(u, a)[Len(u) + 1] = a
        /\ Len(u) \in Nat /\ \A i \in 1..Len(u) : Append(u, a)[i] = u[i]
    <3> HIDE DEF B
    <3> QED
      BY AppendProperties
  <2>2. ReadLines(st, Append(u, a)) = ReadLine(ReadLines(st, u), a)
    BY ReadAppend
  <2> SUFFICES ASSUME NoData(Append(u, a)) PROVE ReadLines(st, Append(u, a)) = st
    BY <2>1
  <2>3. NoData(u) /\ ~IsDataLine(a)
    BY <2>1 DEF NoData
  <2>4. ReadLines(st, u) = st
    BY <1>2, <2>3
  <2>5. ReadLine(st, a) = st
    <3>1. CASE a = <<>>
      <4> DEFINE W == Seq(B)
      <4>1. st.events \in Seq(W) /\ st = [events |-> st.events, values |-> st.values]
        BY DEF States
      <4> HIDE DEF W
      <4>2. st.events \o <<>> = st.events
        BY <4>1, ConcatEmptySeq
      <4> QED
        BY <3>1, <4>1, <4>2 DEF ReadLine
    <3>2. CASE a # <<>>
      BY <2>3, <3>2 DEF ReadLine
    <3> QED
      BY <3>1, <3>2
  <2> QED
    BY <2>2, <2>4, <2>5
<1> HIDE DEF S, B
<1>3. Seq(B) \subseteq S
  BY <1>1, <1>2, AppendInduction
<1> QED
  BY <1>3 DEF S, B

(* An item, and the same again.                                            *)
LEMMA Twice ==
  ASSUME NEW B, NEW a \in B
  PROVE  <<a>> \in Seq(B) /\ <<a, a>> \in Seq(B) /\ Append(<<a>>, a) = <<a, a>>
<1> DEFINE o == <<a>>
           w == Append(o, a)
<1> HIDE DEF o
<1>1. <<a>> \in Seq(B) /\ Len(<<a>>) = 1 /\ <<a>>[1] = a
  OBVIOUS
<1>2. w \in Seq(B) /\ Len(w) = 2 /\ w[1] = a /\ w[2] = a
  BY <1>1, AppendProperties DEF o
<1> HIDE DEF w
<1>3. w = [i \in 1..2 |-> w[i]] /\ \A i \in 1..2 : w[i] = a
  BY <1>2
<1>4. <<a, a>> = [i \in 1..2 |-> a]
  OBVIOUS
<1>5. w = <<a, a>>
  BY <1>3, <1>4
<1> QED
  BY <1>1, <1>2, <1>5 DEF w, o

(* A blank line, or two, end the event.                                    *)
LEMMA ReadGap ==
  ASSUME NEW A, NEW st \in States(A), NEW t
  PROVE  /\ ReadLines(st, Gap(t)) = ReadLine(st, <<>>)
         /\ ReadLine(st, <<>>).values = <<>> /\ Gap(t) \in Seq(Seq(A))
<1> DEFINE e == <<>>
           s == ReadLine(st, e)
<1>1. e \in Seq(A)
  OBVIOUS
<1>2. s \in States(A) /\ s.values = <<>>
  BY <1>1, ReadLineType DEF ReadLine
<1>3. ReadLines(st, <<e>>) = s
  BY <1>1, ReadOne
<1>4. /\ <<e>> \in Seq(Seq(A)) /\ <<e, e>> \in Seq(Seq(A)) /\ Append(<<e>>, e) = <<e, e>>
  BY <1>1, Twice
<1>5. ReadLine(s, e) = s
  <2>1. ReadLines(s, <<e>>) = s
    <3>1. NoData(<<e>>)
      BY DEF NoData, IsDataLine
    <3> HIDE DEF s
    <3> QED
      BY <1>2, <1>4, <3>1, ReadNoData
  <2> HIDE DEF s
  <2> QED
    BY <1>1, <1>2, <2>1, ReadOne
<1>6. ReadLines(st, <<e, e>>) = s
  <2>1. ReadLines(st, Append(<<e>>, e)) = ReadLine(ReadLines(st, <<e>>), e)
    BY <1>1, <1>4, ReadAppend
  <2> QED
    BY <1>3, <1>4, <1>5, <2>1
<1> QED
  BY <1>2, <1>3, <1>4, <1>6 DEF Gap

-----------------------------------------------------------------------------
(* Lines that are rewritten.                                               *)

(* What is shown of an event, one value longer.                            *)
LEMMA ShownAppend ==
  ASSUME NEW A, "own" \in A, NEW e \in Seq(Seq(A)), NEW v \in Seq(A)
  PROVE  /\ ShownEvent(e) \in Seq(Seq(A)) /\ (ShownEvent(e) = <<>> <=> e = <<>>)
         /\ ShownEvent(Append(e, v)) = Append(ShownEvent(e), Shown(v))
<1> DEFINE B == Seq(A)
           f == [x \in B |-> Shown(x)]
<1>1. f \in [B -> B] /\ \A x \in B : f[x] = Shown(x)
  <2>1. \A x \in B : Shown(x) \in B
    BY ShownType
  <2> HIDE DEF B
  <2> QED
    BY <2>1
<1>2. e \in Seq(B) /\ v \in B /\ \A u \in Seq(B) : DOMAIN u = 1..Len(u) /\ \A i \in 1..Len(u) : u[i] \in B
  OBVIOUS
<1> HIDE DEF f, B
<1>3. ASSUME NEW u \in Seq(B) PROVE ShownEvent(u) = Each(u, f)
  BY <1>1, <1>2 DEF ShownEvent, Each
<1>4. Append(e, v) \in Seq(B)
  BY <1>2
<1>5. Each(e, f) \in Seq(B) /\ Each(Append(e, v), f) = Append(Each(e, f), f[v])
  BY <1>1, <1>2, PlacesAppend
<1>6. Len(Each(e, f)) = Len(e)
  BY <1>1, <1>2, PlacesType
<1>7. Each(e, f) = <<>> <=> e = <<>>
  BY <1>2, <1>5, <1>6
<1>8. ShownEvent(e) = Each(e, f) /\ ShownEvent(Append(e, v)) = Each(Append(e, v), f)
  BY <1>2, <1>3, <1>4
<1> QED
  BY <1>1, <1>2, <1>5, <1>7, <1>8 DEF B

(* What is shown of events in a row.                                       *)
ShownInARow(s, t) == ShownEvents(s \o t) = ShownEvents(s) \o ShownEvents(t)

(* It is what is shown of the ones and of the others.                      *)
LEMMA ShownConcat ==
  ASSUME NEW A, "own" \in A, NEW s \in Seq(Seq(Seq(A))), NEW t \in Seq(Seq(Seq(A)))
  PROVE  ShownEvents(s) \in Seq(Seq(Seq(A))) /\ ShownInARow(s, t)
<1> DEFINE B == Seq(Seq(A))
           f == [x \in B |-> ShownEvent(x)]
<1>1. Maps(f, B, B) /\ \A x \in B : f[x] = ShownEvent(x)
  <2>1. ASSUME NEW x \in B PROVE ShownEvent(x) \in B
    <3>1. <<>> \in Seq(A)
      OBVIOUS
    <3> QED
      BY <3>1, ShownAppend
  <2> HIDE DEF B
  <2> QED
    BY <2>1 DEF Maps
<1>2. s \in Seq(B) /\ t \in Seq(B)
  OBVIOUS
<1> HIDE DEF f, B
<1>3. ASSUME NEW u \in Seq(B) PROVE ShownEvents(u) = Each(u, f)
  <2>1. DOMAIN u = 1..Len(u) /\ \A i \in 1..Len(u) : u[i] \in B
    OBVIOUS
  <2> QED
    BY <1>1, <2>1 DEF ShownEvents, Each
<1>4. s \o t \in Seq(B)
  BY <1>2, ConcatShape
<1>5. Joins(Each(s \o t, f), Each(s, f), Each(t, f))
  BY <1>1, <1>2, EachConcat
<1>6. Each(s, f) \in Seq(B)
  BY <1>1, <1>2, MapsEach
<1>7. /\ ShownEvents(s \o t) = Each(s \o t, f)
      /\ ShownEvents(s) = Each(s, f) /\ ShownEvents(t) = Each(t, f)
  BY <1>2, <1>3, <1>4
<1> QED
  BY <1>5, <1>6, <1>7 DEF Joins, ShownInARow, B

(* Nothing is shown of none, and of one event it.                          *)
LEMMA ShownOne ==
  ASSUME NEW A, NEW e \in Seq(Seq(A))
  PROVE  ShownEvents(<<>>) = <<>> /\ ShownEvents(<<e>>) = <<ShownEvent(e)>> /\ ShownEvent(<<>>) = <<>>
<1>1. DOMAIN <<e>> = {1} /\ <<e>>[1] = e
  OBVIOUS
<1>2. ShownEvents(<<e>>) = <<ShownEvent(e)>>
  <2> DEFINE z == ShownEvent(e)
  <2>1. ShownEvents(<<e>>) = [k \in {1} |-> z]
    BY <1>1 DEF ShownEvents
  <2> HIDE DEF z
  <2>2. <<z>> = [k \in {1} |-> z]
    OBVIOUS
  <2> QED
    BY <2>1, <2>2 DEF z
<1>3. ShownEvents(<<>>) = <<>> /\ ShownEvent(<<>>) = <<>>
  BY DEF ShownEvents, ShownEvent
<1> QED
  BY <1>2, <1>3

(* What has been read of the rewritten lines.                              *)
ShownState(st) == [events |-> ShownEvents(st.events), values |-> ShownEvent(st.values)]

(* It is a state.                                                          *)
LEMMA ShownStateType ==
  ASSUME NEW A, "own" \in A, NEW st \in States(A)
  PROVE  ShownState(st) \in States(A)
<1>1. st.events \in Seq(Seq(Seq(A))) /\ st.values \in Seq(Seq(A)) /\ <<>> \in Seq(A)
  BY DEF States
<1>2. ShownEvents(st.events) \in Seq(Seq(Seq(A)))
  BY <1>1, ShownConcat
<1>3. ShownEvent(st.values) \in Seq(Seq(A))
  BY <1>1, ShownAppend
<1> QED
  BY <1>2, <1>3 DEF ShownState, States

(* A line, rewritten, is read as the line is.                              *)
LEMMA ReadShown ==
  ASSUME NEW A, "own" \in A, "data:" \in A, NEW st \in States(A), NEW l \in Seq(A)
  PROVE  ReadLine(ShownState(st), RewriteLine(l)) = ShownState(ReadLine(st, l))
<1> DEFINE es == st.events
           vs == st.values
           r == RewriteLine(l)
           ss == ShownState(st)
<1>1. es \in Seq(Seq(Seq(A))) /\ vs \in Seq(Seq(A)) /\ <<>> \in Seq(A)
  BY DEF States
<1>2. RewritesLine(l) /\ ss.events = ShownEvents(es) /\ ss.values = ShownEvent(vs)
  BY LineRewritten DEF ShownState
<1>3. ShownEvent(vs) = <<>> <=> vs = <<>>
  BY <1>1, ShownAppend
<1>4. CASE l = <<>>
  <2> DEFINE e == IF vs = <<>> THEN <<>> ELSE <<vs>>
  <2>1. r = <<>>
    BY <1>2, <1>4 DEF RewritesLine
  <2>2. ShownEvents(e) = (IF ShownEvent(vs) = <<>> THEN <<>> ELSE <<ShownEvent(vs)>>)
    BY <1>1, <1>3, ShownOne
  <2>3. e \in Seq(Seq(Seq(A)))
    <3> DEFINE B == Seq(Seq(A))
    <3>1. vs \in B
      BY <1>1
    <3> HIDE DEF B
    <3>2. <<>> \in Seq(B) /\ <<vs>> \in Seq(B)
      BY <3>1
    <3> QED
      BY <3>2 DEF B
  <2> HIDE DEF e
  <2>4. ShownEvents(es \o e) = ShownEvents(es) \o ShownEvents(e)
    BY <1>1, <2>3, ShownConcat DEF ShownInARow
  <2>5. ReadLine(st, l) = [events |-> es \o e, values |-> <<>>]
    BY <1>4 DEF ReadLine, e
  <2>6. ReadLine(ss, r) = [events |-> ShownEvents(es) \o ShownEvents(e), values |-> <<>>]
    BY <1>2, <2>1, <2>2 DEF ReadLine
  <2>7. ShownEvent(<<>>) = <<>>
    BY <1>1, ShownOne
  <2>8. ShownState(ReadLine(st, l)) = [events |-> ShownEvents(es \o e), values |-> <<>>]
    BY <2>5, <2>7 DEF ShownState
  <2> QED
    BY <2>4, <2>6, <2>8
<1>5. CASE l # <<>> /\ IsDataLine(l)
  <2>1. r # <<>> /\ IsDataLine(r) /\ Tail(r) = Shown(Tail(l))
    BY <1>2, <1>5 DEF RewritesLine
  <2>2. ShownEvent(Append(vs, Tail(l))) = Append(ShownEvent(vs), Shown(Tail(l)))
    <3>1. Tail(l) \in Seq(A)
      BY <1>5
    <3> QED
      BY <1>1, <3>1, ShownAppend
  <2>3. ReadLine(st, l) = [events |-> es, values |-> Append(vs, Tail(l))]
    BY <1>5 DEF ReadLine
  <2>4. ReadLine(ss, r) = [events |-> ShownEvents(es), values |-> Append(ShownEvent(vs), Shown(Tail(l)))]
    BY <1>2, <2>1 DEF ReadLine
  <2> DEFINE u == Append(vs, Tail(l))
             z == ReadLine(st, l)
  <2>5. ShownState(z) = [events |-> ShownEvents(es), values |-> ShownEvent(u)]
    <3> HIDE DEF u, es
    <3>1. z.events = es /\ z.values = u
      BY <2>3 DEF u
    <3> HIDE DEF z
    <3> QED
      BY <3>1 DEF ShownState
  <2> HIDE DEF z
  <2> QED
    BY <2>2, <2>4, <2>5 DEF z
<1>6. CASE l # <<>> /\ ~IsDataLine(l)
  BY <1>2, <1>6 DEF RewritesLine, ReadLine
<1> QED
  BY <1>4, <1>5, <1>6

(* The lines of a frame, each rewritten.                                   *)
RewriteLines(ls) == [i \in DOMAIN ls |-> RewriteLine(ls[i])]

(* They are lines, as many as there were.                                  *)
LEMMA LinesRewritten ==
  ASSUME NEW A, "own" \in A, "data:" \in A, NEW ls \in Seq(Seq(A))
  PROVE  RewriteLines(ls) \in Seq(Seq(A)) /\ Len(RewriteLines(ls)) = Len(ls)
<1> DEFINE B == Seq(A)
           rs == RewriteLines(ls)
<1>1. \A l \in B : RewriteLine(l) \in B
  BY LineRewritten
<1>2. ls \in Seq(B)
  OBVIOUS
<1> HIDE DEF B
<1>3. Len(ls) \in Nat /\ DOMAIN ls = 1..Len(ls) /\ \A i \in 1..Len(ls) : ls[i] \in B
  BY <1>2
<1>4. rs \in [1..Len(ls) -> B]
  BY <1>1, <1>3 DEF RewriteLines
<1> DEFINE n == Len(ls)
<1>5. n \in Nat /\ rs \in [1..n -> B]
  BY <1>3, <1>4
<1> HIDE DEF rs, n
<1>6. rs \in Seq(B) /\ Len(rs) = n
  BY <1>5
<1> QED
  BY <1>6 DEF B, rs, n

(* One line more.                                                          *)
LEMMA RewriteAppend ==
  ASSUME NEW A, "own" \in A, "data:" \in A, NEW ls \in Seq(Seq(A)), NEW l \in Seq(A)
  PROVE  RewriteLines(Append(ls, l)) = Append(RewriteLines(ls), RewriteLine(l))
<1> DEFINE B == Seq(A)
           f == [x \in B |-> RewriteLine(x)]
<1>1. f \in [B -> B] /\ \A x \in B : f[x] = RewriteLine(x)
  <2>1. \A x \in B : RewriteLine(x) \in B
    BY LineRewritten
  <2> HIDE DEF B
  <2> QED
    BY <2>1
<1>2. ls \in Seq(B) /\ l \in B
  OBVIOUS
<1> HIDE DEF f, B
<1>3. ASSUME NEW u \in Seq(B) PROVE RewriteLines(u) = Each(u, f)
  <2>1. DOMAIN u = 1..Len(u) /\ \A i \in 1..Len(u) : u[i] \in B
    OBVIOUS
  <2> QED
    BY <1>1, <2>1 DEF RewriteLines, Each
<1>4. Append(ls, l) \in Seq(B)
  BY <1>2
<1>5. Each(Append(ls, l), f) = Append(Each(ls, f), f[l])
  BY <1>1, <1>2, PlacesAppend
<1> QED
  BY <1>1, <1>2, <1>3, <1>4, <1>5

(* Lines, rewritten, are read as the lines are.                            *)
LEMMA ReadsShown ==
  ASSUME NEW A, "own" \in A, "data:" \in A, NEW st \in States(A), NEW ls \in Seq(Seq(A))
  PROVE  ReadLines(ShownState(st), RewriteLines(ls)) = ShownState(ReadLines(st, ls))
<1> DEFINE B == Seq(A)
           ss == ShownState(st)
           S == {u \in Seq(B) : ReadLines(ss, RewriteLines(u)) = ShownState(ReadLines(st, u))}
<1>1. ss \in States(A)
  BY ShownStateType
<1> HIDE DEF ss
<1>2. <<>> \in S
  <2>1. <<>> \in Seq(B) /\ RewriteLines(<<>>) = <<>>
    BY DEF RewriteLines
  <2>2. ReadLines(ss, <<>>) = ss /\ ReadLines(st, <<>>) = st
    BY <1>1, ReadNone
  <2> QED
    BY <2>1, <2>2 DEF ss
<1>3. ASSUME NEW u \in Seq(B), NEW a \in B, u \in S PROVE Append(u, a) \in S
  <2> DEFINE m == ReadLines(st, u)
             rs == RewriteLines(u)
  <2>1. m \in States(A)
    BY ReadType
  <2>2. rs \in Seq(Seq(A)) /\ RewriteLine(a) \in Seq(A)
    BY LinesRewritten, LineRewritten
  <2>3. RewriteLines(Append(u, a)) = Append(rs, RewriteLine(a))
    BY RewriteAppend
  <2>4. ReadLines(ss, rs) = ShownState(m)
    BY <1>3
  <2> HIDE DEF rs, m
  <2>5. ReadLines(ss, Append(rs, RewriteLine(a))) = ReadLine(ReadLines(ss, rs), RewriteLine(a))
    BY <1>1, <2>2, ReadAppend
  <2>6. ReadLine(ShownState(m), RewriteLine(a)) = ShownState(ReadLine(m, a))
    BY <2>1, ReadShown
  <2>7. ReadLines(st, Append(u, a)) = ReadLine(m, a)
    BY ReadAppend DEF m
  <2>8. Append(u, a) \in Seq(B)
    <3> HIDE DEF B
    <3> QED
      OBVIOUS
  <2> QED
    BY <2>3, <2>4, <2>5, <2>6, <2>7, <2>8
<1> HIDE DEF S, B
<1>4. Seq(B) \subseteq S
  BY <1>2, <1>3, AppendInduction
<1> QED
  BY <1>4 DEF S, B, ss

(* Blanks alone hold no data line.                                         *)
LEMMA BlanksNoData ==
  ASSUME NEW A, NEW f \in Seq(A), Trim(f) = <<>>
  PROVE  NoData(Lines(f))
<1> DEFINE S == {"data:"}
           ls == Lines(f)
<1>1. Kept(f, S) = <<>>
  <2>1. S \cap Blanks = {}
    BY DEF Blanks
  <2> HIDE DEF S
  <2>2. Kept(Trim(f), S) = Kept(f, S)
    BY <2>1, TrimKeeps
  <2>3. Kept(<<>>, S) = <<>>
    BY KeptNil
  <2> QED
    BY <2>2, <2>3
<1>2. ls \in Seq(Seq(A))
  BY LinesType
<1>3. Kept(FlattenSeq(ls), S) = <<>>
  <2>1. "n" \notin S /\ "r" \notin S
    OBVIOUS
  <2> HIDE DEF S
  <2>2. Kept(FlattenSeq(ls), S) = Kept(f, S)
    BY <2>1, LinesKeep
  <2> QED
    BY <1>1, <2>2
<1> HIDE DEF ls
<1> SUFFICES ASSUME NEW i \in 1..Len(ls), IsDataLine(ls[i]) PROVE FALSE
  BY DEF NoData, ls
<1> DEFINE z == FlattenSeq(ls)
<1>4. ls[i] \in Seq(A) /\ ls[i] # <<>> /\ Head(ls[i]) = "data:"
  BY <1>2 DEF IsDataLine
<1>5. 1 \in 1..Len(ls[i]) /\ ls[i][1] = "data:"
  BY <1>4
<1>6. "data:" \in Range(z)
  BY <1>2, <1>5, FlattenHas
<1>7. z \in Seq(A)
  BY <1>2, FlattenType
<1> HIDE DEF z
<1>8. PICK k \in 1..Len(z) : z[k] = "data:"
  BY <1>6, <1>7 DEF Range
<1>9. z[k] \in Range(Kept(z, S))
  BY <1>7, <1>8, KeptHas
<1>10. Kept(z, S) = <<>>
  BY <1>3 DEF z
<1> QED
  BY <1>9, <1>10 DEF Range

(* The last of some items.                                                 *)
LEMMA LastApart ==
  ASSUME NEW B, NEW ls \in Seq(B), ls # <<>>
  PROVE  \E gs \in Seq(B), g \in B : ls = gs \o <<g>> /\ g = ls[Len(ls)]
<1> DEFINE Apart(u) == \E gs \in Seq(B), g \in B : u = gs \o <<g>> /\ g = u[Len(u)]
           S == {u \in Seq(B) : u # <<>> => Apart(u)}
<1>1. <<>> \in S
  OBVIOUS
<1>2. ASSUME NEW u \in Seq(B), NEW a \in B, u \in S PROVE Append(u, a) \in S
  <2>1. Append(u, a) \in Seq(B) /\ Append(u, a)[Len(Append(u, a))] = a
    OBVIOUS
  <2>2. Append(u, a) = u \o <<a>>
    OBVIOUS
  <2>3. Apart(Append(u, a))
    BY <2>1, <2>2
  <2> HIDE DEF Apart
  <2> QED
    BY <2>1, <2>3
<1> HIDE DEF S
<1>3. Seq(B) \subseteq S
  BY <1>1, <1>2, AppendInduction
<1> QED
  BY <1>3 DEF S

(* No text is like a frame, of no line.                                    *)
LEMMA NoneShaped ==
  ASSUME NEW A
  PROVE  FrameShape(A, <<"n">>, <<>>) /\ Lines(<<>>) = <<>>
<1>1. <<>> \in Seq(LinesOver(A)) /\ <<>> \in LinesOver(A) /\ <<>> \in Seq(A \cup {"n"})
  BY DEF LinesOver
<1>2. Terminated(<<>>, <<"n">>) = <<>>
  <2>1. <<"n">> \in Seq(A \cup {"n"})
    OBVIOUS
  <2> QED
    BY <1>1, <2>1, TerminatedOne
<1>3. OneLine(<<>>)
  BY DEF OneLine
<1>4. Lines(<<>>) = <<>>
  BY <1>1, <1>3, LinesLast
<1>5. <<>> \o <<>> = <<>>
  OBVIOUS
<1> QED
  BY <1>1, <1>2, <1>4, <1>5 DEF FrameShape

(* So are lines that are joined, and their lines are they.                 *)
LEMMA JoinedShaped ==
  ASSUME NEW A, "n" \in A, "r" \in A, NEW ls \in Seq(LinesOver(A)), ls # <<>>, ls[Len(ls)] # <<>>
  PROVE  FrameShape(A, <<"n">>, Join(ls)) /\ Lines(Join(ls)) = ls
<1> DEFINE B == LinesOver(A)
<1>1. PICK gs \in Seq(B), g \in B : ls = gs \o <<g>> /\ g = ls[Len(ls)]
  <2> HIDE DEF B
  <2>1. ls \in Seq(B)
    BY DEF B
  <2> QED
    BY <2>1, LastApart
<1>2. gs \in Seq(Seq(A)) /\ g \in Seq(A)
  BY LinesAreTexts
<1>3. Join(gs \o <<g>>) = Terminated(gs, <<"n">>) \o g
  BY <1>2, JoinTerminates
<1> DEFINE f == <<"n">>
           t == Terminated(gs, f) \o g
<1>4. f \in Breaking
  BY DEF Breaking
<1>5. g # <<>>
  BY <1>1
<1> HIDE DEF f
<1>6. Lines(t) = gs \o <<g>>
  <2>1. Lines(t) = gs \o Lines(g)
    BY <1>2, <1>4, LinesTerminated
  <2>2. OneLine(g)
    BY LineIsWhole
  <2>3. Lines(g) = <<g>>
    BY <1>2, <1>5, <2>2, LinesLast
  <2> QED
    BY <2>1, <2>3
<1> QED
  BY <1>1, <1>3, <1>5, <1>6 DEF FrameShape, f

(* A text whose lines are read, where no event has begun, as those of the  *)
(* other are.                                                              *)
ReadAlike(A, t, ks) ==
  \A st \in States(A) :
    st.values = <<>> => ReadLines(ShownState(st), Lines(t)) = ShownState(ReadLines(st, ks))

(* A frame, rewritten, is read as the frame is.                            *)
LEMMA FrameRewritten ==
  ASSUME NEW f \in Seq(Atoms), Utf8(f), NEW ks \in Seq(LinesOver(Atoms)), Lines(f) = ks, BlankFirst(ks)
  PROVE  FrameShape(Atoms, <<"n">>, RewriteFrame(f)) /\ ReadAlike(Atoms, RewriteFrame(f), ks)
<1> DEFINE A == Atoms
           C == Atoms \ {"n", "r"}
           rs == RewriteLines(ks)
           full == {i \in DOMAIN rs : rs[i] # <<>>}
           m == Min(full)
           u == From(rs, m)
<1>1. "n" \in A /\ "r" \in A /\ "own" \in A /\ "data:" \in A /\ "own" \in C /\ "data:" \in C
  BY DEF Atoms
<1>2. ks \in Seq(Seq(C)) /\ LinesOver(A) = Seq(C) /\ ks \in Seq(Seq(A))
  BY LinesAreTexts DEF LinesOver
<1>3. rs \in Seq(Seq(C)) /\ Len(rs) = Len(ks)
  <2> HIDE DEF C, rs
  <2> QED
    BY <1>1, <1>2, LinesRewritten DEF rs
<1>4. \A i \in 1..Len(ks) : rs[i] = <<>> <=> ks[i] = <<>>
  <2> SUFFICES ASSUME NEW i \in 1..Len(ks) PROVE rs[i] = <<>> <=> ks[i] = <<>>
    OBVIOUS
  <2>1. ks[i] \in Seq(A)
    BY <1>2
  <2>2. RewritesLine(ks[i])
    BY <1>1, <2>1, LineRewritten
  <2>3. rs[i] = RewriteLine(ks[i])
    BY <1>2 DEF RewriteLines
  <2> QED
    BY <2>2, <2>3 DEF RewritesLine
<1>5. RewriteFrame(f) = IF Trim(f) = <<>> THEN <<>> ELSE JoinRewritten(rs)
  BY DEF RewriteFrame, RewriteLines
<1>6. Len(rs) \in Nat /\ DOMAIN rs = 1..Len(rs)
  BY <1>3
<1>7. JoinRewritten(rs) = IF full = {} THEN <<>> ELSE Join(u)
  BY DEF JoinRewritten
<1>8. CASE Trim(f) = <<>> \/ full = {}
  <2>1. RewriteFrame(f) = <<>>
    BY <1>5, <1>7, <1>8
  <2>2. NoData(ks)
    <3>1. CASE Trim(f) = <<>>
      BY <3>1, BlanksNoData
    <3>2. CASE full = {}
      <4>1. \A i \in 1..Len(ks) : ks[i] = <<>>
        BY <1>3, <1>4, <1>6, <3>2
      <4> QED
        BY <4>1 DEF NoData, IsDataLine
    <3> QED
      BY <1>8, <3>1, <3>2
  <2>3. FrameShape(A, <<"n">>, <<>>) /\ Lines(<<>>) = <<>>
    BY NoneShaped
  <2>4. ASSUME NEW st \in States(A), st.values = <<>>
        PROVE  ReadLines(ShownState(st), <<>>) = ShownState(ReadLines(st, ks))
    <3>1. ReadLines(st, ks) = st
      BY <1>2, <2>2, <2>4, ReadNoData
    <3>2. ShownState(st) \in States(A)
      BY <1>1, ShownStateType
    <3>3. ReadLines(ShownState(st), <<>>) = ShownState(st)
      BY <3>2, ReadNone
    <3> QED
      BY <3>1, <3>3
  <2> QED
    BY <2>1, <2>3, <2>4 DEF ReadAlike
<1>9. CASE Trim(f) # <<>> /\ full # {}
  <2>1. RewriteFrame(f) = Join(u)
    BY <1>5, <1>7, <1>9
  <2>2. m \in full /\ \A y \in full : m <= y
    <3>1. full \in SUBSET (Nat \ {0})
      BY <1>6
    <3> HIDE DEF full
    <3>2. FirstOf(full) \in full /\ (\A y \in full : FirstOf(full) <= y) /\ FirstOf(full) = Min(full)
      BY <1>9, <3>1, FirstOfPlaces DEF FirstOf
    <3> QED
      BY <3>2
  <2> HIDE DEF m
  <2>3. m \in 1..Len(rs) /\ rs[m] # <<>> /\ \A y \in 1..Len(rs) : rs[y] # <<>> => m <= y
    BY <1>6, <2>2
  <2>4. m = 1 \/ (m = 2 /\ rs[1] = <<>>)
    <3>1. ASSUME m > 2 PROVE FALSE
      <4>1. 2 \in 2..Len(ks) /\ 2 \in 1..Len(ks)
        BY <1>3, <1>6, <2>3, <3>1
      <4>2. rs[2] # <<>>
        BY <1>4, <4>1 DEF BlankFirst
      <4> QED
        BY <1>3, <2>3, <3>1, <4>1, <4>2
    <3>2. m = 2 => rs[1] = <<>>
      BY <1>6, <2>3
    <3> QED
      BY <1>6, <2>3, <3>1, <3>2
  <2> DEFINE B == Seq(C)
  <2>5. rs \in Seq(B)
    BY <1>3
  <2>6. u \in Seq(B) /\ Len(u) = Len(rs) - m + 1 /\ \A k \in 1..(Len(rs) - m + 1) : u[k] = rs[m + k - 1]
    <3> HIDE DEF B, rs
    <3>1. m \in 1..(Len(rs) + 1)
      BY <1>6, <2>3
    <3> QED
      BY <2>5, <3>1, FromRest
  <2>7. u # <<>> /\ u[Len(u)] = rs[Len(rs)]
    <3> HIDE DEF u, B, rs
    <3>1. Len(u) \in 1..(Len(rs) - m + 1) /\ m + Len(u) - 1 = Len(rs)
      BY <1>6, <2>3, <2>6
    <3>2. u[Len(u)] = rs[m + Len(u) - 1]
      BY <2>6, <3>1
    <3>3. u # <<>>
      BY <3>1
    <3> QED
      BY <3>1, <3>2, <3>3
  <2>8. rs[Len(rs)] # <<>>
    <3>1. CASE Len(rs) = 1
      BY <2>3, <3>1
    <3>2. CASE Len(rs) # 1
      <4>1. Len(rs) \in 2..Len(ks) /\ Len(rs) \in 1..Len(ks)
        BY <1>3, <1>6, <2>3, <3>2
      <4> QED
        BY <1>4, <4>1 DEF BlankFirst
    <3> QED
      BY <3>1, <3>2
  <2>9. u \in Seq(LinesOver(A)) /\ u \in Seq(Seq(A))
    <3>1. u \in Seq(LinesOver(A))
      BY <1>2, <2>6
    <3> HIDE DEF u
    <3> QED
      BY <3>1, LinesAreTexts
  <2> HIDE DEF u
  <2>10. FrameShape(A, <<"n">>, Join(u)) /\ Lines(Join(u)) = u
    BY <1>1, <2>7, <2>8, <2>9, JoinedShaped
  <2>11. ASSUME NEW st \in States(A), st.values = <<>>
         PROVE  ReadLines(ShownState(st), u) = ShownState(ReadLines(st, ks))
    <3> DEFINE ss == ShownState(st)
    <3>1. ss \in States(A) /\ ss.values = <<>>
      <4>1. ss \in States(A)
        BY <1>1, ShownStateType
      <4>2. ShownEvent(<<>>) = <<>>
        BY DEF ShownEvent
      <4> QED
        BY <2>11, <4>1, <4>2 DEF ShownState
    <3>2. ReadLines(ss, rs) = ShownState(ReadLines(st, ks))
      BY <1>1, <1>2, ReadsShown
    <3> HIDE DEF ss
    <3>3. ReadLines(ss, rs) = ReadLines(ss, u)
      <4>1. CASE m = 1
        <5>1. u = rs
          <6> HIDE DEF rs
          <6> QED
            BY <2>5, <4>1, SubSeqFull DEF u, From
        <5> QED
          BY <5>1
      <4>2. CASE m = 2 /\ rs[1] = <<>>
        <5> DEFINE o == <<(<<>>)>>
        <5>1. rs = o \o u
          <6> HIDE DEF rs, B
          <6>1. rs # <<>> /\ rs = <<rs[1]>> \o Tail(rs)
            BY <1>6, <2>3, <2>5
          <6>2. Tail(rs) = u
            BY <2>5, <4>2, <6>1 DEF u, From
          <6> QED
            BY <4>2, <6>1, <6>2
        <5>2. o \in Seq(Seq(A)) /\ NoData(o)
          <6>1. <<>> \in Seq(A)
            OBVIOUS
          <6>2. o \in Seq(Seq(A))
            BY <6>1, OneType
          <6> QED
            BY <6>2 DEF NoData, IsDataLine
        <5> HIDE DEF o, rs
        <5>3. ReadInARow(ss, o, u)
          BY <2>9, <3>1, <5>2, ReadConcat
        <5>4. ReadLines(ss, o) = ss
          BY <3>1, <5>2, ReadNoData
        <5> QED
          BY <5>1, <5>3, <5>4 DEF ReadInARow
      <4> QED
        BY <2>4, <4>1, <4>2
    <3> QED
      BY <3>2, <3>3 DEF ss
  <2> HIDE DEF rs
  <2> QED
    BY <2>1, <2>10, <2>11 DEF ReadAlike
<1> QED
  BY <1>8, <1>9

-----------------------------------------------------------------------------
(* Bodies of whole characters.                                             *)
TextLine == {l \in LinesOver(Atoms) : Utf8(l)}
InLines(break, t) == \E ls \in Seq(TextLine), l \in TextLine : t = Terminated(ls, break) \o l

(* Their lines are lines.                                                  *)
LEMMA TextLinesAreLines ==
  /\ "n" \in Atoms /\ "r" \in Atoms
  /\ \A l \in TextLine : l \in LinesOver(Atoms) /\ l \in Seq(Atoms) /\ Utf8(l)
  /\ \A ls \in Seq(TextLine) : ls \in Seq(LinesOver(Atoms)) /\ ls \in Seq(Seq(Atoms))
<1>1. "n" \in Atoms /\ "r" \in Atoms
  BY DEF Atoms
<1>2. TextLine \subseteq LinesOver(Atoms) /\ \A l \in TextLine : Utf8(l)
  BY DEF TextLine
<1>3. ASSUME NEW ls \in Seq(TextLine) PROVE ls \in Seq(LinesOver(Atoms)) /\ ls \in Seq(Seq(Atoms))
  <2>1. ls \in Seq(LinesOver(Atoms))
    BY <1>2, SeqOfMore
  <2> QED
    BY <2>1, LinesAreTexts
<1>4. LinesOver(Atoms) \subseteq Seq(Atoms)
  <2>1. <<>> \in Seq(LinesOver(Atoms))
    OBVIOUS
  <2> QED
    BY <2>1, LinesAreTexts
<1> QED
  BY <1>1, <1>2, <1>3, <1>4

(* Whole characters in a row.                                              *)
LEMMA Utf8Concat ==
  ASSUME NEW A, NEW s \in Seq(A), NEW t \in Seq(A), Utf8(s), Utf8(t)
  PROVE  Utf8(s \o t)
<1> DEFINE z == s \o t
           m == Len(s)
           n == Len(t)
<1>1. /\ z \in Seq(A) /\ Len(z) = m + n /\ m \in Nat /\ n \in Nat
      /\ \A i \in 1..m : z[i] = s[i]
      /\ \A i \in 1..n : z[m + i] = t[i]
      /\ DOMAIN s = 1..m /\ DOMAIN t = 1..n
  BY ConcatPlaces
<1> HIDE DEF z
<1>2. DOMAIN z = 1..(m + n)
  BY <1>1
<1>3. ASSUME NEW i \in 1..(m + n)
      PROVE  /\ z[i] = "c1" => i < m + n /\ z[i + 1] = "c2"
             /\ z[i] = "c2" => i > 1 /\ z[i - 1] = "c1"
  <2>1. CASE i <= m
    <3>1. i \in 1..m /\ z[i] = s[i]
      BY <1>1, <2>1
    <3>2. /\ s[i] = "c1" => i < m /\ s[i + 1] = "c2"
          /\ s[i] = "c2" => i > 1 /\ s[i - 1] = "c1"
      BY <1>1, <3>1 DEF Utf8
    <3>3. i < m => i + 1 \in 1..m
      BY <1>1, <3>1
    <3>4. i > 1 => i - 1 \in 1..m
      BY <1>1, <3>1
    <3> QED
      BY <1>1, <3>1, <3>2, <3>3, <3>4
  <2>2. CASE i > m
    <3> DEFINE k == i - m
    <3>1. k \in 1..n /\ i = m + k
      BY <1>1, <2>2
    <3> HIDE DEF k
    <3>2. z[i] = t[k]
      BY <1>1, <3>1
    <3>3. /\ t[k] = "c1" => k < n /\ t[k + 1] = "c2"
          /\ t[k] = "c2" => k > 1 /\ t[k - 1] = "c1"
      BY <1>1, <3>1 DEF Utf8
    <3>4. k < n => k + 1 \in 1..n /\ i + 1 = m + (k + 1) /\ i < m + n
      BY <1>1, <3>1
    <3>5. k > 1 => k - 1 \in 1..n /\ i - 1 = m + (k - 1) /\ i > 1
      BY <1>1, <3>1
    <3>6. k < n => z[i + 1] = t[k + 1]
      BY <1>1, <3>4
    <3>7. k > 1 => z[i - 1] = t[k - 1]
      BY <1>1, <3>5
    <3> QED
      BY <3>2, <3>3, <3>4, <3>5, <3>6, <3>7
  <2> QED
    BY <1>1, <2>1, <2>2
<1>4. Len(z) = m + n
  BY <1>1
<1> HIDE DEF m, n
<1>5. Utf8(z)
  BY <1>2, <1>3, <1>4 DEF Utf8
<1> QED
  BY <1>5 DEF z

(* So are whole lines with their breaks.                                   *)
LEMMA LinesUtf8 ==
  ASSUME NEW break \in Breaking, NEW t, InLines(break, t)
  PROVE  t \in Seq(Atoms) /\ Utf8(t)
<1>1. break \in Seq(Atoms) /\ Utf8(break)
  <2>1. break \in Seq(Atoms)
    BY TextLinesAreLines, BreakIsText
  <2>2. \A i \in DOMAIN break : break[i] = "n" \/ break[i] = "r"
    BY DEF Breaking
  <2> QED
    BY <2>1, <2>2 DEF Utf8
<1> DEFINE S == {ls \in Seq(TextLine) : Utf8(Terminated(ls, break))}
<1>2. <<>> \in S
  <2>1. <<>> \in Seq(TextLine) /\ <<>> \in Seq(Atoms)
    OBVIOUS
  <2>2. Terminated(<<>>, break) = <<>>
    BY <1>1, <2>1, TerminatedOne
  <2>3. Utf8(<<>>)
    BY DEF Utf8
  <2> QED
    BY <2>1, <2>2, <2>3
<1>3. ASSUME NEW ls \in Seq(TextLine), NEW l \in TextLine, ls \in S PROVE <<l>> \o ls \in S
  <2>1. ls \in Seq(Seq(Atoms)) /\ l \in Seq(Atoms) /\ Utf8(l)
    BY TextLinesAreLines
  <2> DEFINE u == Terminated(ls, break)
  <2>2. u \in Seq(Atoms) /\ Terminated(<<l>> \o ls, break) = l \o (break \o u)
    BY <1>1, <2>1, TerminatedFirst
  <2>3. Utf8(u)
    BY <1>3
  <2> HIDE DEF u
  <2>4. Utf8(break \o u) /\ break \o u \in Seq(Atoms)
    BY <1>1, <2>2, <2>3, Utf8Concat, ConcatShape
  <2>5. Utf8(l \o (break \o u))
    BY <2>1, <2>4, Utf8Concat
  <2>6. <<l>> \o ls \in Seq(TextLine)
    OBVIOUS
  <2> QED
    BY <2>2, <2>5, <2>6
<1> HIDE DEF S
<1>4. Seq(TextLine) \subseteq S
  BY <1>2, <1>3, PrependInduction
<1>5. PICK ls \in Seq(TextLine), l \in TextLine : t = Terminated(ls, break) \o l
  BY DEF InLines
<1>6. ls \in Seq(Seq(Atoms)) /\ l \in Seq(Atoms) /\ Utf8(l)
  BY TextLinesAreLines
<1>7. Terminated(ls, break) \in Seq(Atoms)
  BY <1>1, <1>6, TerminatedConcat
<1>8. Utf8(Terminated(ls, break))
  BY <1>4 DEF S
<1> QED
  BY <1>5, <1>6, <1>7, <1>8, Utf8Concat, ConcatShape

(* What a frame must be to be rewritten line by line.                      *)
Rewritable(f) ==
  /\ f \in Seq(Atoms) /\ Utf8(f)
  /\ Lines(f) \in Seq(LinesOver(Atoms)) /\ BlankFirst(Lines(f))

(* Lines are, if none but the first is blank.                              *)
LEMMA LinesRewritable ==
  ASSUME NEW break \in Breaking, NEW ls \in Seq(TextLine), NEW l \in TextLine, BlankFirst(ls)
  PROVE  Rewritable(Terminated(ls, break) \o l)
<1> DEFINE B == LinesOver(Atoms)
           t == Terminated(ls, break) \o l
           k == Lines(l)
<1>1. InLines(break, t)
  BY DEF InLines
<1>2. /\ "n" \in Atoms /\ "r" \in Atoms /\ ls \in Seq(B) /\ l \in B /\ l \in Seq(Atoms)
  BY TextLinesAreLines
<1>3. t \in Seq(Atoms) /\ Utf8(t)
  <2> HIDE DEF t
  <2> QED
    BY <1>1, LinesUtf8
<1>4. Lines(t) = ls \o k
  BY <1>2, LinesTerminated
<1>5. k = IF l = <<>> THEN <<>> ELSE <<l>>
  <2>1. OneLine(l)
    BY <1>2, LineIsWhole
  <2> QED
    BY <1>2, <2>1, LinesLast
<1> HIDE DEF k, t, B
<1>6. k \in Seq(B) /\ Len(k) \in Nat /\ \A i \in 1..Len(k) : k[i] # <<>>
  <2>1. CASE l = <<>>
    BY <1>5, <2>1
  <2>2. CASE l # <<>>
    BY <1>2, <1>5, <2>2
  <2> QED
    BY <2>1, <2>2
<1>7. /\ ls \o k \in Seq(B) /\ Len(ls \o k) = Len(ls) + Len(k) /\ Len(ls) \in Nat
      /\ \A i \in 1..Len(ls) : (ls \o k)[i] = ls[i]
      /\ \A i \in 1..Len(k) : (ls \o k)[Len(ls) + i] = k[i]
  <2>1. Len(ls) \in Nat
    BY <1>2
  <2> QED
    BY <1>2, <1>6, <2>1, ConcatPlaces
<1> DEFINE z == ls \o k
           m == Len(ls)
           n == Len(k)
<1>8. ASSUME NEW i \in 2..Len(z) PROVE z[i] # <<>>
  <2> HIDE DEF z, m, n
  <2>1. Len(z) = m + n /\ m \in Nat /\ n \in Nat
    BY <1>6, <1>7 DEF z, m, n
  <2>2. CASE i <= m
    <3>1. i \in 2..m /\ i \in 1..m
      BY <2>1, <2>2
    <3> QED
      BY <1>7, <3>1 DEF z, m, BlankFirst
  <2>3. CASE i > m
    <3>1. i - m \in 1..n /\ m + (i - m) = i
      BY <2>1, <2>3
    <3>2. z[m + (i - m)] = k[i - m] /\ k[i - m] # <<>>
      BY <1>6, <1>7, <3>1 DEF z, m, n
    <3> QED
      BY <3>1, <3>2
  <2> QED
    BY <2>1, <2>2, <2>3
<1>9. BlankFirst(ls \o k)
  BY <1>8 DEF BlankFirst, z
<1> QED
  BY <1>3, <1>4, <1>7, <1>9 DEF Rewritable, t, B

(* Items of a part are items of the whole.                                 *)
LEMMA PartsTyped ==
  ASSUME NEW A, NEW T, NEW s \in Seq(A), NEW t \in Seq(A), s \o t \in Seq(T)
  PROVE  s \in Seq(T) /\ t \in Seq(T)
<1> DEFINE z == s \o t
<1>1. /\ Len(z) = Len(s) + Len(t) /\ Len(s) \in Nat /\ Len(t) \in Nat
      /\ \A i \in 1..Len(s) : z[i] = s[i]
      /\ \A i \in 1..Len(t) : z[Len(s) + i] = t[i]
      /\ s = [i \in 1..Len(s) |-> s[i]] /\ t = [i \in 1..Len(t) |-> t[i]]
  <2>1. Len(s) \in Nat /\ Len(t) \in Nat
    OBVIOUS
  <2>2. s = [i \in 1..Len(s) |-> s[i]] /\ t = [i \in 1..Len(t) |-> t[i]]
    OBVIOUS
  <2> QED
    BY <2>1, <2>2, ConcatPlaces
<1>2. z \in Seq(T)
  OBVIOUS
<1> HIDE DEF z
<1>3. \A i \in 1..Len(z) : z[i] \in T
  BY <1>2
<1>4. \A i \in 1..Len(s) : i \in 1..Len(z)
  BY <1>1
<1>5. \A i \in 1..Len(t) : Len(s) + i \in 1..Len(z)
  BY <1>1
<1>6. \A i \in 1..Len(s) : s[i] \in T
  BY <1>1, <1>3, <1>4
<1>7. \A i \in 1..Len(t) : t[i] \in T
  BY <1>1, <1>3, <1>5
<1>8. s \in [1..Len(s) -> T] /\ t \in [1..Len(t) -> T]
  BY <1>1, <1>6, <1>7
<1> QED
  BY <1>1, <1>8

(* A text is its first frame, the blank line, and what is behind it.       *)
LEMMA FrameApart ==
  ASSUME NEW A, NEW t \in Seq(A), Separator(t) # 0
  PROVE  SeparatorOf(t) \in Seq(A) /\ t = (Frame(t) \o SeparatorOf(t)) \o Behind(t)
<1> DEFINE n == Len(t)
           p == Separator(t)
           d == SeparatorLength(t, p)
           m == p + d - 1
           k == p - 1
<1>1. p \in 1..n /\ d \in {2, 4} /\ p + d \in 1..(n + 1) /\ n \in Nat
  BY SeparatorInside
<1>2. /\ Frame(t) = SubSeq(t, 1, p - 1) /\ SeparatorOf(t) = SubSeq(t, p, p + d - 1)
      /\ Behind(t) = SubSeq(t, p + d, n)
  BY DEF Frame, SeparatorOf, Behind, From
<1> HIDE DEF p, d, n
<1>3. /\ k \in Nat /\ m \in Nat /\ p = k + 1 /\ p + d = m + 1 /\ p + d - 1 = m /\ p - 1 = k
      /\ 1 \in 1..(n + 1) /\ k \in (1 - 1)..n /\ m \in k..n /\ m \in (1 - 1)..n /\ n \in m..n
  BY <1>1
<1> HIDE DEF k, m
<1>4. \A i \in (k + 1)..m : t[i] \in A
  BY <1>1, <1>3 DEF n
<1>5. SubSeq(t, k + 1, m) \in Seq(A)
  BY <1>3, <1>4, SubSeqProperties
<1>6. SubSeq(t, 1, k) \o SubSeq(t, k + 1, m) = SubSeq(t, 1, m)
  BY <1>3, ConcatAdjacentSubSeq DEF n
<1>7. SubSeq(t, 1, m) \o SubSeq(t, m + 1, n) = SubSeq(t, 1, n)
  BY <1>3, ConcatAdjacentSubSeq DEF n
<1>8. SubSeq(t, 1, n) = t
  BY SubSeqFull DEF n
<1> QED
  BY <1>2, <1>3, <1>5, <1>6, <1>7, <1>8

(* What arrives does not change its blank line.                            *)
LEMMA SeparatorOfStays ==
  ASSUME NEW A, NEW t \in Seq(A), NEW c \in Seq(A), Separator(t) # 0
  PROVE  SeparatorOf(t \o c) = SeparatorOf(t)
<1> DEFINE p == Separator(t)
           d == SeparatorLength(t, p)
           z == t \o c
<1>1. p \in 1..Len(t) /\ d \in {2, 4} /\ p + d \in 1..(Len(t) + 1)
  BY SeparatorInside
<1>2. Separator(z) = p /\ SeparatorLength(z, p) = d
  BY SeparatorStays
<1>3. SeparatorOf(z) = SubSeq(z, p, p + d - 1) /\ SeparatorOf(t) = SubSeq(t, p, p + d - 1)
  BY <1>2 DEF SeparatorOf
<1> DEFINE n == Len(t)
           q == p + d - 1
<1>4. z \in Seq(A) /\ Len(z) = n + Len(c) /\ n \in Nat /\ Len(c) \in Nat
  BY ConcatPlaces
<1>5. SubSeq(z, 1, n) = t
  BY ConcatCut
<1> HIDE DEF p, d, z
<1>6. /\ 1 \in 1..(Len(z) + 1) /\ n \in (1 - 1)..Len(z)
      /\ p \in 1..(n - 1 + 2) /\ q \in (p - 1)..(n - 1 + 1)
      /\ 1 + p - 1 = p /\ 1 + q - 1 = q
  BY <1>1, <1>4
<1> HIDE DEF n, q
<1>7. SubSeq(SubSeq(z, 1, n), p, q) = SubSeq(z, 1 + p - 1, 1 + q - 1)
  BY <1>4, <1>6, SubSeqOfSubSeq
<1> QED
  BY <1>3, <1>5, <1>6, <1>7 DEF z, q

(* The first frame of some lines can be rewritten, and lines are behind.   *)
LEMMA FrameOfLines ==
  ASSUME NEW break \in Breaking, NEW t, InLines(break, t), Separator(t) # 0
  PROVE  /\ Rewritable(Frame(t)) /\ FrameShape(Atoms, break, Frame(t))
         /\ SeparatorOf(t) = break \o break /\ InLines(break, Behind(t))
<1> DEFINE A == Atoms
           B == LinesOver(A)
<1>1. PICK ls \in Seq(TextLine), l \in TextLine : t = Terminated(ls, break) \o l
  BY DEF InLines
<1>2. "n" \in A /\ "r" \in A /\ ls \in Seq(B) /\ l \in B
  BY TextLinesAreLines
<1>3. Framed(A, break, ls, l, t)
  BY <1>1, <1>2, FirstFrame
<1>4. PICK hs \in Seq(B), h \in B, us \in Seq(B) : CutAt(break, ls, l, t, hs, h, us)
  BY <1>3 DEF Framed
<1> DEFINE o == <<h>>
           e == <<(<<>>)>>
           s == hs \o o
           u == e \o us
<1>5. o \in Seq(B) /\ e \in Seq(B)
  BY TextLinesAreLines DEF LinesOver
<1>6. /\ ls = s \o u /\ BlankFirst(s) /\ Frame(t) = Terminated(hs, break) \o h
      /\ SeparatorOf(t) = break \o break /\ Behind(t) = Terminated(us, break) \o l
  BY <1>4 DEF CutAt
<1>7. Len(o) = 1 /\ o[1] = h
  OBVIOUS
<1> HIDE DEF o, e
<1>8. s \in Seq(B) /\ u \in Seq(B)
  BY <1>5, ConcatShape
<1>9. s \in Seq(TextLine) /\ u \in Seq(TextLine)
  <2> HIDE DEF s, u, B
  <2> QED
    BY <1>6, <1>8, PartsTyped
<1>10. us \in Seq(TextLine) /\ hs \in Seq(TextLine) /\ o \in Seq(TextLine)
  BY <1>5, <1>9, PartsTyped
<1>11. h \in TextLine
  <2> HIDE DEF s, u, B
  <2>1. 1 \in 1..Len(o)
    BY <1>7
  <2>2. o[1] \in TextLine
    BY <1>10, <2>1
  <2> QED
    BY <1>7, <2>2
<1>12. /\ Len(s) = Len(hs) + 1 /\ Len(hs) \in Nat /\ s[Len(hs) + 1] = h
       /\ \A i \in 1..Len(hs) : s[i] = hs[i]
  <2>1. /\ Len(s) = Len(hs) + Len(o)
        /\ \A i \in 1..Len(hs) : s[i] = hs[i]
        /\ \A i \in 1..Len(o) : s[Len(hs) + i] = o[i]
    BY <1>5, ConcatPlaces
  <2>2. Len(hs) \in Nat
    OBVIOUS
  <2> HIDE DEF s
  <2> QED
    BY <1>7, <2>1, <2>2
<1> HIDE DEF s, u
<1>13. BlankFirst(hs)
  <2> SUFFICES ASSUME NEW i \in 2..Len(hs) PROVE hs[i] # <<>>
    BY DEF BlankFirst
  <2>1. i \in 2..Len(s) /\ i \in 1..Len(hs)
    BY <1>12
  <2> QED
    BY <1>6, <1>12, <2>1 DEF BlankFirst
<1>14. h # <<>> \/ hs = <<>>
  <2> SUFFICES ASSUME hs # <<>> PROVE h # <<>>
    OBVIOUS
  <2>1. Len(hs) + 1 \in 2..Len(s)
    BY <1>12
  <2> QED
    BY <1>6, <1>12, <2>1 DEF BlankFirst
<1>15. Rewritable(Terminated(hs, break) \o h)
  BY <1>10, <1>11, <1>13, LinesRewritable
<1>16. FrameShape(A, break, Frame(t))
  BY <1>6, <1>14 DEF FrameShape
<1>17. InLines(break, Behind(t))
  BY <1>6, <1>10 DEF InLines
<1> QED
  BY <1>6, <1>15, <1>16, <1>17

(* So can lines without a complete frame.                                  *)
LEMMA RestOfLines ==
  ASSUME NEW break \in Breaking, NEW t, InLines(break, t), Separator(t) = 0
  PROVE  Rewritable(t)
<1> DEFINE A == Atoms
           B == LinesOver(A)
<1>1. PICK ls \in Seq(TextLine), l \in TextLine : t = Terminated(ls, break) \o l
  BY DEF InLines
<1>2. "n" \in A /\ "r" \in A /\ ls \in Seq(B) /\ l \in B
  BY TextLinesAreLines
<1>3. Framed(A, break, ls, l, t)
  BY <1>1, <1>2, FirstFrame
<1>4. BlankFirst(ls)
  BY <1>3 DEF Framed, CutAt
<1> QED
  BY <1>1, <1>4, LinesRewritable

(* A text behind which lines go on, after lines of its own.                *)
GoesOn(s, ks) == \A x \in Seq(Atoms) : Lines(s \o x) = ks \o Lines(x)

(* It is so of no text and no lines.                                       *)
LEMMA NothingGoesOn == GoesOn(<<>>, <<>>)
<1> SUFFICES ASSUME NEW x \in Seq(Atoms) PROVE Lines(<<>> \o x) = <<>> \o Lines(x)
  BY DEF GoesOn
<1> DEFINE y == Lines(x)
           B == Seq(Atoms)
<1>1. y \in Seq(B)
  BY LinesType
<1> HIDE DEF y, B
<1>2. <<>> \o y = y
  BY <1>1, ConcatEmptySeq
<1>3. <<>> \o x = x
  BY ConcatEmptySeq
<1> QED
  BY <1>2, <1>3 DEF y

(* Two texts and what is between them, in front of the second or behind    *)
(* the first.                                                              *)
Moves(q, f, bb, u) == q \o ((f \o bb) \o u) = ((q \o f) \o bb) \o u

(* It is the same text.                                                    *)
LEMMA FrameMoves ==
  ASSUME NEW A, NEW q \in Seq(A), NEW f \in Seq(A), NEW bb \in Seq(A), NEW u \in Seq(A)
  PROVE  Moves(q, f, bb, u)
<1> DEFINE fb == f \o bb
<1>1. fb \in Seq(A)
  BY ConcatShape
<1>2. Associates(q, f, bb)
  BY ThreeInARow
<1> HIDE DEF fb
<1>3. Associates(q, fb, u)
  BY <1>1, ThreeInARow
<1> QED
  BY <1>2, <1>3 DEF Associates, Moves, fb

(* A frame with its blank line leaves it so.                               *)
LEMMA GoesOnBehind ==
  ASSUME NEW s \in Seq(Atoms), NEW ks \in Seq(Seq(Atoms)), GoesOn(s, ks),
         NEW feed \in Breaking, NEW f \in Seq(Atoms), FrameShape(Atoms, feed, f), NEW break \in Breaking
  PROVE  GoesOn((s \o f) \o (break \o break), ks \o (Lines(f) \o Gap(f)))
<1> DEFINE A == Atoms
           L == Lines(f)
           g == Gap(f)
           bb == break \o break
           w == (s \o f) \o bb
<1>1. "n" \in A /\ "r" \in A
  BY TextLinesAreLines
<1>2. bb \in Seq(A)
  <2>1. break \in Seq(A)
    BY <1>1, BreakIsText
  <2> QED
    BY <2>1, ConcatShape
<1>3. L \in Seq(Seq(A)) /\ g \in Seq(Seq(A))
  <2>1. <<>> \in Seq(A)
    OBVIOUS
  <2>2. g \in Seq(Seq(A))
    BY <2>1, Twice DEF Gap
  <2> QED
    BY <2>2, LinesType
<1> SUFFICES ASSUME NEW x \in Seq(A) PROVE Lines(w \o x) = (ks \o (L \o g)) \o Lines(x)
  BY DEF GoesOn
<1> DEFINE y == Lines(x)
           fb == f \o bb
           Lg == L \o g
<1>4. GapFollows(break, f, x)
  BY <1>1, FrameLines
<1>5. Lines(fb \o x) = Lg \o y
  BY <1>4 DEF GapFollows
<1>6. y \in Seq(Seq(A))
  BY LinesType
<1> HIDE DEF bb, L, g, y
<1>7. fb \in Seq(A) /\ Lg \in Seq(Seq(A))
  BY <1>2, <1>3, ConcatShape
<1>8. Associates(s, f, bb)
  BY <1>2, ThreeInARow
<1>9. w = s \o fb
  BY <1>8 DEF Associates
<1> HIDE DEF w, fb, Lg
<1>10. Associates(s, fb, x)
  BY <1>7, ThreeInARow
<1>11. w \o x = s \o (fb \o x)
  BY <1>9, <1>10 DEF Associates
<1>12. Lines(s \o (fb \o x)) = ks \o Lines(fb \o x)
  <2>1. fb \o x \in Seq(A)
    BY <1>7, ConcatShape
  <2> QED
    BY <2>1 DEF GoesOn
<1>13. Associates(ks, Lg, y)
  BY <1>6, <1>7, ThreeInARow
<1> QED
  BY <1>5, <1>11, <1>12, <1>13 DEF Associates, Lg, y

-----------------------------------------------------------------------------
(* A body read as it is sent.                                              *)

(* Lines with a blank one, or two, behind them.                            *)
ReadOver(st, ks, ls, t) ==
  ReadLines(st, ks \o (ls \o Gap(t))) = ReadLine(ReadLines(ReadLines(st, ks), ls), <<>>)

(* They are read as with one.                                              *)
LEMMA ReadFrame ==
  ASSUME NEW A, NEW st \in States(A), NEW ks \in Seq(Seq(A)), NEW ls \in Seq(Seq(A)), NEW t
  PROVE  ReadOver(st, ks, ls, t)
<1> DEFINE m == ReadLines(st, ks)
           k == ReadLines(m, ls)
           g == Gap(t)
           u == ls \o g
<1>1. m \in States(A)
  BY ReadType
<1> HIDE DEF m
<1>2. k \in States(A)
  BY <1>1, ReadType
<1> HIDE DEF k
<1>3. ReadLines(k, g) = ReadLine(k, <<>>) /\ g \in Seq(Seq(A))
  BY <1>2, ReadGap
<1> HIDE DEF g
<1>4. u \in Seq(Seq(A))
  BY <1>3, ConcatShape
<1>5. ReadInARow(m, ls, g)
  BY <1>1, <1>3, ReadConcat
<1> HIDE DEF u
<1>6. ReadInARow(st, ks, u)
  BY <1>4, ReadConcat
<1> QED
  BY <1>3, <1>5, <1>6 DEF ReadInARow, ReadOver, m, k, g, u

(* Lines that are read, between two events, as other lines are.            *)
ReadSame(ks, os) ==
  /\ ReadLines(Unread, ks).values = <<>>
  /\ ReadLines(Unread, os) = ShownState(ReadLines(Unread, ks))

(* So they are behind a frame that is rewritten.                           *)
LEMMA FrameReadSame ==
  ASSUME NEW ks \in Seq(Seq(Atoms)), NEW os \in Seq(Seq(Atoms)), ReadSame(ks, os),
         NEW f, Rewritable(f)
  PROVE  LET r == RewriteFrame(f)
         IN  /\ FrameShape(Atoms, <<"n">>, r) /\ r \in Seq(Atoms)
             /\ ReadSame(ks \o (Lines(f) \o Gap(f)), os \o (Lines(r) \o Gap(r)))
             /\ ReadLines(Unread, os \o Lines(r)) = ShownState(ReadLines(Unread, ks \o Lines(f)))
<1> DEFINE A == Atoms
           r == RewriteFrame(f)
           m == ReadLines(Unread, ks)
           k == ReadLines(m, Lines(f))
<1>1. "own" \in A /\ "data:" \in A
  BY DEF Atoms
<1>2. f \in Seq(A) /\ Utf8(f) /\ Lines(f) \in Seq(LinesOver(A)) /\ BlankFirst(Lines(f))
  BY DEF Rewritable
<1>3. FrameShape(A, <<"n">>, r) /\ ReadAlike(A, r, Lines(f))
  BY <1>2, FrameRewritten
<1>4. r \in Seq(A)
  BY <1>2, RewriteType
<1>5. Unread \in States(A)
  <2>1. <<>> \in Seq(Seq(A)) /\ <<>> \in Seq(Seq(Seq(A)))
    OBVIOUS
  <2> QED
    BY <2>1 DEF Unread, States
<1>6. Lines(f) \in Seq(Seq(A)) /\ Lines(r) \in Seq(Seq(A))
  BY <1>2, <1>4, LinesType
<1>7. m \in States(A) /\ m.values = <<>>
  BY <1>5, ReadType DEF ReadSame
<1>8. ReadLines(Unread, os) = ShownState(m)
  BY DEF ReadSame
<1> HIDE DEF m, r
<1>9. k \in States(A)
  BY <1>6, <1>7, ReadType
<1>10. ReadLines(ShownState(m), Lines(r)) = ShownState(k)
  BY <1>3, <1>7 DEF ReadAlike
<1> HIDE DEF k
<1>11. ReadLines(Unread, os \o Lines(r)) = ShownState(k) /\ ReadLines(Unread, ks \o Lines(f)) = k
  <2>1. ReadInARow(Unread, os, Lines(r)) /\ ReadInARow(Unread, ks, Lines(f))
    BY <1>5, <1>6, ReadConcat
  <2> QED
    BY <1>8, <1>10, <2>1 DEF ReadInARow, m, k
<1>12. ReadOver(Unread, ks, Lines(f), f) /\ ReadOver(Unread, os, Lines(r), r)
  BY <1>5, <1>6, ReadFrame
<1> DEFINE z == ReadLine(k, <<>>)
<1>13. /\ ReadLines(Unread, ks \o (Lines(f) \o Gap(f))) = z
       /\ ReadLines(Unread, os \o (Lines(r) \o Gap(r))) = ReadLine(ShownState(k), <<>>)
  BY <1>8, <1>10, <1>12 DEF ReadOver, m, k
<1>14. ReadLine(ShownState(k), <<>>) = ShownState(z)
  <2>1. <<>> \in Seq(A) /\ RewriteLine(<<>>) = <<>>
    BY DEF RewriteLine, IsDataLine
  <2> HIDE DEF z
  <2>2. ReadLine(ShownState(k), RewriteLine(<<>>)) = ShownState(ReadLine(k, <<>>))
    BY <1>1, <1>9, <2>1, ReadShown
  <2> QED
    BY <2>1, <2>2 DEF z
<1>15. z.values = <<>>
  BY DEF ReadLine
<1> HIDE DEF z
<1> QED
  BY <1>3, <1>4, <1>11, <1>13, <1>14, <1>15 DEF ReadSame, r

(* What is still to be rewritten, and what has been sent, of a body: what  *)
(* stands before the one is read as the other.                             *)
Matched(b, t, o) ==
  /\ t \in Seq(Atoms) /\ o \in Seq(Atoms)
  /\ \E break \in Breaking, q \in Seq(Atoms), ks \in Seq(Seq(Atoms)), os \in Seq(Seq(Atoms)) :
       /\ InLines(break, t) /\ b = q \o t
       /\ GoesOn(q, ks) /\ GoesOn(o, os) /\ ReadSame(ks, os)

(* At first nothing is sent.                                               *)
LEMMA NothingMatched ==
  ASSUME NEW break \in Breaking, NEW b, InLines(break, b)
  PROVE  Matched(b, b, <<>>)
<1>1. b \in Seq(Atoms) /\ <<>> \in Seq(Atoms) /\ <<>> \in Seq(Seq(Atoms)) /\ b = <<>> \o b
  BY LinesUtf8, ConcatEmptySeq
<1>2. GoesOn(<<>>, <<>>)
  BY NothingGoesOn
<1>3. ReadSame(<<>>, <<>>)
  <2>2. ReadLines(Unread, <<>>) = Unread
    BY UnreadType, ReadNone
  <2>3. ShownState(Unread) = Unread
    BY DEF ShownState, Unread, ShownEvents, ShownEvent
  <2> QED
    BY <2>2, <2>3 DEF ReadSame, Unread
<1> QED
  BY <1>1, <1>2, <1>3 DEF Matched

(* A frame is rewritten.                                                   *)
LEMMA MatchedTakes ==
  ASSUME NEW b, NEW t, NEW o, Matched(b, t, o), Separator(t) # 0
  PROVE  Matched(b, Behind(t), (o \o RewriteFrame(Frame(t))) \o SeparatorOf(t))
<1> DEFINE A == Atoms
           f == Frame(t)
           r == RewriteFrame(f)
           u == Behind(t)
<1>1. t \in Seq(A) /\ o \in Seq(A)
  BY DEF Matched
<1>2. PICK break \in Breaking, q \in Seq(A), ks \in Seq(Seq(A)), os \in Seq(Seq(A)) :
        /\ InLines(break, t) /\ b = q \o t
        /\ GoesOn(q, ks) /\ GoesOn(o, os) /\ ReadSame(ks, os)
  BY DEF Matched
<1> DEFINE bb == break \o break
<1>3. Rewritable(f) /\ FrameShape(A, break, f) /\ SeparatorOf(t) = bb /\ InLines(break, u)
  BY <1>2, FrameOfLines
<1>4. bb \in Seq(A) /\ t = (f \o bb) \o u
  BY <1>1, <1>3, FrameApart
<1>5. f \in Seq(A)
  BY <1>3 DEF Rewritable
<1>6. u \in Seq(A)
  BY <1>1, BehindShorter
<1> HIDE DEF f, u
<1> DEFINE Lf == Lines(f) \o Gap(f)
           Lr == Lines(r) \o Gap(r)
<1>7. FrameShape(A, <<"n">>, r) /\ r \in Seq(A) /\ ReadSame(ks \o Lf, os \o Lr)
  BY <1>2, <1>3, FrameReadSame
<1>8. <<"n">> \in Breaking
  BY DEF Breaking
<1>9. <<>> \in Seq(A)
  OBVIOUS
<1> HIDE DEF r
<1>10. Lf \in Seq(Seq(A)) /\ Lr \in Seq(Seq(A))
  <2>1. ASSUME NEW x \in Seq(A) PROVE Lines(x) \in Seq(Seq(A)) /\ Gap(x) \in Seq(Seq(A))
    <3>1. Gap(x) \in Seq(Seq(A))
      BY <1>9, Twice DEF Gap
    <3> QED
      BY <3>1, LinesType
  <2>2. Lines(f) \in Seq(Seq(A)) /\ Gap(f) \in Seq(Seq(A)) /\ Lines(r) \in Seq(Seq(A)) /\ Gap(r) \in Seq(Seq(A))
    BY <1>5, <1>7, <2>1
  <2> QED
    BY <2>2, ConcatShape
<1>11. GoesOn((q \o f) \o bb, ks \o Lf)
  BY <1>2, <1>3, <1>5, GoesOnBehind
<1>12. GoesOn((o \o r) \o bb, os \o Lr)
  BY <1>1, <1>2, <1>7, <1>8, GoesOnBehind
<1> HIDE DEF bb, Lf, Lr
<1>13. ks \o Lf \in Seq(Seq(A)) /\ os \o Lr \in Seq(Seq(A))
  BY <1>10, ConcatShape
<1>14. q \o f \in Seq(A) /\ o \o r \in Seq(A) /\ f \o bb \in Seq(A)
  BY <1>1, <1>4, <1>5, <1>7, ConcatShape
<1>15. (q \o f) \o bb \in Seq(A) /\ (o \o r) \o bb \in Seq(A)
  BY <1>4, <1>14, ConcatShape
<1>16. b = ((q \o f) \o bb) \o u
  <2>1. Moves(q, f, bb, u)
    BY <1>2, <1>4, <1>5, <1>6, FrameMoves
  <2> QED
    BY <1>2, <1>4, <2>1 DEF Moves
<1> DEFINE p == (q \o f) \o bb
           s == (o \o r) \o bb
           ps == ks \o Lf
           ss == os \o Lr
<1>17. /\ p \in Seq(A) /\ s \in Seq(A) /\ ps \in Seq(Seq(A)) /\ ss \in Seq(Seq(A))
       /\ b = p \o u /\ GoesOn(p, ps) /\ GoesOn(s, ss) /\ ReadSame(ps, ss)
  BY <1>7, <1>11, <1>12, <1>13, <1>15, <1>16
<1>18. s = (o \o RewriteFrame(Frame(t))) \o SeparatorOf(t) /\ u = Behind(t)
  BY <1>3 DEF r, f, u, bb
<1> HIDE DEF p, s, ps, ss
<1>19. Matched(b, u, s)
  BY <1>2, <1>3, <1>6, <1>17 DEF Matched
<1> QED
  BY <1>18, <1>19

(* What is left at the end is rewritten as a frame.                        *)
LEMMA MatchedEnds ==
  ASSUME NEW b, NEW t, NEW o, Matched(b, t, o), Separator(t) = 0
  PROVE  Events(o \o RewriteFrame(t)) = ShownEvents(Events(b))
<1> DEFINE A == Atoms
           r == RewriteFrame(t)
<1>1. t \in Seq(A) /\ o \in Seq(A)
  BY DEF Matched
<1>2. PICK break \in Breaking, q \in Seq(A), ks \in Seq(Seq(A)), os \in Seq(Seq(A)) :
        /\ InLines(break, t) /\ b = q \o t
        /\ GoesOn(q, ks) /\ GoesOn(o, os) /\ ReadSame(ks, os)
  BY DEF Matched
<1>3. Rewritable(t)
  BY <1>2, RestOfLines
<1>4. r \in Seq(A) /\ ReadLines(Unread, os \o Lines(r)) = ShownState(ReadLines(Unread, ks \o Lines(t)))
  BY <1>2, <1>3, FrameReadSame
<1>5. Lines(o \o r) = os \o Lines(r)
  BY <1>2, <1>4 DEF GoesOn
<1>6. Lines(q \o t) = ks \o Lines(t)
  BY <1>1, <1>2 DEF GoesOn
<1> DEFINE m == ReadLines(Unread, ks \o Lines(t))
<1>7. Events(b) = m.events
  BY <1>2, <1>6 DEF Events
<1>8. Events(o \o r) = ShownState(m).events
  BY <1>4, <1>5 DEF Events
<1> HIDE DEF m
<1> QED
  BY <1>7, <1>8 DEF ShownState

(* More arrives.                                                           *)
Unsent == pending \o From(body, taken + 1)

(* The frame that is rewritten next is the first one of what is not sent.  *)
LEMMA UnsentCut ==
  ASSUME body \in Seq(STRING), taken \in 0..Len(body), pending \in Seq(STRING), Separator(pending) # 0
  PROVE  /\ Separator(Unsent) # 0 /\ Frame(Unsent) = Frame(pending)
         /\ SeparatorOf(Unsent) = SeparatorOf(pending)
         /\ Behind(Unsent) = Behind(pending) \o From(body, taken + 1)
<1> DEFINE c == From(body, taken + 1)
<1>1. c \in Seq(STRING)
  <2>1. taken + 1 \in 1..(Len(body) + 1)
    OBVIOUS
  <2> QED
    BY <2>1, FromRest
<1> HIDE DEF c
<1> QED
  BY <1>1, SeparatorStays, CutStays, SeparatorOfStays DEF Unsent, c

(* A chunk is the first of what has not arrived.                           *)
LEMMA RestArrives ==
  ASSUME body \in Seq(STRING), taken \in 0..Len(body), NEW n \in Nat \ {0}, Arrives(n)
  PROVE  /\ Chunk(n) \in Seq(STRING) /\ From(body', taken' + 1) \in Seq(STRING)
         /\ From(body, taken + 1) = Chunk(n) \o From(body', taken' + 1)
<1> DEFINE c == Chunk(n)
           i == taken + 1
           k == taken + n
           z == From(body, k + 1)
<1>1. body' = body /\ taken' = k /\ k \in 0..Len(body) /\ taken \in Nat /\ Len(body) \in Nat
  BY DEF Arrives
<1>2. c \in Seq(STRING)
  BY <1>1, ChunkPlaces
<1>3. From(body, i) = c \o z /\ z \in Seq(STRING)
  <2>1. /\ i \in 1..(Len(body) + 1) /\ k \in (i - 1)..Len(body) /\ Len(body) \in k..Len(body)
        /\ k + 1 \in 1..(Len(body) + 1)
    BY <1>1
  <2>2. SubSeq(body, i, k) \o SubSeq(body, k + 1, Len(body)) = SubSeq(body, i, Len(body))
    <3> HIDE DEF i, k
    <3> QED
      BY <2>1, ConcatAdjacentSubSeq
  <2>3. z \in Seq(STRING)
    <3> HIDE DEF k
    <3> QED
      BY <2>1, FromRest
  <2> QED
    BY <2>2, <2>3 DEF From, Chunk
<1> HIDE DEF c, k
<1> QED
  BY <1>1, <1>2, <1>3 DEF c, z, i

(* What is not sent stays so when it arrives.                              *)
LEMMA UnsentArrives ==
  ASSUME body \in Seq(STRING), taken \in 0..Len(body), pending \in Seq(STRING),
         NEW n \in Nat \ {0}, Arrives(n), pending' = pending \o Chunk(n)
  PROVE  Unsent' = Unsent
<1> DEFINE c == Chunk(n)
           z == From(body', taken' + 1)
<1>1. c \in Seq(STRING) /\ z \in Seq(STRING) /\ From(body, taken + 1) = c \o z
  BY RestArrives
<1> HIDE DEF c, z
<1>2. Associates(pending, c, z)
  BY <1>1, ThreeInARow
<1>3. Unsent' = (pending \o c) \o z
  BY DEF Unsent, c, z
<1>4. Unsent = pending \o (c \o z)
  BY <1>1 DEF Unsent
<1> QED
  BY <1>2, <1>3, <1>4 DEF Associates

(* A body is lines of whole characters, all ended by the same break, and   *)
(* perhaps one more without.                                               *)
BodiesAreLines == \A b \in Bodies : \E break \in Breaking : InLines(break, b)

(* Until it has finished, what the rewriter has sent is read as what it    *)
(* was sent for.                                                           *)
EventsInv ==
  /\ rewriter \in {"polling", "pushing"} => Matched(body, Unsent, out)
  /\ EventsRewritten

(* Nothing is sent at first.                                               *)
LEMMA NothingSent ==
  ASSUME BodiesAreLines, SseInit
  PROVE  EventsInv
<1>1. /\ body \in Bodies /\ taken = 0 /\ pending = <<>> /\ out = <<>> /\ rewriter = "polling"
      /\ body \in Seq(STRING)
  BY BodiesAssumption DEF SseInit, BodyInit, RewriterInit
<1>2. Unsent = body
  <2>1. From(body, taken + 1) = body
    BY <1>1, SubSeqFull DEF From
  <2> QED
    BY <1>1, <2>1, ConcatEmptySeq DEF Unsent
<1>3. PICK break \in Breaking : InLines(break, body)
  BY <1>1 DEF BodiesAreLines
<1>4. Matched(body, body, <<>>)
  BY <1>3, NothingMatched
<1> QED
  BY <1>1, <1>2, <1>4 DEF EventsInv, EventsRewritten

(* Every step of the rewriter leaves it so.                                *)
LEMMA MatchedKept ==
  ASSUME HeldInv, EventsInv, [SseNext]_<<bodyVars, readerVars, rewriterVars>>
  PROVE  EventsInv'
<1>1. /\ body \in Seq(STRING) /\ taken \in 0..Len(body) /\ pending \in Seq(STRING)
      /\ rewriter = "polling" => Separator(pending) = 0
  BY DEF HeldInv, PendingInv
<1>2. [RewriterNext]_<<bodyVars, rewriterVars>>
  BY <1>1, RewriterSteps
<1>3. ASSUME NEW n \in 1..Len(body), Push(n) PROVE EventsInv'
  <2>1. /\ n \in Nat \ {0} /\ Arrives(n) /\ pending' = pending \o Chunk(n)
        /\ rewriter = "polling" /\ rewriter' = "pushing" /\ out' = out /\ body' = body
    BY <1>3 DEF Push, Arrives
  <2>2. Unsent' = Unsent
    BY <1>1, <2>1, UnsentArrives
  <2>3. Matched(body, Unsent, out)
    BY <2>1 DEF EventsInv
  <2>4. Matched(body', Unsent', out')
    BY <2>1, <2>2, <2>3
  <2> QED
    BY <2>1, <2>4 DEF EventsInv, EventsRewritten, Matched
<1>4. ASSUME RewriteNext PROVE EventsInv'
  <2>1. /\ rewriter = "pushing" /\ rewriter' = "pushing" /\ body' = body /\ taken' = taken
        /\ Separator(pending) # 0 /\ pending' = Behind(pending)
        /\ out' = (out \o RewriteFrame(Frame(pending))) \o SeparatorOf(pending)
    BY <1>4 DEF RewriteNext, bodyVars
  <2>2. /\ Separator(Unsent) # 0 /\ Frame(Unsent) = Frame(pending)
        /\ SeparatorOf(Unsent) = SeparatorOf(pending)
        /\ Behind(Unsent) = Behind(pending) \o From(body, taken + 1)
    BY <1>1, <2>1, UnsentCut
  <2>3. Matched(body, Unsent, out)
    BY <2>1 DEF EventsInv
  <2>4. Matched(body, Behind(Unsent), (out \o RewriteFrame(Frame(Unsent))) \o SeparatorOf(Unsent))
    BY <2>2, <2>3, MatchedTakes
  <2>5. Unsent' = Behind(Unsent)
    BY <2>1, <2>2 DEF Unsent
  <2>6. Matched(body', Unsent', out')
    BY <2>1, <2>2, <2>4, <2>5
  <2> QED
    BY <2>1, <2>6 DEF EventsInv, EventsRewritten, Matched
<1>5. ASSUME Finished PROVE EventsInv'
  <2>1. /\ rewriter = "polling" /\ rewriter' = "finished" /\ body' = body /\ taken = Len(body)
        /\ out' = out \o (IF pending = <<>> THEN <<>> ELSE RewriteFrame(pending))
    BY <1>5 DEF Finished, Exhausted, bodyVars
  <2>2. Unsent = pending
    <3>1. From(body, taken + 1) = <<>>
      <4>1. Len(body) + 1 \in Int /\ Len(body) \in Int /\ Len(body) < Len(body) + 1
        BY <1>1
      <4> QED
        BY <2>1, <4>1, SubSeqEmpty DEF From
    <3> QED
      BY <1>1, <3>1, ConcatEmptySeq DEF Unsent
  <2>3. RewriteFrame(<<>>) = <<>>
    BY DEF RewriteFrame, Trim
  <2>4. out' = out \o RewriteFrame(pending)
    BY <2>1, <2>3
  <2>5. Matched(body, pending, out) /\ Separator(pending) = 0
    BY <1>1, <2>1, <2>2 DEF EventsInv
  <2>6. Events(out \o RewriteFrame(pending)) = ShownEvents(Events(body))
    BY <2>5, MatchedEnds
  <2>7. Events(out') = ShownEvents(Events(body'))
    BY <2>1, <2>4, <2>6
  <2>8. EventsRewritten'
    BY <2>7 DEF EventsRewritten, Events
  <2> QED
    BY <2>1, <2>8 DEF EventsInv
<1>6. ASSUME Pushed PROVE EventsInv'
  <2>1. /\ rewriter = "pushing" /\ rewriter' = "polling" /\ UNCHANGED <<body, taken, pending, out>>
    BY <1>6 DEF Pushed, bodyVars
  <2>2. Matched(body, Unsent, out) /\ Unsent' = Unsent
    BY <2>1 DEF EventsInv, Unsent
  <2>3. Matched(body', Unsent', out')
    BY <2>1, <2>2
  <2> QED
    BY <2>1, <2>3 DEF EventsInv, EventsRewritten, Matched
<1>7. ASSUME ConnectionBreaks PROVE EventsInv'
  BY <1>7 DEF ConnectionBreaks, EventsInv, EventsRewritten
<1>8. ASSUME UNCHANGED <<bodyVars, rewriterVars>> PROVE EventsInv'
  <2>1. UNCHANGED <<body, taken, pending, out, rewriter>>
    BY <1>8 DEF bodyVars, rewriterVars
  <2>2. Unsent' = Unsent /\ Events(out)' = Events(out) /\ Events(body)' = Events(body)
    BY <2>1 DEF Unsent
  <2>3. rewriter \in {"polling", "pushing"} => Matched(body', Unsent', out')
    BY <2>1, <2>2 DEF EventsInv
  <2>4. EventsRewritten'
    BY <2>1, <2>2 DEF EventsInv, EventsRewritten, Events
  <2> QED
    BY <2>1, <2>3, <2>4 DEF EventsInv, Matched
<1> QED
  BY <1>2, <1>3, <1>4, <1>5, <1>6, <1>7, <1>8 DEF RewriterNext

(* If an upstream sends lines of whole characters, a passthrough client    *)
(* finds in the rewritten body the events of the upstream's, in order,     *)
(* none lost and none split, with the model it asked for, wherever the     *)
(* chunks end (SseModelRewriter::push, rewrite_sse_frame_bytes).           *)
THEOREM RewrittenBodiesAgree == BodiesAreLines /\ SseSpec => []EventsRewritten
<1>1. BodiesAreLines /\ SseInit => HeldInv /\ EventsInv
  BY NothingHeld, NothingSent
<1>2. HeldInv /\ EventsInv /\ [SseNext]_<<bodyVars, readerVars, rewriterVars>>
        => HeldInv' /\ EventsInv'
  BY HeldKept, MatchedKept
<1>3. EventsInv => EventsRewritten
  BY DEF EventsInv
<1> QED
  BY <1>1, <1>2, <1>3, PTL DEF SseSpec

-----------------------------------------------------------------------------
(* What damage does to the data of a frame.                                *)

(* Sequences whose items are related, place by place.                      *)
EachIn(s, e, R) == Len(s) = Len(e) /\ \A i \in 1..Len(s) : <<s[i], e[i]>> \in R

(* A part of them.                                                         *)
LEMMA PartIn ==
  ASSUME NEW A, NEW B, NEW R, NEW s \in Seq(A), NEW e \in Seq(B), EachIn(s, e, R),
         NEW p \in 1..(Len(s) + 1), NEW q \in (p - 1)..Len(s)
  PROVE  EachIn(SubSeq(s, p, q), SubSeq(e, p, q), R)
<1> DEFINE u == SubSeq(s, p, q)
           v == SubSeq(e, p, q)
<1>1. Len(s) \in Nat /\ Len(e) = Len(s) /\ p \in Int /\ q \in Int
  BY DEF EachIn
<1>2. \A i \in p..q : i \in 1..Len(s)
  BY <1>1
<1>3. \A i \in p..q : s[i] \in A /\ e[i] \in B
  BY <1>1, <1>2
<1>4. /\ Len(u) = (IF p <= q THEN q - p + 1 ELSE 0)
      /\ \A i \in 1..(q - p + 1) : u[i] = s[p + i - 1]
  BY <1>1, <1>3, SubSeqProperties
<1>5. /\ Len(v) = (IF p <= q THEN q - p + 1 ELSE 0)
      /\ \A i \in 1..(q - p + 1) : v[i] = e[p + i - 1]
  BY <1>1, <1>3, SubSeqProperties
<1> HIDE DEF u, v
<1>6. ASSUME NEW i \in 1..Len(u) PROVE <<u[i], v[i]>> \in R
  <2>1. i \in 1..(q - p + 1) /\ p + i - 1 \in 1..Len(s)
    BY <1>1, <1>4
  <2>2. u[i] = s[p + i - 1] /\ v[i] = e[p + i - 1]
    BY <1>4, <1>5, <2>1
  <2> QED
    BY <2>1, <2>2 DEF EachIn
<1>7. EachIn(u, v, R)
  BY <1>4, <1>5, <1>6 DEF EachIn
<1> QED
  BY <1>7 DEF u, v

(* Two of them in a row.                                                   *)
LEMMA ConcatIn ==
  ASSUME NEW A, NEW B, NEW R, NEW s \in Seq(A), NEW e \in Seq(B), EachIn(s, e, R),
         NEW d \in Seq(A), NEW c \in Seq(B), EachIn(d, c, R)
  PROVE  EachIn(s \o d, e \o c, R)
<1> DEFINE u == s \o d
           w == e \o c
           m == Len(s)
           n == Len(d)
<1>1. m \in Nat /\ n \in Nat /\ Len(e) = m /\ Len(c) = n
  BY DEF EachIn
<1>2. /\ Len(u) = m + n
      /\ \A i \in 1..m : u[i] = s[i]
      /\ \A i \in 1..n : u[m + i] = d[i]
  BY ConcatPlaces
<1>3. /\ Len(w) = m + n
      /\ \A i \in 1..m : w[i] = e[i]
      /\ \A i \in 1..n : w[m + i] = c[i]
  <2>1. /\ Len(w) = Len(e) + Len(c)
        /\ \A i \in 1..Len(e) : w[i] = e[i]
        /\ \A i \in 1..Len(c) : w[Len(e) + i] = c[i]
    BY ConcatPlaces
  <2> HIDE DEF w, m, n
  <2> QED
    BY <1>1, <2>1
<1>4. /\ \A i \in 1..m : <<s[i], e[i]>> \in R
      /\ \A i \in 1..n : <<d[i], c[i]>> \in R
  BY DEF EachIn
<1> HIDE DEF u, w, m, n
<1>5. ASSUME NEW i \in 1..(m + n) PROVE <<u[i], w[i]>> \in R
  <2>1. CASE i <= m
    <3>1. i \in 1..m
      BY <1>1, <2>1
    <3> QED
      BY <1>2, <1>3, <1>4, <3>1
  <2>2. CASE i > m
    <3> DEFINE k == i - m
    <3>1. k \in 1..n /\ m + k = i
      BY <1>1, <2>2
    <3> HIDE DEF k
    <3>2. u[m + k] = d[k] /\ w[m + k] = c[k]
      BY <1>2, <1>3, <3>1
    <3> QED
      BY <1>4, <3>1, <3>2
  <2> QED
    BY <1>1, <2>1, <2>2
<1>6. EachIn(u, w, R)
  BY <1>2, <1>3, <1>5 DEF EachIn
<1> QED
  BY <1>6 DEF u, w

(* Pairs of sequences whose items are related.                             *)
Rows(A, R) == {w \in Seq(A) \X Seq(A) : EachIn(w[1], w[2], R)}

(* Rows that are flattened.                                                *)
LEMMA FlattenIn ==
  ASSUME NEW A, NEW R, NEW ss \in Seq(Seq(A)), NEW es \in Seq(Seq(A)), EachIn(ss, es, Rows(A, R))
  PROVE  EachIn(FlattenSeq(ss), FlattenSeq(es), R)
<1> DEFINE B == Seq(A)
           Flat(u, v) == EachIn(u, v, Rows(A, R)) => EachIn(FlattenSeq(u), FlattenSeq(v), R)
           S == {u \in Seq(B) : \A v \in Seq(B) : Flat(u, v)}
<1>1. <<>> \in S
  <2>1. <<>> \in Seq(B)
    OBVIOUS
  <2>2. ASSUME NEW v \in Seq(B), EachIn(<<>>, v, Rows(A, R)) PROVE EachIn(FlattenSeq(<<>>), FlattenSeq(v), R)
    <3>1. v = <<>>
      BY <2>2 DEF EachIn
    <3>2. EachIn(<<>>, <<>>, R)
      BY DEF EachIn
    <3> QED
      BY <3>1, <3>2, FlattenNil
  <2> QED
    BY <2>1, <2>2
<1>2. ASSUME NEW u \in Seq(B), NEW a \in B, u \in S PROVE Append(u, a) \in S
  <2> DEFINE ua == Append(u, a)
  <2>1. /\ ua \in Seq(B) /\ Len(ua) = Len(u) + 1 /\ Len(u) \in Nat /\ ua[Len(u) + 1] = a
        /\ \A i \in 1..Len(u) : ua[i] = u[i]
    <3> HIDE DEF B
    <3> QED
      BY AppendProperties
  <2>2. FlattenSeq(ua) = FlattenSeq(u) \o a /\ FlattenSeq(u) \in Seq(A)
    BY FlattenAppend, FlattenType
  <2>3. ASSUME NEW v \in Seq(B), EachIn(ua, v, Rows(A, R)) PROVE EachIn(FlattenSeq(ua), FlattenSeq(v), R)
    <3>1. Len(v) = Len(u) + 1 /\ \A i \in 1..(Len(u) + 1) : <<ua[i], v[i]>> \in Rows(A, R)
      <4> HIDE DEF ua
      <4> QED
        BY <2>1, <2>3 DEF EachIn
    <3>2. v # <<>>
      BY <2>1, <3>1
    <3>3. PICK w \in Seq(B), b \in B : v = w \o <<b>>
      <4> HIDE DEF B
      <4> QED
        BY <3>2, LastApart
    <3>4. v = Append(w, b)
      BY <3>3
    <3>5. /\ Len(v) = Len(w) + 1 /\ Len(w) \in Nat /\ v[Len(w) + 1] = b
          /\ \A i \in 1..Len(w) : v[i] = w[i]
      <4> HIDE DEF B
      <4> QED
        BY <3>4, AppendProperties
    <3>6. Len(w) = Len(u)
      BY <2>1, <3>1, <3>5
    <3> HIDE DEF ua
    <3>7. ASSUME NEW i \in 1..Len(u) PROVE <<u[i], w[i]>> \in Rows(A, R)
      <4>1. i \in 1..(Len(u) + 1) /\ i \in 1..Len(w)
        BY <2>1, <3>6
      <4>2. ua[i] = u[i] /\ v[i] = w[i]
        BY <2>1, <3>5, <4>1
      <4> QED
        BY <3>1, <4>1, <4>2
    <3>8. EachIn(u, w, Rows(A, R))
      BY <3>6, <3>7 DEF EachIn
    <3>9. <<a, b>> \in Rows(A, R)
      <4>1. Len(u) + 1 \in 1..(Len(u) + 1)
        BY <2>1
      <4> QED
        BY <2>1, <3>1, <3>5, <3>6, <4>1
    <3>10. EachIn(a, b, R)
      BY <3>9 DEF Rows
    <3>11. EachIn(FlattenSeq(u), FlattenSeq(w), R)
      BY <1>2, <3>8
    <3>12. FlattenSeq(v) = FlattenSeq(w) \o b /\ FlattenSeq(w) \in Seq(A)
      BY <3>4, FlattenAppend, FlattenType
    <3>13. EachIn(FlattenSeq(u) \o a, FlattenSeq(w) \o b, R)
      <4> DEFINE x == FlattenSeq(u)
                 y == FlattenSeq(w)
      <4>1. x \in Seq(A) /\ y \in Seq(A) /\ EachIn(x, y, R)
        BY <2>2, <3>11, <3>12
      <4> HIDE DEF x, y
      <4>2. EachIn(x \o a, y \o b, R)
        BY <3>10, <4>1, ConcatIn
      <4> QED
        BY <4>2 DEF x, y
    <3> QED
      BY <2>2, <3>12, <3>13
  <2> QED
    BY <2>1, <2>3
<1> HIDE DEF S
<1>3. Seq(B) \subseteq S
  <2> HIDE DEF B
  <2> QED
    BY <1>1, <1>2, AppendInduction
<1> QED
  BY <1>3 DEF S

(* An atom and what may be decoded in its place; texts of them.            *)
Damage == {w \in Atoms \X Atoms : w[1] = w[2] \/ (w[1] = "?" /\ w[2] \in {"c1", "c2"})}
DamagedTexts == Rows(Atoms, Damage)

(* That is what a damaged text is.                                         *)
LEMMA DamageIsIn ==
  ASSUME NEW s \in Seq(Atoms), NEW e \in Seq(Atoms)
  PROVE  Damaged(s, e) <=> EachIn(s, e, Damage)
<1>1. Len(s) \in Nat /\ DOMAIN s = 1..Len(s) /\ \A i \in 1..Len(s) : s[i] \in Atoms
  OBVIOUS
<1>2. ASSUME Len(s) = Len(e), NEW i \in 1..Len(s)
      PROVE  <<s[i], e[i]>> \in Damage <=> (s[i] = e[i] \/ (s[i] = "?" /\ e[i] \in {"c1", "c2"}))
  <2>1. s[i] \in Atoms /\ e[i] \in Atoms
    BY <1>1, <1>2
  <2> QED
    BY <2>1 DEF Damage
<1> QED
  BY <1>1, <1>2 DEF Damaged, EachIn

(* Damage is not seen by what is asked of an atom.                         *)
LEMMA DamageUnseen ==
  ASSUME NEW a, NEW b, <<a, b>> \in Damage
  PROVE  /\ a \in Atoms /\ b \in Atoms
         /\ a \in Characters <=> b \in Characters
         /\ a \in Blanks <=> b \in Blanks
         /\ \A x \in {"n", "r", "data:", "[DONE]", "json", "own", "end"} : a = x <=> b = x
BY DEF Damage, Characters, Blanks

(* A damaged line, trimmed.                                                *)
LEMMA TrimIn ==
  ASSUME NEW s \in Seq(Atoms), NEW e \in Seq(Atoms), EachIn(s, e, Damage)
  PROVE  EachIn(Trim(s), Trim(e), Damage) /\ Trim(s) \in Seq(Atoms) /\ Trim(e) \in Seq(Atoms)
<1> DEFINE solid == {i \in DOMAIN s : s[i] \notin Blanks}
           other == {i \in DOMAIN e : e[i] \notin Blanks}
<1>1. Len(s) \in Nat /\ Len(e) = Len(s) /\ DOMAIN s = 1..Len(s) /\ DOMAIN e = 1..Len(s)
  BY DEF EachIn
<1>2. \A i \in 1..Len(s) : s[i] \in Blanks <=> e[i] \in Blanks
  <2> SUFFICES ASSUME NEW i \in 1..Len(s) PROVE s[i] \in Blanks <=> e[i] \in Blanks
    OBVIOUS
  <2>1. <<s[i], e[i]>> \in Damage
    BY DEF EachIn
  <2> QED
    BY <2>1, DamageUnseen
<1>3. solid = other
  BY <1>1, <1>2
<1>4. /\ Trim(s) = IF solid = {} THEN <<>> ELSE SubSeq(s, Min(solid), Max(solid))
      /\ Trim(e) = IF solid = {} THEN <<>> ELSE SubSeq(e, Min(solid), Max(solid))
  <2> HIDE DEF other
  <2>1. Trim(e) = IF other = {} THEN <<>> ELSE SubSeq(e, Min(other), Max(other))
    BY DEF Trim, other
  <2> QED
    BY <1>3, <2>1 DEF Trim
<1>5. Trim(s) \in Seq(Atoms) /\ Trim(e) \in Seq(Atoms)
  <2>1. {} \cap Blanks = {}
    OBVIOUS
  <2> QED
    BY <2>1, TrimKeeps
<1>6. CASE solid = {}
  <2>1. EachIn(<<>>, <<>>, Damage)
    BY DEF EachIn
  <2> QED
    BY <1>4, <1>5, <1>6, <2>1
<1>7. CASE solid # {}
  <2> DEFINE p == Min(solid)
             q == Max(solid)
  <2>1. solid \in SUBSET (Nat \ {0}) /\ solid \subseteq 1..Len(s)
    BY <1>1
  <2> HIDE DEF solid
  <2>2. p \in solid /\ \A y \in solid : p <= y
    BY <1>7, <2>1, FirstOfPlaces DEF FirstOf
  <2>3. q \in solid /\ \A y \in solid : q >= y
    <3>1. PICK x \in solid : \A y \in solid : x >= y
      <4> DEFINE T == {Len(s) - y : y \in solid}
      <4>1. T \in SUBSET Nat /\ T # {}
        <5>1. \A y \in solid : Len(s) - y \in Nat
          BY <1>1, <2>1
        <5>2. \A z \in T : z \in Nat
          BY <5>1
        <5>3. \E y \in solid : Len(s) - y \in T
          BY <1>7
        <5> QED
          BY <5>2, <5>3
      <4>2. PICK z \in T : \A y \in T : z <= y
        BY <4>1, LeastMember
      <4>3. PICK x \in solid : z = Len(s) - x
        BY <4>2
      <4>4. ASSUME NEW y \in solid PROVE x >= y
        <5>1. Len(s) - x <= Len(s) - y
          BY <4>2, <4>3
        <5> QED
          BY <1>1, <2>1, <5>1
      <4> QED
        BY <4>4
    <3> QED
      BY <3>1 DEF Max
  <2> HIDE DEF p, q
  <2>4. p \in 1..(Len(s) + 1) /\ q \in (p - 1)..Len(s)
    BY <1>1, <2>1, <2>2, <2>3
  <2>5. EachIn(SubSeq(s, p, q), SubSeq(e, p, q), Damage)
    BY <2>4, PartIn
  <2> QED
    BY <1>4, <1>5, <1>7, <2>5 DEF p, q
<1> QED
  BY <1>6, <1>7

(* The data of a damaged line.                                             *)
LEMMA DataOfIn ==
  ASSUME NEW s \in Seq(Atoms), NEW e \in Seq(Atoms), EachIn(s, e, Damage)
  PROVE  <<DataOf(s), DataOf(e)>> \in Rows(Seq(Atoms), DamagedTexts)
<1> DEFINE B == Seq(Atoms)
<1>1. Len(s) \in Nat /\ Len(e) = Len(s)
  BY DEF EachIn
<1>2. s # <<>> => 1 \in 1..Len(s) /\ Head(s) = s[1]
  BY <1>1
<1>3. e # <<>> => 1 \in 1..Len(s) /\ Head(e) = e[1]
  BY <1>1
<1>4. s = <<>> <=> e = <<>>
  BY <1>1
<1>5. IsDataLine(s) <=> IsDataLine(e)
  <2>1. CASE s = <<>>
    BY <1>4, <2>1 DEF IsDataLine
  <2>2. CASE s # <<>>
    <3>1. <<s[1], e[1]>> \in Damage
      BY <1>2, <2>2 DEF EachIn
    <3>2. s[1] = "data:" <=> e[1] = "data:"
      BY <3>1, DamageUnseen
    <3> QED
      BY <1>2, <1>3, <1>4, <2>2, <3>2 DEF IsDataLine
  <2> QED
    BY <2>1, <2>2
<1>6. CASE ~IsDataLine(s)
  <2>1. <<>> \in Seq(B) /\ EachIn(<<>>, <<>>, DamagedTexts)
    BY DEF EachIn
  <2>2. DataOf(s) = <<>> /\ DataOf(e) = <<>>
    BY <1>5, <1>6 DEF DataOf
  <2> QED
    BY <2>1, <2>2 DEF Rows
<1>7. CASE IsDataLine(s)
  <2> DEFINE ts == Tail(s)
             te == Tail(e)
             x == Trim(ts)
             y == Trim(te)
  <2>1. s # <<>> /\ e # <<>>
    BY <1>5, <1>7 DEF IsDataLine
  <2>2. ts = SubSeq(s, 2, Len(s)) /\ te = SubSeq(e, 2, Len(s)) /\ ts \in Seq(Atoms) /\ te \in Seq(Atoms)
    BY <1>1, <2>1
  <2>3. EachIn(ts, te, Damage)
    <3>1. 2 \in 1..(Len(s) + 1) /\ Len(s) \in (2 - 1)..Len(s)
      BY <1>1, <1>2, <2>1
    <3>2. EachIn(SubSeq(s, 2, Len(s)), SubSeq(e, 2, Len(s)), Damage)
      BY <3>1, PartIn
    <3> QED
      BY <2>2, <3>2
  <2> HIDE DEF ts, te
  <2>4. EachIn(x, y, Damage) /\ x \in Seq(Atoms) /\ y \in Seq(Atoms)
    BY <2>2, <2>3, TrimIn
  <2>5. DataOf(s) = <<x>> /\ DataOf(e) = <<y>>
    BY <1>5, <1>7 DEF DataOf, ts, te
  <2> HIDE DEF x, y
  <2>6. <<x, y>> \in DamagedTexts
    BY <2>4 DEF DamagedTexts, Rows
  <2>7. <<x>> \in Seq(B) /\ <<y>> \in Seq(B)
    BY <2>4, OneType
  <2>8. EachIn(<<x>>, <<y>>, DamagedTexts)
    BY <2>6 DEF EachIn
  <2> QED
    BY <2>5, <2>7, <2>8 DEF Rows
<1> QED
  BY <1>6, <1>7

(* Texts, as items of a function over places, of related rows.             *)
LEMMA PlacesIn ==
  ASSUME NEW B, NEW R, NEW f, NEW g, NEW n \in Nat,
         f = [i \in 1..n |-> f[i]], g = [i \in 1..n |-> g[i]],
         \A i \in 1..n : <<f[i], g[i]>> \in Rows(B, R)
  PROVE  /\ f \in Seq(Seq(B)) /\ g \in Seq(Seq(B)) /\ Len(f) = n
         /\ EachIn(f, g, Rows(B, R))
<1> DEFINE C == Seq(B)
<1>1. \A i \in 1..n : f[i] \in C /\ g[i] \in C
  BY DEF Rows
<1> HIDE DEF C
<1>2. f \in [1..n -> C] /\ g \in [1..n -> C]
  BY <1>1
<1>3. f \in Seq(C) /\ g \in Seq(C) /\ Len(f) = n /\ Len(g) = n
  BY <1>2
<1>4. EachIn(f, g, Rows(B, R))
  BY <1>3 DEF EachIn
<1> QED
  BY <1>3, <1>4 DEF C

(* The data lines of damaged lines.                                        *)
LEMMA DataLinesIn ==
  ASSUME NEW ls \in Seq(Seq(Atoms)), NEW ms \in Seq(Seq(Atoms)), EachIn(ls, ms, DamagedTexts)
  PROVE  /\ DataLines(ls) \in Seq(Seq(Atoms)) /\ DataLines(ms) \in Seq(Seq(Atoms))
         /\ EachIn(DataLines(ls), DataLines(ms), DamagedTexts)
<1> DEFINE B == Seq(Atoms)
           n == Len(ls)
           f == [i \in DOMAIN ls |-> DataOf(ls[i])]
           g == [i \in DOMAIN ms |-> DataOf(ms[i])]
<1>1. n \in Nat /\ DOMAIN ls = 1..n /\ DOMAIN ms = 1..n
  BY DEF EachIn
<1>2. \A i \in 1..n : <<f[i], g[i]>> \in Rows(B, DamagedTexts)
  <2> SUFFICES ASSUME NEW i \in 1..n PROVE <<f[i], g[i]>> \in Rows(B, DamagedTexts)
    OBVIOUS
  <2>1. <<ls[i], ms[i]>> \in DamagedTexts
    BY DEF EachIn
  <2>2. ls[i] \in Seq(Atoms) /\ ms[i] \in Seq(Atoms) /\ EachIn(ls[i], ms[i], Damage)
    BY <2>1 DEF DamagedTexts, Rows
  <2>3. <<DataOf(ls[i]), DataOf(ms[i])>> \in Rows(B, DamagedTexts)
    BY <2>2, DataOfIn
  <2>4. f[i] = DataOf(ls[i]) /\ g[i] = DataOf(ms[i])
    BY <1>1
  <2> QED
    BY <2>3, <2>4
<1>3. f = [i \in 1..n |-> f[i]] /\ g = [i \in 1..n |-> g[i]]
  BY <1>1
<1>4. DataLines(ls) = FlattenSeq(f) /\ DataLines(ms) = FlattenSeq(g)
  BY DEF DataLines
<1> HIDE DEF f, g, B, n
<1>5. f \in Seq(Seq(B)) /\ g \in Seq(Seq(B)) /\ EachIn(f, g, Rows(B, DamagedTexts))
  BY <1>1, <1>2, <1>3, PlacesIn
<1>6. EachIn(FlattenSeq(f), FlattenSeq(g), DamagedTexts)
  BY <1>5, FlattenIn
<1>7. FlattenSeq(f) \in Seq(B) /\ FlattenSeq(g) \in Seq(B)
  BY <1>5, FlattenType
<1> QED
  BY <1>4, <1>6, <1>7 DEF B

(* Damaged texts, joined.                                                  *)
LEMMA JoinIn ==
  ASSUME NEW ls \in Seq(Seq(Atoms)), NEW ms \in Seq(Seq(Atoms)), EachIn(ls, ms, DamagedTexts)
  PROVE  /\ Join(ls) \in Seq(Atoms) /\ Join(ms) \in Seq(Atoms)
         /\ EachIn(Join(ls), Join(ms), Damage)
<1> DEFINE f == Joined(ls)
           g == Joined(ms)
           n == Len(ls)
<1>0. "n" \in Atoms
  BY DEF Atoms
<1>1. /\ Join(ls) = FlattenSeq(f) /\ Join(ms) = FlattenSeq(g)
      /\ Join(ls) \in Seq(Atoms) /\ Join(ms) \in Seq(Atoms)
      /\ f \in Seq(Seq(Atoms)) /\ g \in Seq(Seq(Atoms))
  BY <1>0, JoinType
<1>2. n \in Nat /\ DOMAIN ls = 1..n /\ DOMAIN ms = 1..n
  BY DEF EachIn
<1>3. f = [i \in 1..n |-> f[i]] /\ g = [i \in 1..n |-> g[i]]
  BY <1>2 DEF Joined
<1>4. \A i \in 1..n : <<f[i], g[i]>> \in Rows(Atoms, Damage)
  <2> SUFFICES ASSUME NEW i \in 1..n PROVE <<f[i], g[i]>> \in Rows(Atoms, Damage)
    OBVIOUS
  <2>1. <<ls[i], ms[i]>> \in DamagedTexts
    BY DEF EachIn
  <2>2. ls[i] \in Seq(Atoms) /\ ms[i] \in Seq(Atoms) /\ EachIn(ls[i], ms[i], Damage)
    BY <2>1 DEF DamagedTexts, Rows
  <2>3. CASE i = 1
    <3>1. f[i] = ls[i] /\ g[i] = ms[i]
      BY <1>2, <2>3 DEF Joined
    <3> QED
      BY <2>2, <3>1 DEF Rows
  <2>4. CASE i # 1
    <3> DEFINE o == <<"n">>
    <3>1. f[i] = o \o ls[i] /\ g[i] = o \o ms[i]
      BY <1>2, <2>4 DEF Joined
    <3>2. o \in Seq(Atoms)
      BY <1>0
    <3>3. EachIn(o, o, Damage)
      BY <1>0 DEF EachIn, Damage
    <3> HIDE DEF o, f, g
    <3>4. EachIn(o \o ls[i], o \o ms[i], Damage)
      BY <2>2, <3>2, <3>3, ConcatIn
    <3>5. o \o ls[i] \in Seq(Atoms) /\ o \o ms[i] \in Seq(Atoms)
      BY <2>2, <3>2, ConcatShape
    <3> QED
      BY <3>1, <3>4, <3>5 DEF Rows
  <2> QED
    BY <2>3, <2>4
<1> HIDE DEF f, g, n
<1>5. EachIn(f, g, Rows(Atoms, Damage))
  BY <1>2, <1>3, <1>4, PlacesIn
<1>6. EachIn(FlattenSeq(f), FlattenSeq(g), Damage)
  BY <1>1, <1>5, FlattenIn
<1> QED
  BY <1>1, <1>6

(* One item, and none.                                                     *)
LEMMA OneIn ==
  ASSUME NEW R, NEW a, NEW b, <<a, b>> \in R
  PROVE  EachIn(<<a>>, <<b>>, R) /\ EachIn(<<>>, <<>>, R)
BY DEF EachIn

(* A damaged value is JSON where the value is, and silent where it is.     *)
LEMMA TestsIn ==
  ASSUME NEW p \in Seq(Atoms), NEW d \in Seq(Atoms), EachIn(p, d, Damage)
  PROVE  (Silent(p) <=> Silent(d)) /\ (Invalid(p) <=> Invalid(d))
<1> DEFINE v == Trim(p)
           w == Trim(d)
           n == Len(v)
<1>1. Silent(p) <=> Silent(d)
  <2>1. Len(p) \in Nat /\ Len(d) = Len(p)
    BY DEF EachIn
  <2>2. p = <<>> <=> d = <<>>
    BY <2>1
  <2>3. p = <<"[DONE]">> <=> Len(p) = 1 /\ p[1] = "[DONE]"
    BY <2>1
  <2>4. d = <<"[DONE]">> <=> Len(p) = 1 /\ d[1] = "[DONE]"
    <3>1. d = <<"[DONE]">> <=> Len(d) = 1 /\ d[1] = "[DONE]"
      OBVIOUS
    <3> QED
      BY <2>1, <3>1
  <2>5. Len(p) = 1 => (p[1] = "[DONE]" <=> d[1] = "[DONE]")
    <3> SUFFICES ASSUME Len(p) = 1 PROVE p[1] = "[DONE]" <=> d[1] = "[DONE]"
      OBVIOUS
    <3>1. <<p[1], d[1]>> \in Damage
      BY DEF EachIn
    <3> QED
      BY <3>1, DamageUnseen
  <2> QED
    BY <2>2, <2>3, <2>4, <2>5 DEF Silent
<1>2. EachIn(v, w, Damage) /\ v \in Seq(Atoms) /\ w \in Seq(Atoms)
  BY TrimIn
<1> HIDE DEF v, w
<1>3. n \in Nat /\ Len(w) = n
  BY <1>2 DEF EachIn
<1>4. ASSUME NEW i \in 1..n
      PROVE  /\ v[i] \in Characters <=> w[i] \in Characters
             /\ v[i] \in Blanks <=> w[i] \in Blanks
             /\ v[i] \in {"json", "own"} <=> w[i] \in {"json", "own"}
             /\ v[i] = "end" <=> w[i] = "end"
  <2>1. <<v[i], w[i]>> \in Damage
    BY <1>2, <1>4 DEF EachIn
  <2> QED
    BY <2>1, DamageUnseen
<1>5. n >= 2 => /\ 1 \in 1..n /\ n \in 1..n /\ Head(v) = v[1] /\ Head(w) = w[1]
                /\ Last(v) = v[n] /\ Last(w) = w[n]
  <2> SUFFICES ASSUME n >= 2
               PROVE  /\ 1 \in 1..n /\ n \in 1..n /\ Head(v) = v[1] /\ Head(w) = w[1]
                      /\ Last(v) = v[n] /\ Last(w) = w[n]
    OBVIOUS
  <2>1. Head(v) = v[1] /\ Head(w) = w[1]
    BY <1>2, <1>3
  <2> QED
    BY <1>3, <2>1 DEF Last
<1> DEFINE Inside(z, i) == z[i] \in Characters \/ (z[i] \in Blanks /\ \A j \in 2..i : z[j] \in Blanks)
<1>6. \A i \in 2..(n - 1) : Inside(v, i) <=> Inside(w, i)
  <2> SUFFICES ASSUME NEW i \in 2..(n - 1) PROVE Inside(v, i) <=> Inside(w, i)
    OBVIOUS
  <2>1. i \in 1..n /\ \A j \in 2..i : j \in 1..n
    BY <1>3
  <2> QED
    BY <1>4, <2>1
<1>7. /\ IsJson(p) <=> /\ n >= 2 /\ Head(v) \in {"json", "own"} /\ Last(v) = "end"
                       /\ \A i \in 2..(n - 1) : Inside(v, i)
      /\ IsJson(d) <=> /\ n >= 2 /\ Head(w) \in {"json", "own"} /\ Last(w) = "end"
                       /\ \A i \in 2..(n - 1) : Inside(w, i)
  BY <1>3 DEF IsJson, v, w
<1> HIDE DEF Inside, n
<1>8. n >= 2 => (Head(v) \in {"json", "own"} <=> Head(w) \in {"json", "own"}) /\ (Last(v) = "end" <=> Last(w) = "end")
  BY <1>4, <1>5
<1>9. IsJson(p) <=> IsJson(d)
  BY <1>6, <1>7, <1>8
<1> QED
  BY <1>1, <1>9 DEF Invalid

(* The text of a damaged value is damaged.                                 *)
LEMMA DeltaIn ==
  ASSUME NEW p \in Seq(Atoms), NEW d \in Seq(Atoms), EachIn(p, d, Damage)
  PROVE  Delta(p) \in Seq(Atoms) /\ Delta(d) \in Seq(Atoms) /\ EachIn(Delta(p), Delta(d), Damage)
<1> DEFINE S == Characters
           n == Len(p)
           f == [i \in DOMAIN p |-> IF p[i] \in S THEN <<p[i]>> ELSE <<>>]
           g == [i \in DOMAIN d |-> IF d[i] \in S THEN <<d[i]>> ELSE <<>>]
<1>1. n \in Nat /\ DOMAIN p = 1..n /\ DOMAIN d = 1..n
  BY DEF EachIn
<1>2. f = [i \in 1..n |-> f[i]] /\ g = [i \in 1..n |-> g[i]]
  BY <1>1
<1>3. \A i \in 1..n : <<f[i], g[i]>> \in Rows(Atoms, Damage)
  <2> SUFFICES ASSUME NEW i \in 1..n PROVE <<f[i], g[i]>> \in Rows(Atoms, Damage)
    OBVIOUS
  <2>1. <<p[i], d[i]>> \in Damage
    BY DEF EachIn
  <2>2. p[i] \in Atoms /\ d[i] \in Atoms /\ (p[i] \in S <=> d[i] \in S)
    BY <2>1, DamageUnseen
  <2>3. CASE p[i] \in S
    <3> DEFINE a == p[i]
               b == d[i]
    <3>1. f[i] = <<a>> /\ g[i] = <<b>>
      BY <1>1, <2>2, <2>3
    <3>2. <<a, b>> \in Damage /\ a \in Atoms /\ b \in Atoms
      BY <2>1, <2>2
    <3> HIDE DEF a, b, f, g
    <3>3. <<a>> \in Seq(Atoms) /\ <<b>> \in Seq(Atoms) /\ EachIn(<<a>>, <<b>>, Damage)
      BY <3>2 DEF EachIn
    <3> QED
      BY <3>1, <3>3 DEF Rows
  <2>4. CASE p[i] \notin S
    <3>1. f[i] = <<>> /\ g[i] = <<>>
      BY <1>1, <2>2, <2>4
    <3> HIDE DEF f, g
    <3>2. <<>> \in Seq(Atoms) /\ EachIn(<<>>, <<>>, Damage)
      BY DEF EachIn
    <3> QED
      BY <3>1, <3>2 DEF Rows
  <2> QED
    BY <2>3, <2>4
<1>4. Delta(p) = FlattenSeq(f) /\ Delta(d) = FlattenSeq(g)
  BY DEF Delta, Kept
<1> HIDE DEF f, g, n
<1>5. f \in Seq(Seq(Atoms)) /\ g \in Seq(Seq(Atoms)) /\ EachIn(f, g, Rows(Atoms, Damage))
  BY <1>1, <1>2, <1>3, PlacesIn
<1>6. EachIn(FlattenSeq(f), FlattenSeq(g), Damage)
  BY <1>5, FlattenIn
<1>7. FlattenSeq(f) \in Seq(Atoms) /\ FlattenSeq(g) \in Seq(Atoms)
  BY <1>5, FlattenType
<1> QED
  BY <1>4, <1>6, <1>7

(* So is what it gives the turn.                                           *)
LEMMA GivenIn ==
  ASSUME NEW p \in Seq(Atoms), NEW d \in Seq(Atoms), EachIn(p, d, Damage)
  PROVE  /\ Given(p) \in Seq(Seq(Atoms)) /\ Given(d) \in Seq(Seq(Atoms))
         /\ EachIn(Given(p), Given(d), DamagedTexts)
<1> DEFINE x == Delta(p)
           y == Delta(d)
<1>1. x \in Seq(Atoms) /\ y \in Seq(Atoms) /\ EachIn(x, y, Damage)
  BY DeltaIn
<1>2. Silent(p) <=> Silent(d)
  BY TestsIn
<1>3. /\ Given(p) = IF Silent(p) \/ x = <<>> THEN <<>> ELSE <<x>>
      /\ Given(d) = IF Silent(d) \/ y = <<>> THEN <<>> ELSE <<y>>
  BY DEF Given
<1> HIDE DEF x, y
<1>4. x = <<>> <=> y = <<>>
  BY <1>1 DEF EachIn
<1>5. <<x, y>> \in DamagedTexts
  BY <1>1 DEF DamagedTexts, Rows
<1>6. EachIn(<<x>>, <<y>>, DamagedTexts) /\ EachIn(<<>>, <<>>, DamagedTexts)
  BY <1>5 DEF EachIn
<1>7. Given(p) \in Seq(Seq(Atoms)) /\ Given(d) \in Seq(Seq(Atoms))
  BY GivenType
<1> QED
  BY <1>2, <1>3, <1>4, <1>6, <1>7

(* A text is two texts in a row, each related to another one.              *)
SplitsIn(A, R, f, x, y) ==
  \E u \in Seq(A), v \in Seq(A) : f = u \o v /\ EachIn(u, x, R) /\ EachIn(v, y, R)

(* So it is if it is related to the two in a row.                          *)
LEMMA SplitIn ==
  ASSUME NEW A, NEW R, NEW f \in Seq(A), NEW x \in Seq(A), NEW y \in Seq(A), EachIn(f, x \o y, R)
  PROVE  SplitsIn(A, R, f, x, y)
<1> DEFINE z == x \o y
           m == Len(x)
           n == Len(f)
           u == SubSeq(f, 1, m)
           v == SubSeq(f, m + 1, n)
<1>1. z \in Seq(A) /\ Len(z) = m + Len(y) /\ m \in Nat /\ Len(y) \in Nat
  BY ConcatPlaces
<1>2. SubSeq(z, 1, m) = x /\ SubSeq(z, m + 1, Len(z)) = y
  BY ConcatCut DEF From
<1> HIDE DEF z
<1>3. n = Len(z) /\ n \in Nat /\ EachIn(f, z, R)
  BY DEF EachIn, z
<1> HIDE DEF n, m
<1>4. /\ 1 \in 1..(n + 1) /\ m \in (1 - 1)..n /\ m + 1 \in 1..(n + 1) /\ n \in (m + 1 - 1)..n
      /\ n \in m..n
  BY <1>1, <1>3
<1>5. EachIn(u, SubSeq(z, 1, m), R) /\ EachIn(v, SubSeq(z, m + 1, n), R)
  BY <1>1, <1>3, <1>4, PartIn, SMTT(30) DEF n
<1>6. u \o v = SubSeq(f, 1, n)
  BY <1>4, ConcatAdjacentSubSeq DEF n
<1>7. SubSeq(f, 1, n) = f
  BY SubSeqFull DEF n
<1>8. u \in Seq(A) /\ v \in Seq(A)
  <2>1. \A i \in 1..m : f[i] \in A
    BY <1>4 DEF n
  <2>2. \A i \in (m + 1)..n : f[i] \in A
    BY <1>1 DEF n
  <2> QED
    BY <1>1, <1>3, <2>1, <2>2, SubSeqProperties
<1> QED
  BY <1>2, <1>3, <1>5, <1>6, <1>7, <1>8 DEF SplitsIn

(* A damaged line is a line, and a break is never damaged.                 *)
LEMMA LineIn ==
  ASSUME NEW f \in Seq(Atoms)
  PROVE  /\ \A l \in LinesOver(Atoms) : EachIn(f, l, Damage) => f \in LinesOver(Atoms)
         /\ \A break \in Breaking : EachIn(f, break, Damage) => f = break
<1>1. ASSUME NEW l \in LinesOver(Atoms), EachIn(f, l, Damage) PROVE f \in LinesOver(Atoms)
  <2> DEFINE C == Atoms \ {"n", "r"}
  <2>1. l \in Seq(C) /\ Len(l) = Len(f) /\ Len(f) \in Nat /\ f = [i \in 1..Len(f) |-> f[i]]
    BY <1>1 DEF LinesOver, EachIn
  <2>2. \A i \in 1..Len(f) : f[i] \in C
    <3> SUFFICES ASSUME NEW i \in 1..Len(f) PROVE f[i] \in C
      OBVIOUS
    <3>1. <<f[i], l[i]>> \in Damage
      BY <1>1 DEF EachIn
    <3>2. l[i] \in C
      BY <2>1
    <3> QED
      BY <3>1, <3>2, DamageUnseen
  <2> HIDE DEF C
  <2>3. f \in [1..Len(f) -> C]
    BY <2>1, <2>2
  <2>4. f \in Seq(C)
    BY <2>1, <2>3
  <2> QED
    BY <2>4 DEF LinesOver, C
<1>2. ASSUME NEW break \in Breaking, EachIn(f, break, Damage) PROVE f = break
  <2>1. break \in Seq(Atoms)
    <3>1. "n" \in Atoms /\ "r" \in Atoms
      BY DEF Atoms
    <3> QED
      BY <3>1, BreakIsText
  <2>2. \A i \in 1..Len(break) : break[i] \in {"n", "r"}
    BY DEF Breaking
  <2>3. Len(f) = Len(break)
    BY <1>2 DEF EachIn
  <2>4. \A i \in 1..Len(f) : f[i] = break[i]
    <3> SUFFICES ASSUME NEW i \in 1..Len(f) PROVE f[i] = break[i]
      OBVIOUS
    <3>1. <<f[i], break[i]>> \in Damage
      BY <1>2 DEF EachIn
    <3>2. break[i] \in {"n", "r"}
      BY <2>2, <2>3
    <3> QED
      BY <3>1, <3>2, DamageUnseen
  <2> QED
    BY <2>1, <2>3, <2>4, SeqEqual
<1> QED
  BY <1>1, <1>2

(* The lines of a damaged text are the lines, damaged.                     *)
LEMMA LinesIn ==
  ASSUME NEW break \in Breaking, NEW hs \in Seq(LinesOver(Atoms)), NEW h \in LinesOver(Atoms),
         NEW s \in Seq(Atoms), EachIn(s, Terminated(hs, break) \o h, Damage)
  PROVE  EachIn(Lines(s), Lines(Terminated(hs, break) \o h), DamagedTexts)
<1> DEFINE A == Atoms
           B == LinesOver(A)
           k == Lines(h)
           Alike(u, f) == EachIn(f, Terminated(u, break) \o h, Damage) => EachIn(Lines(f), u \o k, DamagedTexts)
           S == {u \in Seq(B) : \A f \in Seq(A) : Alike(u, f)}
<1>1. "n" \in A /\ "r" \in A /\ break \in Seq(A) /\ h \in Seq(A) /\ <<>> \in Seq(B)
  <2>1. "n" \in A /\ "r" \in A /\ <<>> \in Seq(B)
    BY DEF Atoms
  <2> QED
    BY <2>1, BreakIsText, LineIsWhole
<1>2. \A l \in B : l \in Seq(A) /\ Lines(l) = IF l = <<>> THEN <<>> ELSE <<l>>
  <2> SUFFICES ASSUME NEW l \in B PROVE l \in Seq(A) /\ Lines(l) = IF l = <<>> THEN <<>> ELSE <<l>>
    OBVIOUS
  <2>1. l \in Seq(A) /\ OneLine(l)
    BY <1>1, LineIsWhole
  <2> QED
    BY <2>1, LinesLast
<1>3. k \in Seq(Seq(A))
  BY <1>1, LinesType
<1>4. <<>> \in S
  <2>1. Terminated(<<>>, break) = <<>>
    <3>1. <<>> \in Seq(A)
      OBVIOUS
    <3> QED
      BY <1>1, <3>1, TerminatedOne
  <2>2. <<>> \o h = h
    BY <1>1, ConcatEmptySeq
  <2>3. <<>> \o k = k
    <3> DEFINE C == Seq(A)
    <3> HIDE DEF k, C
    <3>1. k \in Seq(C)
      BY <1>3 DEF C
    <3> QED
      BY <3>1, ConcatEmptySeq
  <2>4. ASSUME NEW f \in Seq(A), EachIn(f, h, Damage) PROVE EachIn(Lines(f), k, DamagedTexts)
    <3>1. f \in B
      BY <2>4, LineIn
    <3>2. f = <<>> <=> h = <<>>
      BY <2>4 DEF EachIn
    <3>3. <<f, h>> \in DamagedTexts
      BY <1>1, <2>4 DEF DamagedTexts, Rows
    <3>4. EachIn(<<f>>, <<h>>, DamagedTexts) /\ EachIn(<<>>, <<>>, DamagedTexts)
      BY <3>3, OneIn
    <3> QED
      BY <1>2, <3>1, <3>2, <3>4
  <2> QED
    BY <1>1, <2>1, <2>2, <2>3, <2>4
<1>5. ASSUME NEW u \in Seq(B), NEW l \in B, u \in S PROVE <<l>> \o u \in S
  <2> DEFINE x == Terminated(u, break)
             y == x \o h
             z == break \o y
             o == <<l>>
             lu == o \o u
  <2>1. u \in Seq(Seq(A)) /\ l \in Seq(A)
    BY <1>2, LinesAreTexts
  <2>2. x \in Seq(A) /\ Terminated(lu, break) = l \o (break \o x)
    BY <1>1, <2>1, TerminatedFirst, ZenonT(30)
  <2>3. o \in Seq(B) /\ o \in Seq(Seq(A)) /\ EachIn(o, o, DamagedTexts) /\ lu \in Seq(B)
    <3>1. <<l, l>> \in DamagedTexts
      <4>1. \A i \in 1..Len(l) : <<l[i], l[i]>> \in Damage
        BY <2>1 DEF Damage
      <4> QED
        BY <2>1, <4>1 DEF DamagedTexts, Rows, EachIn
    <3>2. EachIn(o, o, DamagedTexts)
      BY <3>1, OneIn
    <3>3. o \in Seq(B) /\ o \in Seq(Seq(A))
      BY <2>1, OneType
    <3> HIDE DEF o, B
    <3>4. lu \in Seq(B)
      BY <3>3, ConcatShape
    <3> QED
      BY <3>2, <3>3, <3>4
  <2> HIDE DEF x, o, lu
  <2>4. Terminated(lu, break) \o h = l \o z /\ y \in Seq(A) /\ z \in Seq(A)
    <3> DEFINE w == break \o x
    <3>1. w \in Seq(A)
      BY <1>1, <2>2, ConcatShape
    <3>2. Associates(break, x, h)
      BY <1>1, <2>2, ThreeInARow
    <3>3. w \o h = z
      BY <3>2 DEF Associates
    <3> HIDE DEF w
    <3>4. Associates(l, w, h)
      BY <1>1, <2>1, <3>1, ThreeInARow
    <3>5. y \in Seq(A)
      BY <1>1, <2>2, ConcatShape
    <3> HIDE DEF y
    <3>6. z \in Seq(A)
      BY <1>1, <3>5, ConcatShape
    <3> QED
      BY <2>2, <3>3, <3>4, <3>5, <3>6 DEF Associates, w
  <2> HIDE DEF y, z
  <2>5. ASSUME NEW f \in Seq(A), EachIn(f, l \o z, Damage) PROVE EachIn(Lines(f), lu \o k, DamagedTexts)
    <3>1. PICK a \in Seq(A), c \in Seq(A) : f = a \o c /\ EachIn(a, l, Damage) /\ EachIn(c, z, Damage)
      <4>1. SplitsIn(A, Damage, f, l, z)
        BY <2>1, <2>4, <2>5, SplitIn
      <4> QED
        BY <4>1 DEF SplitsIn
    <3>2. PICK b \in Seq(A), g \in Seq(A) : c = b \o g /\ EachIn(b, break, Damage) /\ EachIn(g, y, Damage)
      <4>1. EachIn(c, break \o y, Damage)
        BY <3>1 DEF z
      <4>2. SplitsIn(A, Damage, c, break, y)
        BY <1>1, <2>4, <4>1, SplitIn
      <4> QED
        BY <4>2 DEF SplitsIn
    <3>3. a \in B /\ b = break
      BY <3>1, <3>2, LineIn
    <3>4. Lines(f) = <<a>> \o Lines(g)
      BY <1>1, <3>1, <3>2, <3>3, LinesBreak
    <3>5. EachIn(Lines(g), u \o k, DamagedTexts)
      BY <1>5, <3>2 DEF y, x
    <3>6. <<a, l>> \in DamagedTexts
      BY <2>1, <3>1 DEF DamagedTexts, Rows
    <3> DEFINE L == Lines(g)
               uk == u \o k
               oa == <<a>>
    <3>7. oa \in Seq(Seq(A)) /\ EachIn(oa, o, DamagedTexts)
      <4>1. EachIn(<<a>>, <<l>>, DamagedTexts)
        BY <3>6, OneIn
      <4> QED
        BY <4>1, OneType DEF o
    <3>8. L \in Seq(Seq(A)) /\ uk \in Seq(Seq(A))
      <4>1. uk \in Seq(Seq(A))
        <5> HIDE DEF k
        <5> QED
          BY <1>3, <2>1, ConcatShape
      <4> QED
        BY <4>1, LinesType
    <3>9. EachIn(L, uk, DamagedTexts)
      BY <3>5
    <3> HIDE DEF L, uk, oa, k
    <3>10. EachIn(oa \o L, o \o uk, DamagedTexts)
      BY <2>3, <3>7, <3>8, <3>9, ConcatIn
    <3>11. lu \o k = o \o uk
      <4>1. Associates(o, u, k)
        BY <1>3, <2>1, <2>3, ThreeInARow
      <4> QED
        BY <4>1 DEF Associates, lu, uk
    <3> QED
      BY <3>4, <3>10, <3>11 DEF L, oa
  <2> QED
    BY <2>3, <2>4, <2>5 DEF lu, o
<1> HIDE DEF S, B
<1>6. Seq(B) \subseteq S
  BY <1>4, <1>5, PrependInduction
<1>7. EachIn(Lines(s), hs \o k, DamagedTexts)
  BY <1>6 DEF S, B
<1>8. Lines(Terminated(hs, break) \o h) = hs \o k
  BY <1>1, LinesTerminated DEF B
<1> QED
  BY <1>7, <1>8

-----------------------------------------------------------------------------
(* What is read of a frame, and its data.                                  *)

(* One line more adds its data.                                            *)
LEMMA DataLinesAppend ==
  ASSUME NEW A, NEW ls \in Seq(Seq(A)), NEW l \in Seq(A)
  PROVE  /\ DataLines(ls) \in Seq(Seq(A)) /\ DataLines(<<>>) = <<>>
         /\ DataLines(Append(ls, l)) = DataLines(ls) \o DataOf(l)
<1> DEFINE B == Seq(A)
           f == [x \in B |-> DataOf(x)]
           o == <<l>>
           d == DataOf(l)
<1>1. Maps(f, B, Seq(B))
  <2>1. f \in [B -> Seq(B)]
    BY DataOfType
  <2> QED
    BY <2>1 DEF Maps
<1>2. f[l] = d /\ Append(ls, l) = ls \o o /\ ls \o o \in Seq(B)
  <2>1. Append(ls, l) = ls \o o /\ Append(ls, l) \in Seq(B)
    OBVIOUS
  <2> QED
    BY <2>1
<1>3. \A u \in Seq(B) : DataLines(u) = Spread(u, f)
  <2> SUFFICES ASSUME NEW u \in Seq(B) PROVE DataLines(u) = Spread(u, f)
    OBVIOUS
  <2>1. \A i \in DOMAIN u : u[i] \in B
    OBVIOUS
  <2>2. [i \in DOMAIN u |-> DataOf(u[i])] = Each(u, f)
    BY <2>1 DEF Each
  <2> QED
    BY <2>2 DEF DataLines, Spread
<1>4. DataLines(<<>>) = <<>>
  <2>1. [i \in DOMAIN <<>> |-> DataOf(<<>>[i])] = <<>>
    OBVIOUS
  <2> QED
    BY <2>1, FlattenNil DEF DataLines
<1>5. ls \in Seq(B) /\ l \in B /\ o \in Seq(B)
  BY OneType
<1> HIDE DEF f, B, o, d
<1>6. Joins(Spread(ls \o o, f), Spread(ls, f), Spread(o, f))
  BY <1>1, <1>5, SpreadConcat
<1>7. Spread(o, f) = d
  BY <1>1, <1>2, <1>5, SpreadOne DEF o
<1>8. Spread(ls, f) \in Seq(B)
  BY <1>1, <1>5, SpreadType
<1>9. DataLines(ls \o o) = Spread(ls \o o, f) /\ DataLines(ls) = Spread(ls, f)
  BY <1>2, <1>3, <1>5
<1> QED
  BY <1>2, <1>4, <1>6, <1>7, <1>8, <1>9 DEF Joins, B, d

(* Values without the blanks around them.                                  *)
Trimmed(vs) == [i \in DOMAIN vs |-> Trim(vs[i])]

(* One value more.                                                         *)
LEMMA TrimmedAppend ==
  ASSUME NEW A, NEW vs \in Seq(Seq(A)), NEW v \in Seq(A)
  PROVE  /\ Trimmed(vs) \in Seq(Seq(A)) /\ Trimmed(<<>>) = <<>>
         /\ Trimmed(Append(vs, v)) = Trimmed(vs) \o <<Trim(v)>> /\ Trim(v) \in Seq(A)
<1> DEFINE B == Seq(A)
           f == [x \in B |-> Trim(x)]
           e == Each(vs, f)
           d == Trim(v)
<1>1. {} \cap Blanks = {}
  OBVIOUS
<1>2. f \in [B -> B]
  BY <1>1, TrimKeeps
<1>3. f[v] = d /\ d \in B
  BY <1>1, TrimKeeps
<1>4. \A u \in Seq(B) : Trimmed(u) = Each(u, f)
  <2> SUFFICES ASSUME NEW u \in Seq(B) PROVE Trimmed(u) = Each(u, f)
    OBVIOUS
  <2>1. \A i \in DOMAIN u : u[i] \in B
    OBVIOUS
  <2> QED
    BY <2>1 DEF Each, Trimmed
<1>5. Append(vs, v) \in Seq(B)
  OBVIOUS
<1>6. Trimmed(<<>>) = <<>>
  BY DEF Trimmed
<1> HIDE DEF f, B, d
<1>7. e \in Seq(B) /\ Each(Append(vs, v), f) = Append(e, d)
  <2>1. vs \in Seq(B) /\ v \in B
    BY DEF B
  <2> QED
    BY <1>2, <1>3, <2>1, PlacesAppend
<1>8. Trimmed(Append(vs, v)) = Append(e, d) /\ Trimmed(vs) = e
  BY <1>4, <1>5, <1>7 DEF B
<1> HIDE DEF e
<1>9. Append(e, d) = e \o <<d>>
  BY <1>3, <1>7
<1> QED
  BY <1>3, <1>6, <1>7, <1>8, <1>9 DEF B, d

(* Lines of which none but the first is blank, read where no event has     *)
(* begun, are an event with the data of the lines.                         *)
ReadsData(m, ls) ==
  /\ ReadLines(m, ls).events = m.events
  /\ Trimmed(ReadLines(m, ls).values) = DataLines(ls)

(* That is so.                                                             *)
LEMMA ReadData ==
  ASSUME NEW A, NEW m \in States(A), m.values = <<>>, NEW ls \in Seq(Seq(A)), BlankFirst(ls)
  PROVE  ReadsData(m, ls)
<1> DEFINE B == Seq(A)
           S == {u \in Seq(B) : BlankFirst(u) => ReadsData(m, u)}
<1>1. <<>> \in S
  <2>1. <<>> \in Seq(B) /\ <<>> \in B
    OBVIOUS
  <2>2. ReadLines(m, <<>>) = m
    BY ReadNone
  <2>3. Trimmed(<<>>) = <<>> /\ DataLines(<<>>) = <<>>
    BY <2>1, TrimmedAppend, DataLinesAppend
  <2> QED
    BY <2>1, <2>2, <2>3 DEF ReadsData
<1>2. ASSUME NEW u \in Seq(B), NEW a \in B, u \in S PROVE Append(u, a) \in S
  <2> DEFINE ua == Append(u, a)
             k == ReadLines(m, u)
  <2>1. /\ ua \in Seq(B) /\ Len(ua) = Len(u) + 1 /\ ua[Len(u) + 1] = a
        /\ Len(u) \in Nat /\ \A i \in 1..Len(u) : ua[i] = u[i]
    <3> HIDE DEF B
    <3> QED
      BY AppendProperties
  <2>2. ReadLines(m, ua) = ReadLine(k, a)
    BY ReadAppend
  <2>3. k \in States(A)
    BY ReadType
  <2>4. DataLines(ua) = DataLines(u) \o DataOf(a) /\ DataLines(u) \in Seq(B)
    BY DataLinesAppend
  <2> SUFFICES ASSUME BlankFirst(ua) PROVE ReadsData(m, ua)
    BY <2>1
  <2>5. BlankFirst(u) /\ (a # <<>> \/ Len(u) = 0)
    <3> HIDE DEF ua
    <3>1. \A i \in 2..Len(u) : i \in 2..Len(ua) /\ i \in 1..Len(u)
      BY <2>1
    <3>2. BlankFirst(u)
      BY <2>1, <3>1 DEF BlankFirst
    <3>3. Len(u) # 0 => Len(u) + 1 \in 2..Len(ua)
      BY <2>1
    <3> QED
      BY <2>1, <3>2, <3>3 DEF BlankFirst
  <2>6. k.events = m.events /\ Trimmed(k.values) = DataLines(u)
    BY <1>2, <2>5 DEF ReadsData
  <2> HIDE DEF ua
  <2>7. CASE a = <<>>
    <3>1. u = <<>>
      BY <2>5, <2>7
    <3>2. k = m
      BY <3>1, ReadNone
    <3>3. m.events \in Seq(Seq(Seq(A)))
      BY DEF States
    <3>4. m.events \o <<>> = m.events
      <4> DEFINE W == Seq(B)
                 me == m.events
      <4>1. me \in Seq(W)
        BY <3>3
      <4> HIDE DEF W, me
      <4>2. me \o <<>> = me
        BY <4>1, ConcatEmptySeq
      <4> QED
        BY <4>2 DEF me
    <3> HIDE DEF k
    <3>5. ReadLine(k, a).events = m.events /\ ReadLine(k, a).values = <<>>
      BY <2>7, <3>2, <3>4 DEF ReadLine
    <3>6. DataOf(a) = <<>>
      BY <2>7 DEF DataOf, IsDataLine
    <3>7. DataLines(u) = <<>> /\ <<>> \o <<>> = <<>>
      <4>1. <<>> \in B
        OBVIOUS
      <4> QED
        BY <3>1, <4>1, DataLinesAppend
    <3>8. Trimmed(<<>>) = <<>>
      BY DEF Trimmed
    <3> QED
      BY <2>2, <2>4, <3>5, <3>6, <3>7, <3>8 DEF ReadsData
  <2>8. CASE a # <<>> /\ IsDataLine(a)
    <3>1. Tail(a) \in B
      BY <2>8
    <3>2. k.values \in Seq(B)
      BY <2>3 DEF States
    <3> DEFINE y == Tail(a)
               v == k.values
    <3>3. DataOf(a) = <<Trim(y)>>
      BY <2>8 DEF DataOf
    <3> HIDE DEF k, y
    <3>4. ReadLine(k, a).events = k.events /\ ReadLine(k, a).values = Append(v, y)
      BY <2>8 DEF ReadLine, y
    <3> HIDE DEF v
    <3>5. Trimmed(Append(v, y)) = Trimmed(v) \o <<Trim(y)>>
      BY <3>1, <3>2, TrimmedAppend DEF v, y
    <3> QED
      BY <2>2, <2>4, <2>6, <3>3, <3>4, <3>5 DEF ReadsData, v
  <2>9. CASE a # <<>> /\ ~IsDataLine(a)
    <3>1. ReadLine(k, a) = k
      BY <2>9 DEF ReadLine
    <3>2. DataOf(a) = <<>>
      BY <2>9 DEF DataOf
    <3>3. DataLines(u) \o <<>> = DataLines(u)
      <4> DEFINE d == DataLines(u)
      <4>1. d \in Seq(B)
        BY <2>4
      <4> HIDE DEF d, B
      <4>2. d \o <<>> = d
        BY <4>1, ConcatEmptySeq
      <4> QED
        BY <4>2 DEF d
    <3> QED
      BY <2>2, <2>4, <2>6, <3>1, <3>2, <3>3 DEF ReadsData
  <2> QED
    BY <2>7, <2>8, <2>9
<1> HIDE DEF S, B
<1>3. Seq(B) \subseteq S
  BY <1>1, <1>2, AppendInduction
<1> QED
  BY <1>3 DEF S, B

(* What is read further only adds events.                                  *)
ReadsMore(A, m, ls) == \E W \in Seq(Seq(Seq(A))) : ReadLines(m, ls).events = m.events \o W

(* That is so.                                                             *)
LEMMA ReadMore ==
  ASSUME NEW A, NEW m \in States(A), NEW ls \in Seq(Seq(A))
  PROVE  ReadsMore(A, m, ls)
<1> DEFINE B == Seq(A)
           V == Seq(B)
           S == {u \in Seq(B) : ReadsMore(A, m, u)}
           me == m.events
<1>1. me \in Seq(V) /\ <<>> \in Seq(V) /\ <<>> \in Seq(B)
  BY DEF States
<1>2. <<>> \in S
  <2>1. ReadLines(m, <<>>) = m
    BY ReadNone
  <2> HIDE DEF V
  <2>2. me \o <<>> = me
    <3> HIDE DEF me
    <3> QED
      BY <1>1, ConcatEmptySeq
  <2> QED
    BY <1>1, <2>1, <2>2 DEF ReadsMore, V
<1>3. ASSUME NEW u \in Seq(B), NEW a \in B, u \in S PROVE Append(u, a) \in S
  <2> DEFINE k == ReadLines(m, u)
             kv == k.values
             E == IF a = <<>> /\ kv # <<>> THEN <<kv>> ELSE <<>>
  <2>1. Append(u, a) \in Seq(B)
    OBVIOUS
  <2>2. ReadLines(m, Append(u, a)) = ReadLine(k, a)
    BY ReadAppend
  <2>3. k \in States(A)
    BY ReadType
  <2>4. k.events \in Seq(V) /\ kv \in V
    BY <2>3 DEF States
  <2>5. PICK W \in Seq(V) : k.events = me \o W
    BY <1>3 DEF ReadsMore
  <2> HIDE DEF k, V
  <2>6. E \in Seq(V)
    <3> HIDE DEF kv
    <3>1. <<kv>> \in Seq(V)
      BY <2>4, OneType
    <3> QED
      BY <1>1, <3>1
  <2> DEFINE ke == k.events
  <2>7. ke \in Seq(V) /\ ke = me \o W
    BY <2>4, <2>5
  <2>8. ReadLine(k, a).events = ke \o E
    <3>1. ke \o <<>> = ke
      <4> HIDE DEF ke
      <4> QED
        BY <2>7, ConcatEmptySeq
    <3>2. ReadLine(k, a).events = ke \o (IF a = <<>> /\ kv # <<>> THEN <<kv>> ELSE <<>>)
      <4>1. CASE a = <<>>
        BY <4>1 DEF ReadLine
      <4>2. CASE a # <<>>
        BY <3>1, <4>2 DEF ReadLine
      <4> QED
        BY <4>1, <4>2
    <3> QED
      BY <3>2
  <2> HIDE DEF ke, E, me
  <2>9. Associates(me, W, E)
    BY <1>1, <2>6, ThreeInARow
  <2>10. W \o E \in Seq(V)
    BY <2>6, ConcatShape
  <2>11. ReadLine(k, a).events = me \o (W \o E)
    BY <2>7, <2>8, <2>9 DEF Associates
  <2>12. ReadsMore(A, m, Append(u, a))
    BY <2>2, <2>10, <2>11 DEF ReadsMore, me, V
  <2> QED
    BY <2>1, <2>12
<1> HIDE DEF S, B
<1>4. Seq(B) \subseteq S
  BY <1>2, <1>3, AppendInduction
<1> QED
  BY <1>4 DEF S, B

(* The text of an event.                                                   *)
LEMMA EventTextType ==
  ASSUME NEW v \in Seq(Seq(Atoms))
  PROVE  EventText(v) = Join(Trimmed(v)) /\ EventText(v) \in Seq(Atoms)
<1>1. "n" \in Atoms /\ <<>> \in Seq(Atoms)
  BY DEF Atoms
<1>2. Trimmed(v) \in Seq(Seq(Atoms))
  BY <1>1, TrimmedAppend
<1>3. EventText(v) = Join(Trimmed(v))
  BY DEF EventText, Trimmed
<1>4. Join(Trimmed(v)) \in Seq(Atoms)
  BY <1>1, <1>2, JoinType
<1> QED
  BY <1>3, <1>4

(* The texts of events, and of one more.                                   *)
LEMMA TextsOfMore ==
  ASSUME NEW E \in Seq(Seq(Seq(Atoms))), NEW v \in Seq(Seq(Atoms))
  PROVE  /\ Texts(E) \in Seq(Seq(Atoms))
         /\ Joins(Texts(E \o <<v>>), Texts(E), Given(EventText(v)))
<1> DEFINE B == Seq(Atoms)
           V == Seq(B)
           f == [x \in V |-> Given(EventText(x))]
           o == <<v>>
           d == Given(EventText(v))
<1>1. Maps(f, V, Seq(B))
  <2>1. \A x \in V : Given(EventText(x)) \in Seq(B)
    BY EventTextType, GivenType
  <2>2. f \in [V -> Seq(B)]
    BY <2>1
  <2> QED
    BY <2>2 DEF Maps
<1>2. f[v] = d /\ E \in Seq(V) /\ v \in V
  OBVIOUS
<1>3. \A u \in Seq(V) : Texts(u) = Spread(u, f)
  <2> SUFFICES ASSUME NEW u \in Seq(V) PROVE Texts(u) = Spread(u, f)
    OBVIOUS
  <2>1. \A i \in DOMAIN u : u[i] \in V
    <3> HIDE DEF V
    <3> QED
      OBVIOUS
  <2>2. [i \in DOMAIN u |-> Given(EventText(u[i]))] = Each(u, f)
    BY <2>1 DEF Each
  <2> QED
    BY <2>2 DEF Texts, Spread
<1> HIDE DEF f, V, d
<1>4. o \in Seq(V)
  BY <1>2, OneType
<1>5. E \o o \in Seq(V)
  <2> HIDE DEF o
  <2> QED
    BY <1>2, <1>4, ConcatShape
<1>6. Joins(Spread(E \o o, f), Spread(E, f), Spread(o, f))
  <2> HIDE DEF B, o
  <2> QED
    BY <1>1, <1>2, <1>4, SpreadConcat
<1>7. Spread(o, f) = d /\ Spread(E, f) \in Seq(B)
  <2> HIDE DEF B
  <2> QED
    BY <1>1, <1>2, SpreadOne, SpreadType
<1>8. Texts(E \o o) = Spread(E \o o, f) /\ Texts(E) = Spread(E, f)
  BY <1>2, <1>3, <1>5
<1> QED
  BY <1>6, <1>7, <1>8 DEF d

(* Events that a turn has handled, all of them JSON, and what it has given *)
(* of them; or up to the first that is not.                                *)
Handled(events, ds) ==
  /\ events \in Seq(Seq(Seq(Atoms))) /\ ds \in Seq(Seq(Atoms))
  /\ \A k \in 1..Len(events) : ~Invalid(EventText(events[k]))
  /\ EachIn(ds, Texts(events), DamagedTexts)
Fails(events, ds) ==
  \E E \in Seq(Seq(Seq(Atoms))), v \in Seq(Seq(Atoms)), W \in Seq(Seq(Seq(Atoms))) :
    Handled(E, ds) /\ Invalid(EventText(v)) /\ events = (E \o <<v>>) \o W

(* The places of items with one more behind them.                          *)
OneMore(E, v, z) ==
  /\ Len(z) = Len(E) + 1 /\ Len(E) \in Nat /\ z[Len(E) + 1] = v
  /\ \A i \in 1..Len(E) : z[i] = E[i]

(* So they are.                                                            *)
LEMMA MorePlaces ==
  ASSUME NEW V, NEW E \in Seq(V), NEW v \in V
  PROVE  E \o <<v>> \in Seq(V) /\ OneMore(E, v, E \o <<v>>)
<1> DEFINE z == Append(E, v)
<1>1. /\ z \in Seq(V) /\ Len(z) = Len(E) + 1 /\ z[Len(E) + 1] = v
      /\ \A i \in 1..Len(E) : z[i] = E[i]
  BY AppendProperties
<1>2. Len(E) \in Nat /\ E \o <<v>> = z
  OBVIOUS
<1> HIDE DEF z
<1> QED
  BY <1>1, <1>2 DEF OneMore

(* An event more, which is JSON.                                           *)
LEMMA HandledMore ==
  ASSUME NEW E, NEW ds, Handled(E, ds), NEW v \in Seq(Seq(Atoms)), ~Invalid(EventText(v)),
         NEW x \in Seq(Seq(Atoms)), EachIn(x, Given(EventText(v)), DamagedTexts)
  PROVE  Handled(E \o <<v>>, ds \o x)
<1> DEFINE V == Seq(Seq(Atoms))
           o == <<v>>
           z == E \o o
           d == Given(EventText(v))
           t == Texts(E)
<1>1. E \in Seq(V) /\ ds \in Seq(Seq(Atoms)) /\ o \in Seq(V) /\ v \in V
  BY OneType DEF Handled
<1>2. t \in Seq(Seq(Atoms)) /\ Joins(Texts(z), t, d)
  BY <1>1, TextsOfMore
<1>3. d \in Seq(Seq(Atoms))
  BY EventTextType, GivenType
<1>4. EachIn(ds, t, DamagedTexts)
  BY DEF Handled
<1> HIDE DEF d, t
<1>5. EachIn(ds \o x, t \o d, DamagedTexts)
  BY <1>1, <1>2, <1>3, <1>4, ConcatIn DEF d
<1>6. ds \o x \in Seq(Seq(Atoms))
  BY <1>1, ConcatShape
<1> HIDE DEF V
<1>7. z \in Seq(V) /\ OneMore(E, v, z)
  BY <1>1, MorePlaces
<1>8. /\ z \in Seq(V) /\ Len(z) = Len(E) + 1 /\ Len(E) \in Nat /\ z[Len(E) + 1] = v
      /\ \A i \in 1..Len(E) : z[i] = E[i]
  BY <1>7 DEF OneMore
<1> HIDE DEF z
<1>9. ASSUME NEW k \in 1..Len(z) PROVE ~Invalid(EventText(z[k]))
  <2>1. CASE k \in 1..Len(E)
    BY <1>8, <2>1 DEF Handled
  <2>2. CASE k = Len(E) + 1
    BY <1>8, <2>2
  <2> QED
    BY <1>8, <2>1, <2>2
<1> QED
  BY <1>2, <1>5, <1>6, <1>8, <1>9 DEF Handled, Joins, V, z, o

(* What is expected of events of which none fails.                         *)
LEMMA ExpectedWhole ==
  ASSUME NEW E, NEW ds, Handled(E, ds)
  PROVE  Expected(E) = [deltas |-> Texts(E), invalid |-> FALSE]
<1>1. E \in Seq(Seq(Seq(Atoms))) /\ \A k \in 1..Len(E) : ~Invalid(EventText(E[k]))
  BY DEF Handled
<1>2. {k \in DOMAIN E : Invalid(EventText(E[k]))} = {}
  <2>1. DOMAIN E = 1..Len(E)
    BY <1>1
  <2> QED
    BY <1>1, <2>1
<1> QED
  BY <1>2 DEF Expected

(* What is expected of events of which one fails.                          *)
LEMMA ExpectedFails ==
  ASSUME NEW events, NEW ds, Fails(events, ds)
  PROVE  \E E : Handled(E, ds) /\ Expected(events) = [deltas |-> Texts(E), invalid |-> TRUE]
<1> DEFINE V == Seq(Seq(Atoms))
<1>1. PICK E \in Seq(V), v \in V, W \in Seq(V) :
        Handled(E, ds) /\ Invalid(EventText(v)) /\ events = (E \o <<v>>) \o W
  BY DEF Fails
<1> DEFINE o == <<v>>
           z == E \o o
           n == Len(E)
           bad == {k \in DOMAIN events : Invalid(EventText(events[k]))}
<1> HIDE DEF V
<1>2. z \in Seq(V) /\ OneMore(E, v, z)
  BY <1>1, MorePlaces
<1>3. /\ z \in Seq(V) /\ Len(z) = n + 1 /\ n \in Nat /\ z[n + 1] = v
      /\ \A i \in 1..n : z[i] = E[i]
  BY <1>2 DEF OneMore
<1>4. events = z \o W
  BY <1>1
<1> HIDE DEF z
<1>5. /\ events \in Seq(V) /\ Len(events) = (n + 1) + Len(W) /\ Len(W) \in Nat
      /\ \A i \in 1..(n + 1) : events[i] = z[i]
  <2>1. /\ z \o W \in Seq(V) /\ Len(z \o W) = Len(z) + Len(W)
        /\ \A i \in 1..Len(z) : (z \o W)[i] = z[i]
    BY <1>3, ConcatPlaces
  <2>2. Len(W) \in Nat
    OBVIOUS
  <2> QED
    BY <1>3, <1>4, <2>1, <2>2
<1>6. DOMAIN events = 1..Len(events)
  BY <1>5
<1>7. \A i \in 1..n : E[i] = events[i] /\ ~Invalid(EventText(events[i]))
  <2> SUFFICES ASSUME NEW i \in 1..n PROVE E[i] = events[i] /\ ~Invalid(EventText(events[i]))
    OBVIOUS
  <2>1. i \in 1..(n + 1)
    BY <1>3
  <2>2. E[i] = events[i]
    BY <1>3, <1>5, <2>1
  <2>3. ~Invalid(EventText(E[i]))
    BY <1>1 DEF Handled
  <2> QED
    BY <2>2, <2>3
<1>8. n + 1 \in bad /\ \A k \in bad : n + 1 <= k
  <2>1. n + 1 \in 1..(n + 1) /\ n + 1 \in 1..Len(events)
    BY <1>3, <1>5
  <2>2. n + 1 \in bad
    BY <1>1, <1>3, <1>5, <1>6, <2>1
  <2>3. ASSUME NEW k \in bad PROVE n + 1 <= k
    <3>1. k \in 1..Len(events) /\ ~(k \in 1..n)
      BY <1>6, <1>7
    <3> QED
      BY <1>3, <1>5, <3>1
  <2> QED
    BY <2>2, <2>3
<1>9. bad \in SUBSET (Nat \ {0})
  BY <1>5, <1>6
<1> HIDE DEF bad
<1>10. Min(bad) = n + 1
  <2>1. Min(bad) \in bad /\ \A k \in bad : Min(bad) <= k
    BY <1>8, <1>9, FirstOfPlaces DEF FirstOf
  <2>2. Min(bad) <= n + 1 /\ n + 1 <= Min(bad) /\ Min(bad) \in Nat
    BY <1>8, <1>9, <2>1
  <2> QED
    BY <1>3, <2>2
<1>11. SubSeq(events, 1, n) = E
  <2> DEFINE w == SubSeq(events, 1, n)
  <2>1. \A i \in 1..n : events[i] \in V
    BY <1>5
  <2>2. /\ w \in Seq(V) /\ Len(w) = (IF 1 <= n THEN n - 1 + 1 ELSE 0)
        /\ \A i \in 1..(n - 1 + 1) : w[i] = events[1 + i - 1]
    BY <1>3, <2>1, SubSeqProperties
  <2> HIDE DEF w, n
  <2>3. Len(w) = n /\ \A i \in 1..n : w[i] = events[i]
    BY <1>3, <2>2
  <2>4. w = E
    BY <1>7, <2>2, <2>3, SeqEqual DEF n
  <2> QED
    BY <2>4 DEF w
<1>12. Expected(events) = [deltas |-> Texts(E), invalid |-> TRUE]
  <2> DEFINE valid == IF bad = {} THEN events ELSE SubSeq(events, 1, Min(bad) - 1)
  <2>1. bad # {} /\ Min(bad) - 1 = n
    BY <1>3, <1>8, <1>10
  <2>2. valid = E
    BY <1>11, <2>1
  <2>3. Expected(events) = [deltas |-> Texts(valid), invalid |-> bad # {}]
    BY DEF Expected, bad
  <2> HIDE DEF valid
  <2>4. (bad # {}) = TRUE
    BY <2>1
  <2> QED
    BY <2>2, <2>3, <2>4
<1> QED
  BY <1>1, <1>12

(* Later events change nothing then.                                       *)
LEMMA FailsMore ==
  ASSUME NEW events, NEW ds, Fails(events, ds), NEW X \in Seq(Seq(Seq(Atoms)))
  PROVE  Fails(events \o X, ds)
<1> DEFINE V == Seq(Seq(Atoms))
<1>1. PICK E \in Seq(V), v \in V, W \in Seq(V) :
        Handled(E, ds) /\ Invalid(EventText(v)) /\ events = (E \o <<v>>) \o W
  BY DEF Fails
<1> DEFINE o == <<v>>
           z == E \o o
<1>2. o \in Seq(V)
  BY OneType
<1> HIDE DEF o, V
<1>3. z \in Seq(V)
  BY <1>2, ConcatShape
<1> HIDE DEF z
<1>4. X \in Seq(V)
  BY DEF V
<1>5. Associates(z, W, X)
  BY <1>3, <1>4, ThreeInARow
<1>6. W \o X \in Seq(V)
  BY <1>4, ConcatShape
<1>7. events \o X = (E \o <<v>>) \o (W \o X)
  BY <1>1, <1>5 DEF Associates, z, o
<1> HIDE DEF z
<1> QED
  BY <1>1, <1>6, <1>7 DEF Fails, V

(* What a frame gives the turn is what its event gives.                    *)
GivesAlike(z, ds, d) ==
  /\ ~Invalid(d) => Handled(z.events, ds \o Given(d))
  /\ Invalid(d) => Fails(z.events, ds)

(* That is so of a frame that is damaged, too.                             *)
LEMMA FrameGives ==
  ASSUME NEW m \in States(Atoms), m.values = <<>>, NEW ds, Handled(m.events, ds),
         NEW s \in Seq(Atoms), NEW g \in Seq(Atoms), BlankFirst(Lines(g)),
         EachIn(Lines(s), Lines(g), DamagedTexts)
  PROVE  GivesAlike(ReadLine(ReadLines(m, Lines(g)), <<>>), ds, Data(s))
<1> DEFINE V == Seq(Seq(Atoms))
           ls == Lines(g)
           k == ReadLines(m, ls)
           v == k.values
           E == m.events
           z == ReadLine(k, <<>>)
           d == Data(s)
           t == EventText(v)
<1>1. ls \in V /\ Lines(s) \in V
  BY LinesType
<1>2. k \in States(Atoms)
  BY <1>1, ReadType
<1>3. v \in V /\ E \in Seq(V)
  BY <1>2 DEF States
<1>4. k.events = E /\ Trimmed(v) = DataLines(ls)
  <2>1. ReadsData(m, ls)
    BY <1>1, ReadData
  <2> QED
    BY <2>1 DEF ReadsData
<1>5. Data(g) = t /\ t \in Seq(Atoms)
  <2>1. t = Join(Trimmed(v)) /\ t \in Seq(Atoms)
    BY <1>3, EventTextType
  <2> QED
    BY <1>4, <2>1 DEF Data
<1>6. d \in Seq(Atoms) /\ EachIn(d, t, Damage)
  <2> DEFINE a == DataLines(Lines(s))
             b == DataLines(ls)
  <2>1. a \in Seq(Seq(Atoms)) /\ b \in Seq(Seq(Atoms)) /\ EachIn(a, b, DamagedTexts)
    BY <1>1, DataLinesIn
  <2>2. Join(a) \in Seq(Atoms) /\ EachIn(Join(a), Join(b), Damage)
    <3> HIDE DEF a, b
    <3> QED
      BY <2>1, JoinIn
  <2> QED
    BY <1>5, <2>2 DEF Data
<1> DEFINE x == Given(d)
<1> HIDE DEF t, d
<1>7. /\ Invalid(d) <=> Invalid(t)
      /\ x \in Seq(Seq(Atoms)) /\ EachIn(x, Given(t), DamagedTexts)
  BY <1>5, <1>6, TestsIn, GivenIn
<1>8. z.events = E \o (IF v = <<>> THEN <<>> ELSE <<v>>)
  BY <1>4 DEF ReadLine
<1> HIDE DEF k, z
<1>9. CASE v = <<>>
  <2>1. z.events = E
    <3>1. E \o <<>> = E
      <4> HIDE DEF E, V
      <4> QED
        BY <1>3, ConcatEmptySeq
    <3> QED
      BY <1>8, <1>9, <3>1
  <2>2. t = <<>>
    <3>1. EventText(<<>>) = Join(<<>>)
      BY DEF EventText
    <3>2. Join(<<>>) = <<>>
      BY FlattenNil DEF Join
    <3> HIDE DEF v
    <3> QED
      BY <1>9, <3>1, <3>2 DEF t
  <2>3. d = <<>>
    BY <1>6, <2>2 DEF EachIn
  <2>4. ~Invalid(d) /\ x = <<>>
    BY <2>3 DEF Invalid, Silent, Given
  <2>5. ds \o x = ds
    <3>1. ds \in Seq(Seq(Atoms))
      BY DEF Handled
    <3> QED
      BY <2>4, <3>1, ConcatEmptySeq
  <2>6. Handled(z.events, ds \o x)
    BY <2>1, <2>5
  <2> QED
    BY <2>4, <2>6 DEF GivesAlike, z, k, d
<1>10. CASE v # <<>>
  <2>1. z.events = E \o <<v>>
    BY <1>8, <1>10
  <2> HIDE DEF v, E
  <2>2. Handled(E, ds)
    BY DEF E
  <2>3. ASSUME ~Invalid(d) PROVE Handled(z.events, ds \o x)
    <3>1. ~Invalid(EventText(v)) /\ EachIn(x, Given(EventText(v)), DamagedTexts)
      BY <1>7, <2>3 DEF t
    <3>2. Handled(E \o <<v>>, ds \o x)
      <4> HIDE DEF x
      <4> QED
        BY <1>3, <1>7, <2>2, <3>1, HandledMore
    <3> QED
      BY <2>1, <3>2
  <2>4. ASSUME Invalid(d) PROVE Fails(z.events, ds)
    <3> DEFINE o == <<v>>
               y == E \o o
    <3>1. o \in Seq(V)
      BY <1>3, OneType
    <3> HIDE DEF o, V
    <3>2. y \in Seq(V) /\ <<>> \in Seq(V)
      BY <1>3, <3>1, ConcatShape
    <3>3. y \o <<>> = y
      <4> HIDE DEF y
      <4> QED
        BY <3>2, ConcatEmptySeq
    <3>4. Invalid(EventText(v))
      BY <1>7, <2>4 DEF t
    <3>5. z.events = (E \o <<v>>) \o <<>>
      BY <2>1, <3>3 DEF o
    <3> QED
      BY <1>3, <2>2, <3>2, <3>4, <3>5 DEF Fails, V
  <2> QED
    BY <2>3, <2>4 DEF GivesAlike, z, k, d
<1> QED
  BY <1>9, <1>10

-----------------------------------------------------------------------------
(* A body read as it arrives.                                              *)

(* A text behind which lines go on, and no event has begun.                *)
Between(q, ks) ==
  /\ q \in Seq(Atoms) /\ ks \in Seq(Seq(Atoms)) /\ GoesOn(q, ks)
  /\ ReadLines(Unread, ks).values = <<>>

(* What is buffered, and what has not arrived, of a body, and what has     *)
(* been given of the events before.                                        *)
Follows(b, break, e, r, q, ks) ==
  e \in Seq(STRING) /\ InLines(break, e \o r) /\ b = q \o (e \o r) /\ Between(q, ks)
Followed(b, s, r, ds) ==
  \E break \in Breaking, e \in Seq(STRING), q \in Seq(Atoms), ks \in Seq(Seq(Atoms)) :
    /\ Follows(b, break, e, r, q, ks) /\ Damaged(s, e)
    /\ Handled(ReadLines(Unread, ks).events, ds)

(* At first nothing is buffered, and nothing has been given.               *)
LEMMA FollowedFirst ==
  ASSUME NEW break \in Breaking, NEW b, InLines(break, b)
  PROVE  Followed(b, <<>>, b, <<>>)
<1> DEFINE e == <<>>
<1>1. b \in Seq(Atoms) /\ e \in Seq(Atoms) /\ e \in Seq(Seq(Atoms)) /\ b = e \o b /\ e \in Seq(STRING)
  BY LinesUtf8, ConcatEmptySeq
<1>2. GoesOn(e, e)
  BY NothingGoesOn
<1>3. ReadLines(Unread, e) = Unread
  BY UnreadType, ReadNone
<1>4. Between(e, e)
  BY <1>1, <1>2, <1>3 DEF Between, Unread
<1>5. Handled(Unread.events, e)
  <2>1. Texts(<<>>) = <<>>
    BY FlattenNil DEF Texts
  <2>2. EachIn(<<>>, <<>>, DamagedTexts)
    BY DEF EachIn
  <2>3. <<>> \in Seq(Seq(Seq(Atoms))) /\ <<>> \in Seq(Seq(Atoms)) /\ Len(<<>>) = 0
    OBVIOUS
  <2> QED
    BY <2>1, <2>2, <2>3 DEF Handled, Unread
<1>6. Damaged(e, e)
  BY DEF Damaged
<1>7. Follows(b, break, e, b, e, e)
  BY <1>1, <1>4 DEF Follows
<1> QED
  BY <1>1, <1>3, <1>5, <1>6, <1>7 DEF Followed

(* A chunk arrives.                                                        *)
LEMMA FollowedGrows ==
  ASSUME NEW b, NEW s \in Seq(Atoms), NEW c \in Seq(STRING), NEW r \in Seq(STRING), NEW ds,
         Followed(b, s, c \o r, ds)
  PROVE  Followed(b, s \o Lossy(c), r, ds)
<1>1. PICK break \in Breaking, e \in Seq(STRING),
             q \in Seq(Atoms), ks \in Seq(Seq(Atoms)) :
        /\ Follows(b, break, e, c \o r, q, ks) /\ Damaged(s, e)
        /\ Handled(ReadLines(Unread, ks).events, ds)
  BY DEF Followed
<1>2. e \in Seq(STRING)
  BY <1>1 DEF Follows
<1> DEFINE d == Lossy(c)
           ec == e \o c
<1>3. d \in Seq(Atoms) /\ Damaged(d, c)
  BY LossyDamages
<1> HIDE DEF d
<1>4. Damaged(s \o d, ec)
  BY <1>1, <1>2, <1>3, DamageGrows
<1>5. ec \in Seq(STRING)
  BY <1>2, ConcatShape
<1>6. ec \o r = e \o (c \o r)
  <2>1. Associates(e, c, r)
    BY <1>2, ThreeInARow
  <2> QED
    BY <2>1 DEF Associates
<1> HIDE DEF ec
<1>7. Follows(b, break, ec, r, q, ks)
  BY <1>1, <1>5, <1>6 DEF Follows
<1> QED
  BY <1>1, <1>4, <1>5, <1>7 DEF Followed, d

(* A frame is taken: what is behind it follows, and it gives what its      *)
(* event does.                                                             *)
Taken(b, s, r, ds) ==
  \E break \in Breaking, e \in Seq(STRING), q \in Seq(Atoms), ks \in Seq(Seq(Atoms)) :
    /\ Follows(b, break, e, r, q, ks) /\ Damaged(Behind(s), e)
    /\ GivesAlike(ReadLines(Unread, ks), ds, Data(Frame(s)))

(* That is so.                                                             *)
LEMMA FrameTaken ==
  ASSUME NEW b, NEW s \in Seq(Atoms), NEW r \in Seq(STRING), NEW ds, Followed(b, s, r, ds),
         Separator(s) # 0
  PROVE  Taken(b, s, r, ds)
<1> DEFINE A == Atoms
<1>1. PICK break \in Breaking, e \in Seq(STRING),
             q \in Seq(Atoms), ks \in Seq(Seq(Atoms)) :
        /\ Follows(b, break, e, r, q, ks) /\ Damaged(s, e)
        /\ Handled(ReadLines(Unread, ks).events, ds)
  BY DEF Followed
<1> DEFINE t == e \o r
           f == Frame(t)
           u == Behind(e)
           m == ReadLines(Unread, ks)
           bb == break \o break
           L == Lines(f)
           Lg == L \o Gap(f)
<1>2. /\ e \in Seq(STRING) /\ InLines(break, t) /\ b = q \o t
      /\ q \in Seq(A) /\ ks \in Seq(Seq(A)) /\ GoesOn(q, ks) /\ m.values = <<>>
  BY <1>1 DEF Follows, Between
<1>3. STRING \subseteq A /\ e \in Seq(A)
  <2>1. STRING \subseteq A
    BY DEF Atoms
  <2> QED
    BY <1>2, <2>1, SeqOfMore
<1>4. Separator(e) = Separator(s) /\ u \in Seq(STRING) /\ Damaged(Behind(s), u)
  BY <1>1, <1>2, DamageCuts
<1>5. Separator(t) = Separator(e) /\ f = Frame(e) /\ Behind(t) = u \o r /\ t \in Seq(STRING)
  BY <1>2, <1>4, SeparatorStays, CutStays, ConcatShape
<1>6. Rewritable(f) /\ FrameShape(A, break, f) /\ SeparatorOf(t) = bb /\ InLines(break, u \o r)
  <2>1. Separator(t) # 0
    BY <1>4, <1>5
  <2> HIDE DEF t, f, bb, u
  <2>2. /\ Rewritable(Frame(t)) /\ FrameShape(A, break, Frame(t))
        /\ SeparatorOf(t) = break \o break /\ InLines(break, Behind(t))
    BY <1>2, <2>1, FrameOfLines
  <2> QED
    BY <1>5, <2>2 DEF f, bb
<1>7. bb \in Seq(A) /\ t = (f \o bb) \o (u \o r)
  <2>1. t \in Seq(A) /\ Separator(t) # 0
    BY <1>3, <1>4, <1>5, SeqOfMore
  <2> HIDE DEF t, f, bb, u
  <2>2. SeparatorOf(t) \in Seq(A) /\ t = (Frame(t) \o SeparatorOf(t)) \o Behind(t)
    BY <2>1, FrameApart
  <2> QED
    BY <1>5, <1>6, <2>2 DEF f
<1>8. EachIn(Frame(s), f, Damage) /\ Frame(s) \in Seq(A) /\ f \in Seq(A)
  <2> DEFINE p == Separator(s) - 1
  <2>1. EachIn(s, e, Damage)
    BY <1>1, <1>3, DamageIsIn
  <2>2. Separator(s) \in 1..Len(s) /\ Len(s) \in Nat
    BY SeparatorInside
  <2>3. 1 \in 1..(Len(s) + 1) /\ p \in (1 - 1)..Len(s)
    BY <2>2
  <2>4. Frame(s) = SubSeq(s, 1, p) /\ f = SubSeq(e, 1, p)
    BY <1>4, <1>5 DEF Frame
  <2> HIDE DEF p, f
  <2>5. EachIn(SubSeq(s, 1, p), SubSeq(e, 1, p), Damage)
    BY <1>3, <2>1, <2>3, PartIn
  <2>6. f \in Seq(A)
    BY <1>6 DEF Rewritable
  <2>7. SubSeq(s, 1, p) \in Seq(A)
    <3>1. \A i \in 1..p : s[i] \in A
      BY <2>2, <2>3 DEF p
    <3> QED
      BY <2>3, <3>1, SubSeqProperties
  <2> QED
    BY <2>4, <2>5, <2>6, <2>7
<1>9. BlankFirst(L) /\ L \in Seq(Seq(A))
  BY <1>6, LinesAreTexts DEF Rewritable
<1> HIDE DEF t, f, u, bb
<1>10. EachIn(Lines(Frame(s)), L, DamagedTexts)
  <2>1. PICK hs \in Seq(LinesOver(A)), h \in LinesOver(A) : f = Terminated(hs, break) \o h
    BY <1>6 DEF FrameShape
  <2> QED
    BY <1>8, <2>1, LinesIn
<1>11. m \in States(A)
  BY <1>2, UnreadType, ReadType
<1> DEFINE z == ReadLine(ReadLines(m, L), <<>>)
<1>12. GivesAlike(z, ds, Data(Frame(s)))
  <2> HIDE DEF m
  <2>1. Handled(m.events, ds)
    BY <1>1 DEF m
  <2> QED
    BY <1>2, <1>8, <1>9, <1>10, <1>11, <2>1, FrameGives
<1>13. ReadLines(Unread, ks \o Lg) = z
  <2>1. ReadOver(Unread, ks, L, f)
    BY <1>2, <1>9, UnreadType, ReadFrame
  <2> QED
    BY <2>1 DEF ReadOver
<1>14. z.values = <<>>
  BY DEF ReadLine
<1>15. ks \o Lg \in Seq(Seq(A))
  <2>1. Gap(f) \in Seq(Seq(A))
    BY UnreadType, ReadGap
  <2> DEFINE g == Gap(f)
  <2> HIDE DEF L, g
  <2>2. L \o g \in Seq(Seq(A))
    BY <1>9, <2>1, ConcatShape DEF g
  <2> QED
    BY <1>2, <2>2, ConcatShape DEF g
<1> DEFINE p == (q \o f) \o bb
           ps == ks \o Lg
<1>16. GoesOn(p, ps)
  BY <1>2, <1>6, <1>8, GoesOnBehind DEF bb
<1>17. p \in Seq(A)
  <2>1. q \o f \in Seq(A)
    BY <1>2, <1>8, ConcatShape
  <2> QED
    BY <1>7, <2>1, ConcatShape
<1>18. b = p \o (u \o r)
  <2>1. u \o r \in Seq(A)
    <3>1. u \in Seq(A) /\ r \in Seq(A)
      BY <1>3, <1>4, SeqOfMore
    <3> QED
      BY <3>1, ConcatShape
  <2> DEFINE w == u \o r
  <2>2. w \in Seq(A)
    BY <2>1
  <2>3. b = q \o ((f \o bb) \o w)
    BY <1>2, <1>7
  <2> HIDE DEF w, p, ps, A
  <2>4. Moves(q, f, bb, w)
    BY <1>2, <1>7, <1>8, <2>2, FrameMoves
  <2>5. b = ((q \o f) \o bb) \o w
    BY <2>3, <2>4 DEF Moves
  <2> QED
    BY <2>5 DEF w, p
<1> HIDE DEF p, ps, z
<1>19. Between(p, ps)
  BY <1>13, <1>14, <1>15, <1>16, <1>17 DEF Between, ps
<1>20. Follows(b, break, u, r, p, ps)
  BY <1>4, <1>6, <1>18, <1>19 DEF Follows
<1>21. GivesAlike(ReadLines(Unread, ps), ds, Data(Frame(s)))
  BY <1>12, <1>13 DEF ps
<1> QED
  BY <1>4, <1>15, <1>17, <1>20, <1>21 DEF Taken, ps

(* Its event is JSON: the turn goes on.                                    *)
LEMMA FollowedTakes ==
  ASSUME NEW b, NEW s, NEW r, NEW ds, Taken(b, s, r, ds), ~Invalid(Data(Frame(s)))
  PROVE  Followed(b, Behind(s), r, ds \o Given(Data(Frame(s))))
BY DEF Taken, Followed, GivesAlike

(* It is not: the body fails there, whatever follows.                      *)
LEMMA FollowedFails ==
  ASSUME NEW b, NEW s, NEW r \in Seq(STRING), NEW ds, Taken(b, s, r, ds), Invalid(Data(Frame(s)))
  PROVE  Fails(Events(Ended(b)), ds)
<1>1. PICK break \in Breaking, e \in Seq(STRING),
             q \in Seq(Atoms), ks \in Seq(Seq(Atoms)) :
        /\ Follows(b, break, e, r, q, ks)
        /\ GivesAlike(ReadLines(Unread, ks), ds, Data(Frame(s)))
  BY DEF Taken
<1> DEFINE A == Atoms
           nn == <<"n", "n">>
           t == e \o r
           x == t \o nn
           m == ReadLines(Unread, ks)
<1>2. /\ e \in Seq(STRING) /\ b = q \o t
      /\ q \in Seq(A) /\ ks \in Seq(Seq(A)) /\ GoesOn(q, ks)
  BY <1>1 DEF Follows, Between
<1>3. t \in Seq(A) /\ nn \in Seq(A)
  <2>1. STRING \subseteq A /\ nn \in Seq(A)
    BY DEF Atoms
  <2>2. t \in Seq(STRING)
    BY <1>2, ConcatShape
  <2> QED
    BY <2>1, <2>2, SeqOfMore
<1> HIDE DEF t, nn
<1>4. Ended(b) = q \o x /\ x \in Seq(A)
  <2>1. Associates(q, t, nn)
    BY <1>2, <1>3, ThreeInARow
  <2> QED
    BY <1>2, <1>3, <2>1, ConcatShape DEF Associates, Ended, nn
<1> HIDE DEF x
<1>5. Lines(Ended(b)) = ks \o Lines(x)
  BY <1>2, <1>4 DEF GoesOn
<1>6. Lines(x) \in Seq(Seq(A)) /\ m \in States(A)
  BY <1>2, <1>4, LinesType, UnreadType, ReadType
<1>7. ReadInARow(Unread, ks, Lines(x))
  BY <1>2, <1>6, UnreadType, ReadConcat
<1>8. Events(Ended(b)) = ReadLines(m, Lines(x)).events
  BY <1>5, <1>7 DEF Events, ReadInARow
<1> HIDE DEF m
<1>9. PICK W \in Seq(Seq(Seq(A))) : ReadLines(m, Lines(x)).events = m.events \o W
  <2>1. ReadsMore(A, m, Lines(x))
    BY <1>6, ReadMore
  <2> QED
    BY <2>1 DEF ReadsMore
<1>10. Fails(m.events, ds)
  BY <1>1 DEF GivesAlike, m
<1>11. Fails(m.events \o W, ds)
  BY <1>10, FailsMore
<1> QED
  BY <1>8, <1>9, <1>11

(* Two blank lines behind lines that are one text.                         *)
EndedLines(e, l) == Lines(e \o <<"n", "n">>) = Lines(e) \o Gap(l)

(* The end of a body ends its last line, and an event.                     *)
LEMMA LinesEnded ==
  ASSUME NEW break \in Breaking, NEW ls \in Seq(TextLine), NEW l \in TextLine
  PROVE  EndedLines(Terminated(ls, break) \o l, l)
<1> DEFINE A == Atoms
           B == LinesOver(A)
           feed == <<"n">>
           nn == <<"n", "n">>
           t == Terminated(ls, break)
           y == l \o nn
           k == Lines(l)
           g == Gap(l)
<1>1. /\ "n" \in A /\ "r" \in A /\ ls \in Seq(B) /\ ls \in Seq(Seq(A)) /\ l \in B /\ l \in Seq(A)
      /\ feed \in Breaking /\ nn \in Seq(A) /\ break \in Seq(A) /\ <<>> \in Seq(A) /\ <<>> \in Seq(B)
  <2>1. "n" \in A /\ "r" \in A /\ feed \in Breaking /\ <<>> \in Seq(A) /\ <<>> \in Seq(B)
    BY DEF Atoms, Breaking
  <2> QED
    BY <2>1, TextLinesAreLines, BreakIsText
<1>2. t \in Seq(A)
  BY <1>1, TerminatedConcat
<1>3. k \in Seq(Seq(A)) /\ g \in Seq(Seq(A))
  BY <1>1, LinesType, UnreadType, ReadGap
<1>4. Lines(y) = k \o g
  <2>1. FrameShape(A, feed, l)
    <3>1. Terminated(<<>>, feed) = <<>>
      <4>1. feed \in Seq(A)
        BY <1>1
      <4> QED
        BY <1>1, <4>1, TerminatedOne
    <3>2. l = Terminated(<<>>, feed) \o l
      BY <1>1, <3>1, ConcatEmptySeq
    <3> HIDE DEF feed, B
    <3> QED
      BY <1>1, <3>2 DEF FrameShape, B
  <2>2. GapFollows(feed, l, <<>>)
    <3> HIDE DEF feed
    <3> QED
      BY <1>1, <2>1, FrameLines
  <2>3. feed \o feed = nn
    <3> DEFINE a == "n"
    <3>1. <<a>> \in Seq(A) /\ a \in A
      BY <1>1
    <3> HIDE DEF a
    <3>2. Append(<<a>>, a) = <<a, a>>
      BY <3>1, Twice
    <3> DEFINE o == <<a>>
    <3> HIDE DEF o
    <3>3. o \o <<a>> = Append(o, a)
      BY <3>1 DEF o
    <3>4. <<a>> \o <<a>> = <<a, a>>
      BY <3>2, <3>3 DEF o
    <3> QED
      BY <3>4 DEF a
  <2>4. y \in Seq(A)
    <3> HIDE DEF nn
    <3> QED
      BY <1>1, ConcatShape
  <2>5. y \o <<>> = y
    <3> HIDE DEF y
    <3> QED
      BY <2>4, ConcatEmptySeq
  <2>6. Lines(<<>>) = <<>>
    <3>1. OneLine(<<>>)
      BY DEF OneLine
    <3> QED
      BY <1>1, <3>1, LinesLast
  <2>7. Lines((l \o (feed \o feed)) \o <<>>) = (k \o g) \o Lines(<<>>)
    BY <2>2 DEF GapFollows
  <2> DEFINE kg == k \o g
  <2>8. kg \o <<>> = kg
    <3> HIDE DEF k, g
    <3>1. kg \in Seq(Seq(A))
      BY <1>3, ConcatShape
    <3> DEFINE V == Seq(A)
    <3> HIDE DEF kg, V
    <3>2. kg \in Seq(V)
      BY <3>1 DEF V
    <3> QED
      BY <3>2, ConcatEmptySeq
  <2> HIDE DEF kg, feed
  <2>9. Lines(y \o <<>>) = kg \o <<>>
    BY <2>3, <2>6, <2>7 DEF kg
  <2> QED
    BY <2>5, <2>8, <2>9 DEF kg
<1>5. Associates(t, l, nn)
  <2> HIDE DEF nn, t
  <2> QED
    BY <1>1, <1>2, ThreeInARow
<1>6. y \in Seq(A)
  <2> HIDE DEF nn
  <2> QED
    BY <1>1, ConcatShape
<1> HIDE DEF nn, y
<1>7. Lines(t \o y) = ls \o Lines(y) /\ Lines(t \o l) = ls \o k
  BY <1>1, <1>6, LinesTerminated DEF B
<1> HIDE DEF t, k, g
<1>8. Associates(ls, k, g)
  BY <1>1, <1>3, ThreeInARow
<1>9. (t \o l) \o nn = t \o y
  BY <1>5 DEF Associates, y
<1>10. Lines((t \o l) \o nn) = Lines(t \o l) \o g
  BY <1>4, <1>7, <1>8, <1>9 DEF Associates
<1> QED
  BY <1>10 DEF EndedLines, nn, g, t

(* The turn at the end of the body: what is left counts as a frame.        *)
LEMMA FollowedEnds ==
  ASSUME NEW b, NEW s \in Seq(Atoms), NEW ds, Followed(b, s, <<>>, ds), Separator(s) = 0
  PROVE  /\ ~Invalid(Data(s)) => Handled(Events(Ended(b)), ds \o Given(Data(s)))
         /\ Invalid(Data(s)) => Fails(Events(Ended(b)), ds)
<1> DEFINE A == Atoms
           nn == <<"n", "n">>
<1>1. PICK break \in Breaking, e \in Seq(STRING),
             q \in Seq(Atoms), ks \in Seq(Seq(Atoms)) :
        /\ Follows(b, break, e, <<>>, q, ks) /\ Damaged(s, e)
        /\ Handled(ReadLines(Unread, ks).events, ds)
  BY DEF Followed
<1> DEFINE m == ReadLines(Unread, ks)
           L == Lines(e)
           x == e \o nn
<1>2. /\ e \in Seq(STRING) /\ InLines(break, e) /\ b = q \o e
      /\ q \in Seq(A) /\ ks \in Seq(Seq(A)) /\ GoesOn(q, ks) /\ m.values = <<>>
  <2>1. e \in Seq(STRING)
    BY <1>1 DEF Follows
  <2>2. e \o <<>> = e
    BY <2>1, ConcatEmptySeq
  <2> QED
    BY <1>1, <2>1, <2>2 DEF Follows, Between
<1>3. PICK ls \in Seq(TextLine), l \in TextLine : e = Terminated(ls, break) \o l
  BY <1>2 DEF InLines
<1>4. STRING \subseteq A /\ e \in Seq(A) /\ nn \in Seq(A)
  <2>1. STRING \subseteq A /\ nn \in Seq(A)
    BY DEF Atoms
  <2> QED
    BY <1>2, <2>1, SeqOfMore
<1>5. Separator(e) = 0
  BY <1>1, <1>2, DamageCuts
<1>6. BlankFirst(L) /\ L \in Seq(Seq(A))
  BY <1>2, <1>5, RestOfLines, LinesAreTexts DEF Rewritable
<1>7. EachIn(Lines(s), L, DamagedTexts)
  <2>1. EachIn(s, e, Damage)
    BY <1>1, <1>4, DamageIsIn
  <2>2. ls \in Seq(LinesOver(A)) /\ l \in LinesOver(A)
    BY TextLinesAreLines
  <2> QED
    BY <1>3, <2>1, <2>2, LinesIn
<1>8. m \in States(A)
  BY <1>2, UnreadType, ReadType
<1> DEFINE z == ReadLine(ReadLines(m, L), <<>>)
<1>9. GivesAlike(z, ds, Data(s))
  <2> HIDE DEF m
  <2>1. Handled(m.events, ds)
    BY <1>1 DEF m
  <2> QED
    BY <1>2, <1>4, <1>6, <1>7, <1>8, <2>1, FrameGives
<1>10. Lines(x) = L \o Gap(l)
  <2>1. EndedLines(e, l)
    BY <1>3, LinesEnded
  <2> QED
    BY <2>1 DEF EndedLines
<1> HIDE DEF nn
<1>11. Ended(b) = q \o x /\ x \in Seq(A)
  <2>1. Associates(q, e, nn)
    BY <1>2, <1>4, ThreeInARow
  <2>2. x \in Seq(A)
    BY <1>4, ConcatShape
  <2> QED
    BY <1>2, <2>1, <2>2 DEF Associates, Ended, nn
<1> HIDE DEF x
<1>12. Lines(Ended(b)) = ks \o (L \o Gap(l))
  BY <1>2, <1>10, <1>11 DEF GoesOn
<1>13. ReadOver(Unread, ks, L, l)
  BY <1>2, <1>6, UnreadType, ReadFrame
<1>14. Events(Ended(b)) = z.events
  <2> HIDE DEF L
  <2> QED
    BY <1>12, <1>13 DEF Events, ReadOver
<1> HIDE DEF z
<1> QED
  BY <1>9, <1>14 DEF GivesAlike

-----------------------------------------------------------------------------
(* What a turn has given by then is what it should.                        *)
LEMMA HandledIsExpected ==
  ASSUME NEW E, NEW ds, Handled(E, ds)
  PROVE  /\ Len(ds) = Len(Texts(E)) /\ (ds = <<>> <=> Texts(E) = <<>>)
         /\ \A i \in DOMAIN ds : Damaged(ds[i], Texts(E)[i])
<1>1. /\ E \in Seq(Seq(Seq(Atoms))) /\ ds \in Seq(Seq(Atoms))
      /\ EachIn(ds, Texts(E), DamagedTexts)
  BY DEF Handled
<1>2. Texts(E) \in Seq(Seq(Atoms))
  <2>1. <<>> \in Seq(Seq(Atoms))
    OBVIOUS
  <2> QED
    BY <1>1, <2>1, TextsOfMore
<1> DEFINE T == Texts(E)
<1>3. Len(ds) = Len(T) /\ \A i \in 1..Len(ds) : <<ds[i], T[i]>> \in DamagedTexts
  BY <1>1 DEF EachIn
<1> HIDE DEF T
<1>4. DOMAIN ds = 1..Len(ds) /\ Len(ds) \in Nat
  BY <1>1
<1>5. ASSUME NEW i \in 1..Len(ds) PROVE Damaged(ds[i], T[i])
  <2>1. ds[i] \in Seq(Atoms) /\ T[i] \in Seq(Atoms)
    <3>1. i \in 1..Len(T)
      BY <1>3
    <3> QED
      BY <1>1, <1>2, <1>4, <3>1 DEF T
  <2>2. EachIn(ds[i], T[i], Damage)
    BY <1>3, <1>5 DEF DamagedTexts, Rows
  <2> QED
    BY <2>1, <2>2, DamageIsIn
<1>6. ds = <<>> <=> T = <<>>
  BY <1>1, <1>2, <1>3 DEF T
<1> QED
  BY <1>3, <1>4, <1>5, <1>6 DEF T

(* What a turn that has returned should have given.                        *)
Gives(stage, ds, expected) ==
  /\ stage = "invalid" <=> expected.invalid
  /\ stage = "empty" <=> ~expected.invalid /\ expected.deltas = <<>>
  /\ Len(ds) = Len(expected.deltas)
  /\ \A i \in DOMAIN ds : Damaged(ds[i], expected.deltas[i])

(* All events are JSON: their texts.                                       *)
LEMMA GivesWhole ==
  ASSUME NEW events, NEW ds, Handled(events, ds)
  PROVE  Gives(IF ds = <<>> THEN "empty" ELSE "ok", ds, Expected(events))
<1> DEFINE w == Expected(events)
           T == Texts(events)
<1>1. w = [deltas |-> T, invalid |-> FALSE]
  BY ExpectedWhole
<1>2. /\ Len(ds) = Len(T) /\ (ds = <<>> <=> T = <<>>)
      /\ \A i \in DOMAIN ds : Damaged(ds[i], T[i])
  BY HandledIsExpected
<1> HIDE DEF w, T
<1>3. w.deltas = T /\ w.invalid = FALSE
  BY <1>1
<1>4. Gives(IF ds = <<>> THEN "empty" ELSE "ok", ds, w)
  BY <1>2, <1>3 DEF Gives
<1> QED
  BY <1>4 DEF w

(* One is not: the texts of those before it, and an error.                 *)
LEMMA GivesFails ==
  ASSUME NEW events, NEW ds, Fails(events, ds)
  PROVE  Gives("invalid", ds, Expected(events))
<1>1. PICK E : Handled(E, ds) /\ Expected(events) = [deltas |-> Texts(E), invalid |-> TRUE]
  BY ExpectedFails
<1> DEFINE w == Expected(events)
           T == Texts(E)
<1>2. /\ Len(ds) = Len(T)
      /\ \A i \in DOMAIN ds : Damaged(ds[i], T[i])
  BY <1>1, HandledIsExpected
<1>3. w = [deltas |-> T, invalid |-> TRUE]
  BY <1>1
<1> HIDE DEF w, T
<1>4. w.deltas = T /\ w.invalid = TRUE
  BY <1>3
<1>5. Gives("invalid", ds, w)
  BY <1>2, <1>4 DEF Gives
<1> QED
  BY <1>5 DEF w

(* Until it returns, a turn has given the texts of the events of the body  *)
(* before what it holds.                                                   *)
TurnInv ==
  /\ ~Returned => Followed(body, buffer, From(body, taken + 1), deltas)
  /\ TurnReadsTheBody

(* Nothing is given at first.                                              *)
LEMMA NothingGiven ==
  ASSUME BodiesAreLines, SseInit
  PROVE  TurnInv
<1>1. /\ body \in Bodies /\ taken = 0 /\ buffer = <<>> /\ deltas = <<>> /\ reader = "polling"
      /\ body \in Seq(STRING)
  BY BodiesAssumption DEF SseInit, BodyInit, ReaderInit
<1>2. From(body, taken + 1) = body
  BY <1>1, SubSeqFull DEF From
<1>3. PICK break \in Breaking : InLines(break, body)
  BY <1>1 DEF BodiesAreLines
<1>4. Followed(body, <<>>, body, <<>>)
  BY <1>3, FollowedFirst
<1> QED
  BY <1>1, <1>2, <1>4 DEF TurnInv, TurnReadsTheBody, Returned

(* A turn returns having given what it should.                             *)
LEMMA Turned ==
  ASSUME body' = body, Returned', Gives(reader', deltas', Expected(Events(Ended(body))))
  PROVE  TurnInv'
<1> DEFINE w == Expected(Events(Ended(body)))
<1>1. w' = w
  BY DEF Expected, Events, Ended
<1> HIDE DEF w
<1>2. Gives(reader', deltas', w')
  BY <1>1 DEF w
<1>3. Agrees(w)'
  BY <1>2 DEF Agrees, Gives
<1> QED
  BY <1>3 DEF TurnInv, TurnReadsTheBody, w

(* Every step of the turn leaves it so.                                    *)
LEMMA TurnKept ==
  ASSUME HeldInv, TurnInv, [SseNext]_<<bodyVars, readerVars, rewriterVars>>
  PROVE  TurnInv'
<1> DEFINE d == Data(Frame(buffer))
           r == From(body, taken + 1)
<1>1. /\ body \in Seq(STRING) /\ taken \in 0..Len(body) /\ buffer \in Seq(Atoms)
      /\ reader = "polling" => Separator(buffer) = 0
  BY DEF HeldInv, PendingInv, BufferInv, Returned
<1>2. r \in Seq(STRING)
  <2>1. taken + 1 \in 1..(Len(body) + 1)
    BY <1>1
  <2> QED
    BY <1>1, <2>1, FromRest
<1> HIDE DEF d, r
<1>3. ASSUME NEW n \in 1..Len(body), Poll(n) PROVE TurnInv'
  <2> DEFINE c == Chunk(n)
             z == From(body', taken' + 1)
  <2>1. /\ n \in Nat \ {0} /\ Arrives(n) /\ buffer' = buffer \o Lossy(c) /\ deltas' = deltas
        /\ reader = "polling" /\ reader' = "draining" /\ body' = body
    BY <1>3 DEF Poll, Arrives
  <2>2. c \in Seq(STRING) /\ z \in Seq(STRING) /\ r = c \o z
    BY <1>1, <2>1, RestArrives DEF r
  <2>3. Followed(body, buffer, r, deltas)
    BY <2>1 DEF TurnInv, Returned, r
  <2> HIDE DEF c, z
  <2>4. Followed(body, buffer \o Lossy(c), z, deltas)
    BY <1>1, <2>2, <2>3, FollowedGrows
  <2>5. Followed(body', buffer', z, deltas')
    BY <2>1, <2>4
  <2> QED
    BY <2>1, <2>5 DEF TurnInv, TurnReadsTheBody, Returned, z
<1>4. ASSUME TakeFrame PROVE TurnInv'
  <2>1. /\ reader = "draining" /\ Separator(buffer) # 0 /\ body' = body /\ taken' = taken
        /\ buffer' = Behind(buffer)
        /\ deltas' = deltas \o (IF Invalid(d) THEN <<>> ELSE Given(d))
        /\ reader' = IF Invalid(d) THEN "invalid" ELSE "draining"
    BY <1>4 DEF TakeFrame, bodyVars, d
  <2>2. Followed(body, buffer, r, deltas)
    BY <2>1 DEF TurnInv, Returned, r
  <2>3. Taken(body, buffer, r, deltas)
    BY <1>1, <1>2, <2>1, <2>2, FrameTaken
  <2>4. CASE Invalid(d)
    <3>1. Fails(Events(Ended(body)), deltas)
      BY <1>2, <2>3, <2>4, FollowedFails DEF d
    <3>2. deltas' = deltas
      <4>1. deltas \in Seq(Seq(Atoms))
        BY <3>1 DEF Fails, Handled
      <4> QED
        BY <2>1, <2>4, <4>1, ConcatEmptySeq
    <3>3. Gives(reader', deltas', Expected(Events(Ended(body))))
      BY <2>1, <2>4, <3>1, <3>2, GivesFails
    <3>4. Returned' /\ body' = body
      BY <2>1, <2>4 DEF Returned
    <3> QED
      BY <3>3, <3>4, Turned
  <2>5. CASE ~Invalid(d)
    <3>1. Followed(body, Behind(buffer), r, deltas \o Given(d))
      BY <2>3, <2>5, FollowedTakes DEF d
    <3>2. Followed(body', buffer', From(body', taken' + 1), deltas')
      BY <2>1, <2>5, <3>1 DEF r
    <3> QED
      BY <2>1, <2>5, <3>2 DEF TurnInv, TurnReadsTheBody, Returned
  <2> QED
    BY <2>4, <2>5
<1>5. ASSUME Drained PROVE TurnInv'
  <2>1. /\ reader = "draining" /\ reader' = "polling"
        /\ UNCHANGED <<body, taken, buffer, deltas>>
    BY <1>5 DEF Drained, bodyVars
  <2>2. Followed(body, buffer, r, deltas)
    BY <2>1 DEF TurnInv, Returned, r
  <2>3. Followed(body', buffer', From(body', taken' + 1), deltas')
    BY <2>1, <2>2 DEF r
  <2> QED
    BY <2>1, <2>3 DEF TurnInv, TurnReadsTheBody, Returned
<1>6. ASSUME StreamEnds PROVE TurnInv'
  <2> DEFINE v == Data(buffer)
             w == Events(Ended(body))
  <2>1. /\ reader = "polling" /\ body' = body /\ taken = Len(body)
        /\ deltas' = deltas \o (IF Invalid(v) THEN <<>> ELSE Given(v))
        /\ reader' = IF Invalid(v) THEN "invalid" ELSE IF deltas' = <<>> THEN "empty" ELSE "ok"
    BY <1>6 DEF StreamEnds, Exhausted, bodyVars
  <2>2. r = <<>>
    <3>1. Len(body) + 1 \in Int /\ Len(body) \in Int /\ Len(body) < Len(body) + 1
      BY <1>1
    <3> QED
      BY <2>1, <3>1, SubSeqEmpty DEF From, r
  <2>3. Followed(body, buffer, <<>>, deltas) /\ Separator(buffer) = 0
    BY <1>1, <2>1, <2>2 DEF TurnInv, Returned, r
  <2>4. /\ ~Invalid(v) => Handled(w, deltas \o Given(v))
        /\ Invalid(v) => Fails(w, deltas)
    BY <1>1, <2>3, FollowedEnds
  <2> HIDE DEF v, w
  <2>5. CASE Invalid(v)
    <3>1. deltas' = deltas
      <4>1. deltas \in Seq(Seq(Atoms))
        BY <2>4, <2>5 DEF Fails, Handled
      <4> QED
        BY <2>1, <2>5, <4>1, ConcatEmptySeq
    <3>2. Gives(reader', deltas', Expected(w)) /\ Returned'
      BY <2>1, <2>4, <2>5, <3>1, GivesFails DEF Returned
    <3> QED
      BY <2>1, <3>2, Turned DEF w
  <2>6. CASE ~Invalid(v)
    <3>1. Handled(w, deltas')
      BY <2>1, <2>4, <2>6
    <3>2. reader' = IF deltas' = <<>> THEN "empty" ELSE "ok"
      BY <2>1, <2>6
    <3>3. Gives(reader', deltas', Expected(w)) /\ Returned'
      BY <3>1, <3>2, GivesWhole DEF Returned
    <3> QED
      BY <2>1, <3>3, Turned DEF w
  <2> QED
    BY <2>5, <2>6
<1>7. ASSUME TransportError PROVE TurnInv'
  BY <1>7 DEF TransportError, TurnInv, TurnReadsTheBody, Returned
<1>8. ASSUME UNCHANGED <<body, deltas, reader>>, Returned \/ UNCHANGED <<taken, buffer>> PROVE TurnInv'
  <2> DEFINE w == Expected(Events(Ended(body)))
  <2>1. w' = w
    BY <1>8 DEF Expected, Events, Ended
  <2> HIDE DEF w
  <2>2. Returned' <=> Returned
    BY <1>8 DEF Returned
  <2>3. Agrees(w)' <=> Agrees(w)
    BY <1>8, <2>1 DEF Agrees
  <2>4. TurnReadsTheBody'
    BY <1>8, <2>2, <2>3 DEF TurnInv, TurnReadsTheBody, w
  <2>5. ~Returned' => Followed(body', buffer', From(body', taken' + 1), deltas')
    BY <1>8, <2>2 DEF TurnInv
  <2> QED
    BY <2>4, <2>5 DEF TurnInv
<1>9. \/ [ReaderNext]_<<bodyVars, readerVars>>
      \/ Returned /\ UNCHANGED readerVars /\ \E n \in Nat \ {0} : Arrives(n)
  <2>1. CASE UNCHANGED <<bodyVars, readerVars, rewriterVars>>
    BY <2>1
  <2>2. CASE SseNext
    BY <1>1, <2>2, ReaderSteps
  <2> QED
    BY <2>1, <2>2
<1>10. CASE Returned /\ UNCHANGED readerVars /\ \E n \in Nat \ {0} : Arrives(n)
  BY <1>8, <1>10 DEF readerVars, Arrives
<1>11. CASE UNCHANGED <<bodyVars, readerVars>>
  BY <1>8, <1>11 DEF readerVars, bodyVars
<1> QED
  BY <1>3, <1>4, <1>5, <1>6, <1>7, <1>9, <1>10, <1>11 DEF ReaderNext

(* If an upstream sends lines of whole characters, a bridged turn hands on *)
(* the texts of the events of the whole body, and fails at the first that  *)
(* is not JSON, wherever the chunks end (drive_successful_stream,          *)
(* parse_sse_frame).                                                       *)
THEOREM TurnsReadTheBody == BodiesAreLines /\ SseSpec => []TurnReadsTheBody
<1>1. BodiesAreLines /\ SseInit => HeldInv /\ TurnInv
  BY NothingHeld, NothingGiven
<1>2. HeldInv /\ TurnInv /\ [SseNext]_<<bodyVars, readerVars, rewriterVars>>
        => HeldInv' /\ TurnInv'
  BY HeldKept, TurnKept
<1>3. TurnInv => TurnReadsTheBody
  BY DEF TurnInv
<1> QED
  BY <1>1, <1>2, <1>3, PTL DEF SseSpec
=============================================================================
