------------------------------ MODULE TextLines -----------------------------
(***************************************************************************)
(* Texts as sequences of atoms, and what the program's string functions    *)
(* find in them: "n" and "r" are the line feed and the carriage return,    *)
(* " " a space; what the other atoms are is up to the module that uses     *)
(* them.                                                                   *)
(***************************************************************************)
EXTENDS Naturals, SequencesExt

Blanks == {"n", "r", " "}

(* Positions are found as str::find does: the first one, or 0.             *)
FirstOf(places) == IF places = {} THEN 0 ELSE Min(places)
From(t, i) == SubSeq(t, i, Len(t))

(* The items of a sequence that are in a set, in their order.              *)
Kept(t, S) == FlattenSeq([i \in DOMAIN t |-> IF t[i] \in S THEN <<t[i]>> ELSE <<>>])

LfLf(t, i) == i + 1 <= Len(t) /\ t[i] = "n" /\ t[i + 1] = "n"
CrlfCrlf(t, i) ==
  i + 3 <= Len(t) /\ t[i] = "r" /\ t[i + 1] = "n" /\ t[i + 2] = "r" /\ t[i + 3] = "n"

(* A mutant: only line feeds separate frames.                              *)
SeparatorMutant(t) == FirstOf({i \in DOMAIN t : LfLf(t, i)})

(* find_sse_separator: the first blank line, in either spelling.           *)
Separator(t) == FirstOf({i \in DOMAIN t : LfLf(t, i) \/ CrlfCrlf(t, i)})
SeparatorLength(t, at) == IF LfLf(t, at) THEN 2 ELSE 4

Frame(t) == SubSeq(t, 1, Separator(t) - 1)
SeparatorOf(t) == SubSeq(t, Separator(t), Separator(t) + SeparatorLength(t, Separator(t)) - 1)
Behind(t) == From(t, Separator(t) + SeparatorLength(t, Separator(t)))

(* str::lines: the carriage return before a line feed belongs to the break.*)
Chomp(l) == IF l # <<>> /\ Last(l) = "r" THEN Front(l) ELSE l
Lines(t) ==
  LET from[i \in 1..(Len(t) + 1)] ==
        LET upto(e) == IF e = 0 THEN <<From(t, i)>>
                       ELSE <<Chomp(SubSeq(t, i, e - 1))>> \o from[e + 1]
        IN  IF i > Len(t) THEN <<>> ELSE upto(FirstOf({j \in i..Len(t) : t[j] = "n"}))
  IN  from[1]

Join(ls) == FlattenSeq([i \in DOMAIN ls |-> IF i = 1 THEN ls[i] ELSE <<"n">> \o ls[i]])

(* str::trim.                                                              *)
Trim(t) ==
  LET solid == {i \in DOMAIN t : t[i] \notin Blanks}
  IN  IF solid = {} THEN <<>> ELSE SubSeq(t, Min(solid), Max(solid))
=============================================================================
