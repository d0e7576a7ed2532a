------------------------------- MODULE SseBody ------------------------------
(***************************************************************************)
(* An upstream's event stream and what the program reads in it.  The bytes *)
(* are a sequence of atoms: "n" and "r" are the line feed and the carriage *)
(* return; "data:" begins a data line and "ev" stands for any other line;  *)
(* "[DONE]" is itself.  A JSON value is an opening half that holds its     *)
(* model, "json" the upstream's and "own" the client's, the characters of  *)
(* its delta, and "end".  "c1" "c2" is one character of two bytes.  A      *)
(* chunk may end between any two atoms; a cut inside one shows only when   *)
(* the atom is complete, except in a character, which is why that one has  *)
(* two.                                                                    *)
(***************************************************************************)
EXTENDS TextLines

CONSTANT Bodies          \* the bodies an upstream may send

ASSUME BodiesAssumption == \A b \in Bodies : b \in Seq(STRING)

VARIABLES body,          \* the bytes the upstream is sending
          taken          \* how many of them have arrived

bodyVars == <<body, taken>>

Characters == {"a", "c1", "c2", "?"}

(* All atoms.  Those that the program writes are named, because a prover   *)
(* does not know of a literal that it is in STRING.                        *)
Atoms == STRING \cup {"?", "n", "r", "data:", "own"}

IsDataLine(l) == l # <<>> /\ Head(l) = "data:"

(* A JSON value, as serde_json accepts it: white space around it and after *)
(* the opening half, none among the characters of the string.              *)
IsJson(p) ==
  LET v == Trim(p)
  IN  /\ Len(v) >= 2 /\ Head(v) \in {"json", "own"} /\ Last(v) = "end"
      /\ \A i \in 2..(Len(v) - 1) :
           \/ v[i] \in Characters
           \/ v[i] \in Blanks /\ \A j \in 2..i : v[j] \in Blanks

(* The string that extract_stream_delta finds in a value, under whatever   *)
(* key (ExtractStreamDelta of Replies has the keys); possibly none.        *)
Delta(p) == Kept(p, Characters)

(* The data of a frame: its data lines, each trimmed, joined by a feed.    *)
DataOf(l) == IF IsDataLine(l) THEN <<Trim(Tail(l))>> ELSE <<>>
DataLines(ls) == FlattenSeq([i \in DOMAIN ls |-> DataOf(ls[i])])
Data(frame) == Join(DataLines(Lines(frame)))

(* String::from_utf8_lossy, of one chunk: a half of a character becomes    *)
(* the replacement character.                                              *)
Lossy(s) ==
  [i \in DOMAIN s |->
     IF \/ s[i] = "c1" /\ ~(i < Len(s) /\ s[i + 1] = "c2")
        \/ s[i] = "c2" /\ ~(i > 1 /\ s[i - 1] = "c1")
     THEN "?" ELSE s[i]]

-----------------------------------------------------------------------------
(* The complete frames of a text, and what is left behind the last one.    *)
Frames(t) ==
  LET from[i \in 1..(Len(t) + 1)] ==
        LET then(rest, at) ==
              IF at = 0 THEN <<>>
              ELSE <<SubSeq(rest, 1, at - 1)>> \o from[i + at - 1 + SeparatorLength(rest, at)]
            cut(rest) == then(rest, Separator(rest))
        IN  cut(From(t, i))
  IN  from[1]

-----------------------------------------------------------------------------
BodyInit == body \in Bodies /\ taken = 0

(* The next chunk of n bytes.                                              *)
Chunk(n) == SubSeq(body, taken + 1, taken + n)
Arrives(n) ==
  /\ taken + n <= Len(body)
  /\ taken' = taken + n
  /\ UNCHANGED body

Exhausted == taken = Len(body)
=============================================================================
