------------------------------- MODULE XmlText ------------------------------
(***************************************************************************)
(* Text as the tool-call scanner and the XML parser look at it             *)
(* (src/src/xml_protocol.rs, src/src/stream.rs).  A text is a sequence of  *)
(* atoms: "<", "/", ">", the names of tags, "[[" and "]]" for the CDATA    *)
(* brackets, "name=" for the name of a tag's one attribute, whose value is *)
(* the next atom, and anything else for a word.  A chunk may end between   *)
(* any two atoms, so inside a tag; a cut inside a name is held by the      *)
(* scanner exactly as a cut before it.                                     *)
(*                                                                         *)
(* Left out: self-closing tags, a bracket inside a tag, white space, other *)
(* attributes and the aliases of names, arguments in tags of their own     *)
(* name, JSON repair, and the reading of function calls by an XML parser,  *)
(* which finds in well-formed ones what the lenient reading finds.         *)
(***************************************************************************)
EXTENDS TextLines

Tag(n) == <<"<", n, ">">>
Closer(n) == <<"<", "/", n, ">">>

Boundary == {">", "name="}
Opens(t, i, names) == i + 2 <= Len(t) /\ t[i] = "<" /\ t[i + 1] \in names /\ t[i + 2] \in Boundary
Closes(t, i, names) ==
  i + 3 <= Len(t) /\ t[i] = "<" /\ t[i + 1] = "/" /\ t[i + 2] \in names /\ t[i + 3] = ">"

FindOpen(t, names, from) == FirstOf({i \in from..Len(t) : Opens(t, i, names)})
FindClose(t, names, from) == FirstOf({i \in from..Len(t) : Closes(t, i, names)})
FindTag(t, name, from) == FirstOf({i \in from..Len(t) : Opens(t, i, {name}) /\ t[i + 2] = ">"})
FindAtom(t, atoms) == FirstOf({i \in DOMAIN t : t[i] \in atoms})

(* The end of an opening tag, and the value of its attribute.              *)
TagEnd(t, open) == FirstOf({i \in (open + 2)..Len(t) : t[i] = ">"})
Attribute(t, open) == IF t[open + 2] = "name=" THEN <<t[open + 3]>> ELSE <<>>

(* str::find for the last position of what is found, or 0.                 *)
CloseEnd(t, names, from) ==
  FirstOf({i \in from..Len(t) : i >= from + 3 /\ Closes(t, i - 3, names)})

-----------------------------------------------------------------------------
(* The fragment locator.  A fragment is the pair of its first and its last *)
(* position.                                                               *)

NoFragment == [first |-> 0, last |-> 0]

Leftmost(fragments) ==
  IF fragments = {} THEN NoFragment
  ELSE CHOOSE f \in fragments : \A g \in fragments : f.first <= g.first

(* From its opening tag to its end, or, if an open end is allowed, to the  *)
(* end of the text.                                                        *)
Upto(t, first, end, allowIncomplete) ==
  IF end # 0 THEN [first |-> first, last |-> end]
  ELSE IF allowIncomplete THEN [first |-> first, last |-> Len(t)]
  ELSE NoFragment

Wrappers == {"tool_call", "function_calls", "invoke"}
ArgumentTags == {"arguments", "args", "input", "parameters"}

(* next_wrapped_tool_fragment: the first wrapper only, complete or not.    *)
WrappedAt(t, first, allowIncomplete) ==
  IF first = 0 \/ TagEnd(t, first) = 0 THEN NoFragment
  ELSE Upto(t, first, CloseEnd(t, {t[first + 1]}, first + 3), allowIncomplete)

NextWrapped(t, cursor, allowIncomplete) ==
  WrappedAt(t, FindOpen(t, Wrappers, cursor), allowIncomplete)

(* find_orphan_content_end: the last position of the arguments that open   *)
(* at `from`: that of a closing tag, or the one before an opening tag.     *)
OrphanEnd(t, from) ==
  FirstOf({i \in from..Len(t) :
             \/ i >= from + 3 /\ Closes(t, i - 3, ArgumentTags \cup {"tool_call"})
             \/ Opens(t, i + 1, Wrappers \cup {"name"})})

(* next_orphan_tool_fragment: a name element with arguments right behind.  *)
OrphanAt(t, first, nameEnd, allowIncomplete) ==
  IF nameEnd # 0 /\ Opens(t, nameEnd + 1, ArgumentTags)
  THEN Upto(t, first, OrphanEnd(t, nameEnd + 1), allowIncomplete)
  ELSE NoFragment

NextOrphan(t, cursor, allowIncomplete) ==
  Leftmost({OrphanAt(t, i, CloseEnd(t, {"name"}, i + 3), allowIncomplete)
              : i \in {i \in cursor..Len(t) : Opens(t, i, {"name"})}} \ {NoFragment})

(* next_tool_fragment: a wrapped fragment hides the orphans behind its     *)
(* start.                                                                  *)
Before(t, fragment) == IF fragment = NoFragment THEN t ELSE SubSeq(t, 1, fragment.first - 1)

OrphanOr(wrapped, t, cursor, allowIncomplete) ==
  Leftmost({wrapped, NextOrphan(Before(t, wrapped), cursor, allowIncomplete)} \ {NoFragment})

NextFragment(t, cursor, allowIncomplete) ==
  OrphanOr(NextWrapped(t, cursor, allowIncomplete), t, cursor, allowIncomplete)

-----------------------------------------------------------------------------
(* What a fragment means.                                                  *)

Call(name, arguments) == [what |-> "call", name |-> name, arguments |-> arguments]

OrElse(reading, other) == IF reading # <<>> THEN reading ELSE other

(* strip_cdata_lenient                                                     *)
Unwrapped(raw) ==
  IF raw = <<>> \/ Head(raw) # "[[" THEN raw
  ELSE IF Last(raw) = "]]" THEN SubSeq(raw, 2, Len(raw) - 1) ELSE Tail(raw)

(* parse_strict_tool_call: the block the prompt asks for, where it is      *)
(* well-formed XML.                                                        *)
StrictHead == Tag("tool_call") \o Tag("name")
StrictTail == Closer("arguments") \o Closer("tool_call")

Literal(raw) ==
  \/ \A i \in DOMAIN raw : raw[i] \notin {"<", "[[", "]]"}
  \/ /\ Len(raw) >= 2 /\ raw[1] = "[[" /\ raw[Len(raw)] = "]]"
     /\ \A i \in 2..(Len(raw) - 1) : raw[i] # "]]"

Strict(f, nameClose) ==
  LET name == SubSeq(f, 7, nameClose - 1)
      arguments == SubSeq(f, nameClose + 7, Len(f) - Len(StrictTail))
  IN  IF /\ IsPrefix(StrictHead, f) /\ IsSuffix(StrictTail, f)
         /\ nameClose # 0 /\ Opens(f, nameClose + 4, {"arguments"})
         /\ Literal(name) /\ Literal(arguments)
      THEN <<Call(name, Unwrapped(arguments))>> ELSE <<>>

(* The fast path of parse_lenient_tool_call: the first name element and    *)
(* the arguments up to their closing tag, or else to the end of the call.  *)
ArgumentsEnd(f, close, outer) ==
  IF close # 0 THEN close - 1 ELSE IF outer # 0 THEN outer - 1 ELSE Len(f)

ArgumentsAt(f, open) ==
  IF open = 0 THEN <<>>
  ELSE Unwrapped(SubSeq(f, TagEnd(f, open) + 1, ArgumentsEnd(f, FindClose(f, {"arguments"}, open + 3),
                                                  FindClose(f, {"tool_call"}, open + 3))))

Lenient(f, open, close) ==
  IF open = 0 \/ close = 0 THEN <<>>
  ELSE <<Call(SubSeq(f, open + 3, close - 1), ArgumentsAt(f, FindOpen(f, {"arguments"}, 1)))>>

(* The body without its opening tag and its last closing one.              *)
FallbackBody(f) ==
  LET body == From(f, FindAtom(f, {">"}) + 1)
      closers == {i \in DOMAIN body : Closes(body, i, {"tool_call"})}
  IN  IF closers = {} THEN body ELSE SubSeq(body, 1, Max(closers) - 1)

(* No name element: the first tag, or the whole text, names the tool.      *)
Fallback(body, lt) ==
  LET first == IF lt \in {0, Len(body)} \/ body[lt] = "[[" THEN "/" ELSE body[lt + 1]
  IN  IF first \in {"tool_call", "name", "arguments", "function_calls"} THEN <<>>
      ELSE IF first \notin {"/", ">"} THEN <<Call(<<first>>, <<>>)>>
      ELSE IF body = <<>> THEN <<>> ELSE <<Call(body, <<>>)>>

(* An element of an answer that leaves out closing tags: its body ends at  *)
(* its own closing tag, or before the next element, or with the text.      *)
BodyEnd(t, close, next) == IF close # 0 THEN close - 1 ELSE IF next # 0 THEN next - 1 ELSE Len(t)
BehindElement(t, close, next) == IF close # 0 THEN close + 4 ELSE IF next # 0 THEN next ELSE Len(t) + 1

(* strip_cdata                                                             *)
StripCdata(raw) ==
  IF Len(raw) >= 2 /\ Head(raw) = "[[" /\ Last(raw) = "]]" THEN Unwrapped(raw) ELSE raw

(* parse_parameter_tags_lenient: the named values, as the words of an      *)
(* object; a name that comes again overwrites its value.                   *)
ParameterTags == {"parameter", "param"}
ParameterPairs(body) ==
  LET from[open \in 0..Len(body)] ==
        LET close == FindClose(body, {"parameter"}, TagEnd(body, open) + 1)
            next == FindOpen(body, ParameterTags, TagEnd(body, open) + 1)
            value == StripCdata(SubSeq(body, TagEnd(body, open) + 1, BodyEnd(body, close, next)))
        IN  IF open = 0 \/ TagEnd(body, open) = 0 THEN <<>>
            ELSE (IF Attribute(body, open) = <<>> THEN <<>>
                  ELSE <<[name |-> Attribute(body, open), value |-> value]>>)
                 \o from[FindOpen(body, ParameterTags, BehindElement(body, close, next))]
  IN  from[FindOpen(body, ParameterTags, 1)]
Parameters(body) ==
  LET pairs == ParameterPairs(body)
      kept == {i \in DOMAIN pairs : \A j \in DOMAIN pairs : pairs[j].name = pairs[i].name => j <= i}
  IN  FlattenSeq([i \in DOMAIN pairs |-> IF i \in kept THEN pairs[i].name \o pairs[i].value ELSE <<>>])

(* parse_tool_call_attributes: the tag itself names the tool; its body     *)
(* ends at the first closing tag only if that is its own (outer_tag_body). *)
OuterBody(f, open) ==
  LET body == From(f, TagEnd(f, open) + 1)
      lt == FirstOf({i \in 1..(Len(body) - 1) : body[i] = "<" /\ body[i + 1] = "/"})
  IN  IF lt # 0 /\ Closes(body, lt, {"tool_call"}) THEN SubSeq(body, 1, lt - 1) ELSE body
Attributed(f, open) ==
  IF open = 0 \/ TagEnd(f, open) = 0 \/ Attribute(f, open) = <<>> THEN <<>>
  ELSE <<Call(Attribute(f, open), Parameters(OuterBody(f, open)))>>

(* parse_function_calls_lenient: invoke after invoke, each named by its    *)
(* tag or by a name element inside.                                        *)
NameInside(body) ==
  LET open == FindTag(body, "name", 1)
      close == FindClose(body, {"name"}, open + 3)
  IN  IF open = 0 \/ close = 0 THEN <<>> ELSE StripCdata(SubSeq(body, open + 3, close - 1))
Invoked(name, body) == IF name = <<>> THEN <<>> ELSE <<Call(name, Parameters(body))>>
FunctionCalls(f) ==
  LET from[open \in 0..Len(f)] ==
        LET close == FindClose(f, {"invoke"}, TagEnd(f, open) + 1)
            next == FindOpen(f, {"invoke"}, TagEnd(f, open) + 1)
            body == SubSeq(f, TagEnd(f, open) + 1, BodyEnd(f, close, next))
        IN  IF open = 0 \/ TagEnd(f, open) = 0 THEN <<>>
            ELSE Invoked(OrElse(Attribute(f, open), NameInside(body)), body)
                 \o from[FindOpen(f, {"invoke"}, BehindElement(f, close, next))]
  IN  from[FindOpen(f, {"invoke"}, 1)]

(* parse_tool_call_fragment: the first reading that yields a call.         *)
LenientAt(f, open) == Lenient(f, open, FindClose(f, {"name"}, open + 3))

ParseFragment(f) ==
  OrElse(Strict(f, FindClose(f, {"name"}, 1)),
  OrElse(Attributed(f, FindOpen(f, {"tool_call"}, 1)),
  OrElse(FunctionCalls(f),
  OrElse(LenientAt(f, FindTag(f, "name", 1)),
         Fallback(FallbackBody(f), FindAtom(FallbackBody(f), {"<", "[["}))))))

(* parse_tool_calls: fragment after fragment; one that means nothing is    *)
(* stepped into.                                                           *)
ParseToolCalls(t) ==
  LET from[cursor \in 1..(Len(t) + 1)] ==
        LET after(f, calls) ==
              IF calls = <<>> THEN from[f.first + 1] ELSE calls \o from[f.last + 1]
            at(f) == IF f = NoFragment THEN <<>>
                     ELSE after(f, ParseFragment(SubSeq(t, f.first, f.last)))
        IN  at(NextFragment(t, cursor, TRUE))
  IN  from[1]

(* remove_tool_call_fragments                                              *)
RemoveFragments(t) ==
  LET from[cursor \in 1..(Len(t) + 1)] ==
        LET at(f) == IF f = NoFragment THEN From(t, cursor)
                     ELSE SubSeq(t, cursor, f.first - 1) \o from[f.last + 1]
        IN  at(NextFragment(t, cursor, TRUE))
  IN  from[1]
=============================================================================
