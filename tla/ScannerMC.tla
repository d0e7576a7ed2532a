------------------------------ MODULE ScannerMC -----------------------------
(***************************************************************************)
(* Documents for the scanner, made of segments: words of prose, one with a *)
(* stray bracket, an arguments element of no call, and tool calls as the   *)
(* prompt asks for them or, without their wrapper or in the spellings they *)
(* know from elsewhere, as models leak them.                               *)
(***************************************************************************)
EXTENDS Scanner

Inner(tool, arguments) ==
  Tag("name") \o <<tool>> \o Closer("name") \o Tag("arguments") \o arguments \o Closer("arguments")

Wrapped(tool, arguments) == Tag("tool_call") \o Inner(tool, arguments) \o Closer("tool_call")

Prose == <<"plan">>
Stray == <<"a", "<", "b">>
Loose == Tag("arguments") \o <<"x">> \o Closer("arguments")
ReadFile(call(_, _)) == call("Read", <<"[[", "f", "]]">>)
GrepFor(call(_, _)) == call("Grep", <<"q">>)
Calls(call(_, _)) == {ReadFile(call), GrepFor(call)}

(* A tag with an attribute, and calls whose tags name their tools.         *)
NamedTag(tag, name) == <<"<", tag, "name=", name, ">">>
Parameter(name, value) == NamedTag("parameter", name) \o value \o Closer("parameter")
Named(tool, arguments) ==
  NamedTag("tool_call", tool) \o Parameter("p", arguments) \o Closer("tool_call")
Invoke(tool, arguments) ==
  NamedTag("invoke", tool) \o Parameter("p", arguments) \o Parameter("r", <<"s">>) \o Closer("invoke")
Invokes ==
  Tag("function_calls") \o ReadFile(Invoke) \o GrepFor(Invoke) \o Closer("function_calls")

Joined(calls, most) == {FlattenSeq(s) : s \in BoundedSeq(calls \cup {Prose, Stray, Loose}, most)}

(* Calls in their wrapper, calls without it, and calls in other spellings; *)
(* the three are not mixed.                                                *)
WellFormed ==
  Joined(Calls(Wrapped), 3) \cup Joined(Calls(Inner), 3)
  \cup Joined({Invokes, ReadFile(Invoke), GrepFor(Named)}, 2)

(* Prose that mentions a name element, or follows a call without wrapper,  *)
(* before a call in its wrapper.                                           *)
Mixed == {s \o Prose \o Wrapped("Grep", <<"q">>) : s \in {Tag("name"), Inner("Read", <<"f">>)}}

(* A call whose arguments, in CDATA, hold markup of their own: the file to *)
(* write mentions a closing tag of a form field.                           *)
MarkupInside == {Wrapped("Write", <<"[[", "a">> \o Closer("input") \o <<"b", "]]">>)}
=============================================================================
