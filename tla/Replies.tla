------------------------------- MODULE Replies ------------------------------
(***************************************************************************)
(* What an upstream's answer becomes on its way to the client              *)
(* (src/src/bridge.rs).  An answer is the text of a turn, the thinking the *)
(* upstream reports apart from it and the calls it makes without XML; its  *)
(* text may begin with leaked thinking, which ends with a blank line or    *)
(* with the text.  A reply is a sequence of parts in the client's          *)
(* protocol.                                                               *)
(***************************************************************************)
EXTENDS Translation

Leak(word, ended) == [seg |-> "leak", word |-> word, ended |-> ended]

OfSeg(t, seg) == LET own == t IN Kept(own, {s \in Range(own) : s.seg = seg})
WithoutSeg(t, seg) == LET own == t IN Kept(own, {s \in Range(own) : s.seg # seg})
Leaked(t) == [i \in DOMAIN OfSeg(t, "leak") |-> Word(OfSeg(t, "leak")[i].word)]

NonEmptyText(t) == IF t = <<>> THEN <<>> ELSE <<TextPart(t)>>
NonEmptyThinking(t) == IF t = <<>> THEN <<>> ELSE <<ThinkingPart(t)>>

(* split_leading_thinking: only a thought that ended.                      *)
IsSplit(t) == t # <<>> /\ t[1].seg = "leak" /\ t[1].ended
SplitThinking(t) == IF IsSplit(t) THEN Leaked(<<t[1]>>) ELSE <<>>
SplitText(t) == IF IsSplit(t) THEN Tail(t) ELSE t

(* What the segments of an upstream's text can be, and the calls it makes  *)
(* without XML.                                                            *)
WordSegs == [seg : {"word"}, word : STRING]
CallSegs == [seg : {"call"}, name : STRING, arguments : STRING]
LeakSegs == [seg : {"leak"}, word : STRING, ended : BOOLEAN]
AnswerSegs == WordSegs \cup CallSegs \cup LeakSegs
CallParts == [type : {"call"}, id : STRING, name : STRING, arguments : STRING]

(* A mutant: the calls of an answer share an id.                           *)
CallsMutant(named, ids) ==
  [i \in DOMAIN named |-> CallPart(ids[1], named[i].name, named[i].arguments)]

(* The calls of an answer, each under an id of its own.                    *)
Calls(named, ids) == [i \in DOMAIN named |-> CallPart(ids[i], named[i].name, named[i].arguments)]

(* A mutant: the prose beside the calls is dropped.                        *)
NativeToolCallsResponseMutant(visible, calls, thinking) ==
  NonEmptyThinking(thinking) \o calls

(* native_tool_calls_response: thinking, prose, calls, in all protocols.   *)
NativeToolCallsResponse(visible, calls, thinking) ==
  NonEmptyThinking(thinking) \o NonEmptyText(visible) \o calls

(* chat_response_to_messages_body: the upstream's own thinking comes       *)
(* before what leaked into the text.                                       *)
ChatResponseToMessages(answer) ==
  LET thinking == IF answer.reasoning # <<>> THEN answer.reasoning ELSE SplitThinking(answer.text)
  IN  NonEmptyThinking(thinking) \o NonEmptyText(SplitText(answer.text)) \o answer.calls

(* structure_response_body: leaked thinking replaces a chat message's      *)
(* reasoning, stands beside a Messages thinking block, and is left out of  *)
(* a Responses body that has reasoning (prepend_response_reasoning).       *)
StructureResponseBody(protocol, upstream, answer) ==
  LET leaked == SplitThinking(answer.text)
      rest == NonEmptyText(SplitText(answer.text)) \o answer.calls
  IN  IF protocol # upstream THEN ChatResponseToMessages(answer)
      ELSE IF protocol = "chat"
           THEN NonEmptyThinking(IF leaked # <<>> THEN leaked ELSE answer.reasoning) \o rest
      ELSE IF protocol = "messages"
           THEN NonEmptyThinking(answer.reasoning) \o NonEmptyThinking(leaked) \o rest
      ELSE NonEmptyThinking(IF answer.reasoning # <<>> THEN answer.reasoning ELSE leaked) \o rest

(* bridge_json: an answer with calls in its text is built anew from the    *)
(* text; any other is restructured.                                        *)
BridgeJson(protocol, upstream, answer, ids) ==
  LET named == OfSeg(answer.text, "call")
      visible == WithoutSeg(answer.text, "call")
  IN  IF named = <<>> THEN StructureResponseBody(protocol, upstream, answer)
      ELSE NativeToolCallsResponse(SplitText(visible), Calls(named, ids), SplitThinking(visible))

(* External: the events of an answer that is streamed, each with the field *)
(* that holds its string.  A Responses upstream sends every text twice: in *)
(* deltas, and whole when it is done.                                      *)
Event(field, text) == [field |-> field, text |-> text]
StreamOf(upstream, answer) ==
  LET arguments == [i \in DOMAIN answer.calls |-> Word(answer.calls[i].arguments)]
  IN  IF upstream = "chat"
      THEN <<Event("reasoning_content", answer.reasoning), Event("content", answer.text),
             Event("arguments", arguments)>>
      ELSE IF upstream = "messages"
      THEN <<Event("thinking", answer.reasoning), Event("text", answer.text),
             Event("partial_json", arguments)>>
      ELSE <<Event("delta", answer.reasoning), Event("text", answer.reasoning),
             Event("delta", answer.text), Event("text", answer.text),
             Event("delta", arguments), Event("arguments", arguments)>>

(* extract_stream_delta: of a Responses event any string under one of      *)
(* these fields, whatever the event is about.                              *)
DeltaFields(upstream) ==
  IF upstream = "chat" THEN {"content"}
  ELSE IF upstream = "messages" THEN {"text"} ELSE {"delta", "text", "output_text"}
ExtractStreamDelta(upstream, event) ==
  IF event.field \in DeltaFields(upstream) THEN event.text ELSE <<>>
StreamText(upstream, answer) ==
  LET events == StreamOf(upstream, answer)
  IN  FlattenSeq([i \in DOMAIN events |-> ExtractStreamDelta(upstream, events[i])])

(* ThinkingSplitter: leaked thinking ends with its blank line or else with *)
(* the text, and only what begins the text is looked at.                   *)
ThoughtLength(t) ==
  IF t = <<>> \/ t[1].seg # "leak" THEN 0 ELSE IF t[1].ended THEN 1 ELSE Len(t)

(* stream_once: what a client puts together of a bridged stream.           *)
BridgeStream(upstream, answer, ids) ==
  LET text == StreamText(upstream, answer)
      visible == WithoutSeg(text, "call")
      thought == [i \in 1..ThoughtLength(visible) |-> Word(visible[i].word)]
  IN  NativeToolCallsResponse(From(visible, ThoughtLength(visible) + 1),
                              Calls(OfSeg(text, "call"), ids), thought)

(* passthrough: the upstream's own parts.                                  *)
Passthrough(answer) ==
  NonEmptyThinking(answer.reasoning) \o NonEmptyText(answer.text) \o answer.calls
=============================================================================
