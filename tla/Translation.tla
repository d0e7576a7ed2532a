----------------------------- MODULE Translation ----------------------------
(***************************************************************************)
(* What a request becomes on its way to an upstream (prepare_tool_request  *)
(* and translate_request_body, src/src/bridge.rs).  A text is a sequence   *)
(* of segments: words, tool calls and tool results in XML, the tool prompt *)
(* and leaked thinking.  A message is a role and its parts: the content of *)
(* a chat message and its tool calls, one item of a Responses input, or    *)
(* the content blocks of a Messages message.  Where calls stand beside it, *)
(* the content of a chat message is a string (TextPart) or an array of     *)
(* parts (ContentPart); elsewhere the bridge does not tell them apart.     *)
(***************************************************************************)
EXTENDS TextLines

Word(w) == [seg |-> "word", word |-> w]
CallXml(name, arguments) == [seg |-> "call", name |-> name, arguments |-> arguments]
ResultXml(name, ok, content) == [seg |-> "result", name |-> name, ok |-> ok, content |-> content]
PromptXml(tools) == [seg |-> "prompt", tools |-> tools]

TextPart(t) == [type |-> "text", text |-> t]
ContentPart(t) == [type |-> "content", text |-> t]
ThinkingPart(t) == [type |-> "thinking", text |-> t]
ImagePart(source) == [type |-> "image", source |-> source]
CallPart(id, name, arguments) ==
  [type |-> "call", id |-> id, name |-> name, arguments |-> arguments]
ResultPart(id, content, objects) ==
  [type |-> "result", id |-> id, content |-> content, objects |-> objects]

Message(role, parts) == [role |-> role, parts |-> parts]

OfType(parts, type) == LET own == parts IN Kept(own, {p \in Range(own) : p.type = type})
PartsOf(messages) == FlattenSeq([i \in DOMAIN messages |-> messages[i].parts])
TextOf(parts) ==
  LET texts == OfType(parts, "text") IN FlattenSeq([i \in DOMAIN texts |-> texts[i].text])

-----------------------------------------------------------------------------
(* collect_tools: a tool is spelled with its function inside ("nested"),   *)
(* as Messages has it ("named") or as Responses has it ("flat"), which is  *)
(* passed over.                                                            *)
CollectTools(tools) == Kept(tools, {t \in Range(tools) : t.spelling # "flat"})

(* request_has_tools, contains_tool_result                                 *)
HasResult(messages) == OfType(PartsOf(messages), "result") # <<>>

(* A mutant: a request without tools is not searched for results.          *)
NeedsToolBridgeMutant(tools, messages) == tools # <<>>

NeedsToolBridge(tools, messages) == tools # <<>> \/ HasResult(messages)

(* value_indicates_error: the objects of a result, those nested in it      *)
(* included, are functions from keys to values.                            *)
Holds(o, key, values) == key \in DOMAIN o /\ o[key] \in values
ExitCode(o) ==
  IF "exit_code" \in DOMAIN o THEN o["exit_code"]
  ELSE IF "exitCode" \in DOMAIN o THEN o["exitCode"] ELSE 0
IndicatesError(objects) ==
  \E o \in Range(objects) :
    \/ Holds(o, "is_error", {TRUE}) \/ Holds(o, "error", {TRUE})
    \/ Holds(o, "status", {"error", "failed", "failure"})
    \/ ExitCode(o) # 0

(* A mutant: results are named after the call at their place.              *)
NameOfCallMutant(calls, id) == IF calls = <<>> THEN id ELSE calls[1].name

(* The name of the last call of the history that has the result's id, or   *)
(* the id where no call has it.                                            *)
NameOfCall(calls, id) ==
  LET same == Kept(calls, {c \in Range(calls) : c.id = id})
  IN  IF same = <<>> THEN id ELSE Last(same).name

ResultOf(part, calls) ==
  ResultXml(NameOfCall(calls, part.id), ~IndicatesError(part.objects), part.content)

(* rewrite_chat_tool_results: the calls of a message go behind its         *)
(* content, which is lost unless it is a string, and a tool message        *)
(* becomes the user's.                                                     *)
ChatText(message, calls) ==
  IF message.role = "tool" THEN <<ResultOf(message.parts[1], calls)>>
  ELSE LET own == OfType(message.parts, "call")
       IN  TextOf(message.parts) \o [i \in DOMAIN own |-> CallXml(own[i].name, own[i].arguments)]
ChatRewritten(message, calls) ==
  IF message.role = "tool" THEN Message("user", <<TextPart(ChatText(message, calls))>>)
  ELSE IF OfType(message.parts, "call") = <<>> THEN message
  ELSE Message(message.role, OfType(message.parts, "thinking") \o <<TextPart(ChatText(message, calls))>>)
RewriteChatToolResults(messages) ==
  [i \in DOMAIN messages |-> ChatRewritten(messages[i], OfType(PartsOf(messages), "call"))]

(* rewrite_responses_tool_results: every item is one part.                 *)
ItemRewritten(item, calls) ==
  LET part == item.parts[1]
  IN  IF part.type = "call" THEN Message("assistant", <<TextPart(<<CallXml(part.name, part.arguments)>>)>>)
      ELSE IF part.type = "result" THEN Message("user", <<TextPart(<<ResultOf(part, calls)>>)>>)
      ELSE item
RewriteResponsesToolResults(items) ==
  [i \in DOMAIN items |-> ItemRewritten(items[i], OfType(PartsOf(items), "call"))]

(* rewrite_messages_tool_results: every block stays in its place.          *)
BlockRewritten(part, calls) ==
  IF part.type = "call" THEN TextPart(<<CallXml(part.name, part.arguments)>>)
  ELSE IF part.type = "result" THEN TextPart(<<ResultOf(part, calls)>>)
  ELSE part
BlocksRewritten(parts, calls) == [i \in DOMAIN parts |-> BlockRewritten(parts[i], calls)]
RewriteMessagesToolResults(messages) ==
  [i \in DOMAIN messages |->
     [messages[i] EXCEPT !.parts = BlocksRewritten(@, OfType(PartsOf(messages), "call"))]]

RewriteToolResults(protocol, messages) ==
  IF protocol = "chat" THEN RewriteChatToolResults(messages)
  ELSE IF protocol = "responses" THEN RewriteResponsesToolResults(messages)
  ELSE RewriteMessagesToolResults(messages)

-----------------------------------------------------------------------------
(* A body: its system text, which in a Responses body are the instructions *)
(* and in a chat body does not exist, its messages and its tools.          *)
Body(system, messages, tools) == [system |-> system, messages |-> messages, tools |-> tools]

(* A mutant: the prompt takes the place of the client's own instructions.  *)
InjectSystemPromptMutant(protocol, body, prompt) ==
  IF protocol = "chat" THEN [body EXCEPT !.messages = <<Message("system", <<TextPart(prompt)>>)>> \o @]
  ELSE [body EXCEPT !.system = prompt]

(* inject_system_prompt: behind the system messages a chat begins with, or *)
(* behind the client's instructions.                                       *)
InjectSystemPrompt(protocol, body, prompt) ==
  LET others == {i \in DOMAIN body.messages : body.messages[i].role # "system"}
      at == IF others = {} THEN Len(body.messages) + 1 ELSE Min(others)
  IN  IF protocol = "chat"
      THEN [body EXCEPT !.messages = InsertAt(@, at, Message("system", <<TextPart(prompt)>>))]
      ELSE [body EXCEPT !.system = @ \o prompt]

(* prepare_tool_request: tools and results become text.                    *)
PrepareToolRequest(protocol, body, tools) ==
  LET rewritten == Body(body.system, RewriteToolResults(protocol, body.messages), <<>>)
  IN  IF tools = <<>> THEN rewritten
      ELSE InjectSystemPrompt(protocol, rewritten, <<PromptXml(tools)>>)

-----------------------------------------------------------------------------
(* messages_content_part_to_chat_part: text and images that are not files. *)
HasChatPart(part) ==
  \/ part.type = "text"
  \/ part.type = "image" /\ part.source \in {"base64", "url"}

(* messages_content_array_to_chat_content: texts become one text, unless   *)
(* there is an image among them.                                           *)
ChatContent(parts) ==
  IF OfType(parts, "image") = <<>> THEN <<TextPart(TextOf(parts))>> ELSE parts

(* messages_request_to_chat_request                                        *)
ChatMessages(body) ==
  (IF body.system = <<>> THEN <<>> ELSE <<Message("system", <<TextPart(body.system)>>)>>)
  \o [i \in DOMAIN body.messages |->
        Message(body.messages[i].role, ChatContent(body.messages[i].parts))]

(* translate_request_body                                                  *)
Translates(protocol, upstream, body) ==
  \/ protocol = upstream
  \/ /\ protocol = "messages" /\ upstream = "chat"
     /\ \A part \in Range(PartsOf(body.messages)) : HasChatPart(part)
TranslateRequestBody(protocol, upstream, body) ==
  IF protocol = upstream THEN body
  ELSE Body(<<>>, ChatMessages(body), body.tools)
=============================================================================
