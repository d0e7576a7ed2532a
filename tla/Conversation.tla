---------------------------- MODULE Conversation ----------------------------
(***************************************************************************)
(* A client that talks with a model through the bridge (Bridge::handle,    *)
(* src/src/bridge.rs): it asks, receives answers and tool calls, runs the  *)
(* tools and sends everything back with its next request, since the bridge *)
(* keeps nothing between two requests.  The client, the tools and the      *)
(* upstream are external; an upstream may answer, refuse, or not answer    *)
(* before the bridge gives up, and a client may send a request again.      *)
(***************************************************************************)
EXTENDS Routing, Replies

CONSTANTS Clients,       \* protocol, model id, system text and headers of a client, and
                         \* whether it writes an answer's text as a string or in parts
          Questions,     \* the parts of a question
          Tools(_),      \* the tools a client of a protocol has
          Answers(_),    \* the answers to a request, with the ids of their own calls
          Outcomes,      \* what a tool returns, and whether it failed
          CallIds,       \* the ids of calls, in the order they are minted; how many
                         \* there are bounds the calls of a conversation
          EchoThinking,  \* whether clients return thinking blocks to a translated upstream
          MaxRequests    \* bound on the requests of a conversation

ASSUME MaxRequestsAssumption == MaxRequests \in Nat
ASSUME ClientsAssumption ==
  \A c \in Clients :
    /\ c.id \in Seq(STRING) /\ c.protocol \in Protocols /\ c.system \in Seq(WordSegs)
    /\ c.content \in {"string", "parts"}

(* What a user writes: words and images, which may be files.               *)
QuestionParts == [type : {"text"}, text : Seq(WordSegs)]
                   \cup [type : {"image"}, source : {"url", "base64", "file"}]
ASSUME QuestionsAssumption == \A parts \in Questions : parts \in Seq(QuestionParts)

(* No id is minted twice; an upstream that calls mints the first ones.     *)
(* Thinking leaks only where a text begins, and nothing but calls follows  *)
(* a thought that does not end.                                            *)
ASSUME CallIdsAssumption == CallIds \in Seq(STRING) /\ IsInjective(CallIds)
ASSUME AnswersAssumption ==
  \A n \in 1..(Len(CallIds) + 1) : \A a \in Answers(From(CallIds, n)) :
    /\ a.text \in Seq(AnswerSegs) /\ a.reasoning \in Seq(WordSegs) /\ a.calls \in Seq(CallParts)
    /\ \A i \in DOMAIN a.text : a.text[i].seg = "leak" =>
         /\ i = 1
         /\ a.text[i].ended \/ \A j \in 2..Len(a.text) : a.text[j].seg = "call"
    /\ Len(a.calls) <= Len(From(CallIds, n))
    /\ \A i \in DOMAIN a.calls : a.calls[i].id = From(CallIds, n)[i]

VARIABLES client,        \* one of Clients
          phase,         \* whose turn it is
          history,       \* the client's messages
          given,         \* the tools of the request, and whether it asks for a stream
          request,       \* what the upstream received
          answer,        \* history: what the upstream answered
          reply,         \* what the client received
          log,           \* history: what was said, segment by segment, and by whom
          minted,        \* history: how many call ids are in use
          requests       \* how many requests were sent

conversationVars == <<client, phase, history, given, request, answer, reply, log, minted, requests>>

Nothing == <<>>

(* A part of a message as segments, each with the role that said it.       *)
Says(role, segments) == [i \in DOMAIN segments |-> <<role, segments[i]>>]
ImageSeg(source) == [seg |-> "image", source |-> source]
Segments(part) ==
  IF part.type \in {"text", "content"} THEN part.text
  ELSE IF part.type = "image" THEN <<ImageSeg(part.source)>>
  ELSE IF part.type = "thinking" THEN <<>> ELSE <<[seg |-> "native", part |-> part]>>
SegmentsOf(parts) == FlattenSeq([i \in DOMAIN parts |-> Segments(parts[i])])

-----------------------------------------------------------------------------
(* The client (external).  Its protocol tells how it writes its history.   *)
Written(role, parts) ==
  IF client.protocol = "responses" \/ role = "tool"
  THEN [i \in DOMAIN parts |-> Message(role, <<parts[i]>>)]
  ELSE <<Message(role, parts)>>
ResultRole == IF client.protocol = "messages" THEN "user" ELSE "tool"

(* What a client returns of a reply, all of it or all but the thinking, in *)
(* its spelling.                                                           *)
Translated == ProviderOf(client.id).upstream # client.protocol
Echoed(parts) ==
  IF EchoThinking \/ ~Translated THEN parts
  ELSE Kept(parts, {p \in Range(parts) : p.type # "thinking"})
InParts(parts) ==
  client.protocol = "chat" /\ client.content = "parts" /\ OfType(parts, "call") # <<>>
Spelled(parts) ==
  IF InParts(parts)
  THEN [i \in DOMAIN parts |-> IF parts[i].type = "text" THEN ContentPart(parts[i].text) ELSE parts[i]]
  ELSE parts
Returned == Spelled(Echoed(reply))

(* What the model has said, as the client holds it: its words, aside if    *)
(* they stand in parts beside calls, and its calls.                        *)
Aside(s) == [seg |-> "aside", of |-> s]
Saying(part) ==
  IF part.type = "call" THEN <<CallXml(part.name, part.arguments)>>
  ELSE IF part.type = "content" THEN [i \in DOMAIN part.text |-> Aside(part.text[i])]
  ELSE Segments(part)
SayingOf(parts) == FlattenSeq([i \in DOMAIN parts |-> Saying(parts[i])])

Sends(tools, stream) ==
  /\ requests < MaxRequests /\ requests' = requests + 1
  /\ given' = [tools |-> tools, stream |-> stream]
  /\ phase' = "sent" /\ request' = Nothing /\ answer' = Nothing /\ reply' = Nothing

Ask(parts, tools, stream) ==
  /\ phase = "client"
  /\ Sends(tools, stream)
  /\ history' = history \o Written("user", parts)
  /\ log' = log \o Says("user", SegmentsOf(parts))
  /\ UNCHANGED <<client, minted>>

(* A request that was not answered may be sent again as it was.            *)
AskAgain ==
  /\ phase = "failed"
  /\ Sends(given.tools, given.stream)
  /\ UNCHANGED <<client, history, log, minted>>

ReadAnswer ==
  /\ phase = "replied" /\ OfType(reply, "call") = <<>>
  /\ phase' = "client"
  /\ history' = history \o Written("assistant", Returned)
  /\ log' = log \o Says("assistant", SayingOf(Returned))
  /\ UNCHANGED <<client, given, request, answer, reply, minted, requests>>

(* The calls are run, in any order, and their results returned with the    *)
(* next request, which may leave the tools out.                            *)
Orders(n) == {f \in [1..n -> 1..n] : Range(f) = 1..n}
RunTools(order, outcome, tools) ==
  LET calls == OfType(reply, "call")
      results == [i \in DOMAIN order |->
                    ResultPart(calls[order[i]].id, outcome.content, outcome.objects)]
      said == [i \in DOMAIN order |->
                 ResultXml(calls[order[i]].name, ~outcome.failed, outcome.content)]
  IN  /\ phase = "replied" /\ calls # <<>> /\ order \in Orders(Len(calls))
      /\ Sends(tools, given.stream)
      /\ history' = history \o Written("assistant", Returned) \o Written(ResultRole, results)
      /\ log' = log \o Says("assistant", SayingOf(Returned)) \o Says("user", said)
      /\ UNCHANGED <<client, minted>>

-----------------------------------------------------------------------------
(* Bridge::handle: the route, the tools, the body.                         *)
Route == ProviderOf(client.id)
StrippedTools == StripTools(given.tools, UpstreamModel(client.id))
Bridged == NeedsToolBridge(given.tools, history)
Sent == Body(IF client.protocol = "chat" THEN <<>> ELSE client.system, history, StrippedTools)
Prepared ==
  IF Bridged THEN PrepareToolRequest(client.protocol, Sent, CollectTools(StrippedTools)) ELSE Sent

(* A request that no provider serves, or whose body has no translation.    *)
Refuse ==
  /\ phase = "sent"
  /\ \/ ~Resolves(client.protocol, client.id)
     \/ Resolves(client.protocol, client.id) /\ ~Translates(client.protocol, Route.upstream, Prepared)
  /\ phase' = "refused"
  /\ UNCHANGED <<client, history, given, request, answer, reply, log, minted, requests>>

Forward ==
  /\ phase = "sent"
  /\ Resolves(client.protocol, client.id)
  /\ Translates(client.protocol, Route.upstream, Prepared)
  /\ request' = [protocol |-> Route.upstream, provider |-> Route.name,
                 model |-> UpstreamModel(client.id),
                 headers |-> Forwarded(ApplyProviderHeaders(client.headers, Route)),
                 bridged |-> Bridged \/ Translated,
                 body |-> TranslateRequestBody(client.protocol, Route.upstream, Prepared)]
  /\ phase' = "upstream"
  /\ UNCHANGED <<client, history, given, answer, reply, log, minted, requests>>

(* The reply to an answer that arrived; a bridged stream is made of what   *)
(* the turn reads of it.                                                   *)
Streamed == request.bridged /\ given.stream
TextRead(a) == IF Streamed THEN StreamText(request.protocol, a) ELSE a.text
ReplyTo(a, ids) ==
  IF ~request.bridged THEN Passthrough(a)
  ELSE IF given.stream THEN BridgeStream(request.protocol, a, ids)
  ELSE BridgeJson(client.protocol, request.protocol, a, ids)
Calling(a) == Len(a.calls) + Len(OfSeg(TextRead(a), "call"))

UpstreamAnswers(a) ==
  /\ phase = "upstream"
  /\ Streamed => TextRead(a) # <<>>
  /\ minted + Calling(a) <= Len(CallIds)
  /\ answer' = a
  /\ reply' = ReplyTo(a, From(CallIds, minted + Len(a.calls) + 1))
  /\ minted' = minted + Calling(a)
  /\ phase' = "replied"
  /\ UNCHANGED <<client, history, given, request, log, requests>>

(* The upstream refuses, ends a stream without text, breaks the connection *)
(* or is not done before json_client's timeout: the client is told.        *)
UpstreamFails ==
  /\ phase = "upstream"
  /\ phase' = "failed"
  /\ UNCHANGED <<client, history, given, request, answer, reply, log, minted, requests>>

ConversationInit ==
  /\ client \in Clients
  /\ history = IF client.protocol = "chat" /\ client.system # <<>>
               THEN <<Message("system", <<TextPart(client.system)>>)>> ELSE <<>>
  /\ phase = "client" /\ given = Nothing /\ request = Nothing /\ answer = Nothing /\ reply = Nothing
  /\ log = Says("system", client.system) /\ minted = 0 /\ requests = 0

ClientNext ==
  \/ \E parts \in Questions, tools \in {<<>>, Tools(client.protocol)}, stream \in BOOLEAN : Ask(parts, tools, stream)
  \/ AskAgain
  \/ ReadAnswer
  \/ \E order \in Orders(Len(OfType(reply, "call"))), outcome \in Outcomes, tools \in {<<>>, Tools(client.protocol)} :
       RunTools(order, outcome, tools)

ConversationNext ==
  \/ ClientNext
  \/ Refuse
  \/ Forward
  \/ \E a \in Answers(From(CallIds, minted + 1)) : UpstreamAnswers(a)
  \/ UpstreamFails

ConversationSpec == ConversationInit /\ [][ConversationNext]_conversationVars

-----------------------------------------------------------------------------
Words(t) == OfSeg(t, "word")
SegKinds == {"word", "call", "result", "leak", "image", "aside"}
Roles == {"system", "user", "assistant", "tool"}

IdsOf(parts) == LET own == parts IN [i \in DOMAIN own |-> own[i].id]
Distinct(s) == \A i, j \in DOMAIN s : s[i] = s[j] => i = j

(* Types; and in the client's history every call has an id of its own and  *)
(* every result answers an earlier call, which no other result does: what  *)
(* the naming of results relies on.                                        *)
ConversationInv ==
  LET parts == PartsOf(history)
      calls == OfType(parts, "call")
      results == OfType(parts, "result")
  IN  /\ client \in Clients
      /\ phase \in {"client", "sent", "upstream", "replied", "failed", "refused"}
      /\ minted \in Nat /\ requests \in 0..MaxRequests
      /\ \A i \in DOMAIN history : history[i].role \in Roles
      /\ \A i \in DOMAIN log : log[i][1] \in Roles /\ log[i][2].seg \in SegKinds
      /\ Distinct(IdsOf(calls)) /\ Distinct(IdsOf(results))
      /\ \A i \in DOMAIN parts : parts[i].type = "result" =>
           \E j \in 1..(i - 1) : parts[j].type = "call" /\ parts[j].id = parts[i].id

-----------------------------------------------------------------------------
(* A body as segments with their roles.                                    *)
Flat(body) ==
  Says("system", body.system)
  \o FlattenSeq([i \in DOMAIN body.messages |->
                  Says(body.messages[i].role, SegmentsOf(body.messages[i].parts))])

Unsaid == {"prompt", "leak", "aside"}
Said(flat) == LET own == flat IN Kept(own, {x \in Range(own) : x[2].seg \notin Unsaid})
IsPrompt(x) == x[2].seg = "prompt"

(* An upstream is told the whole dialogue in its order, as the client      *)
(* holds it: every word, every call under the assistant's name, every      *)
(* result under the name of its call and with its outcome, although the    *)
(* client speaks of ids and the bridge remembers none; nothing is told     *)
(* twice or in a spelling of the client's that the upstream would not      *)
(* know.  Only what a chat client writes in parts beside calls is lost.    *)
UpstreamSeesDialogue ==
  phase = "upstream" => Said(Flat(request.body)) = Said(log)

(* The tools of a request reach the upstream as one prompt that describes  *)
(* each of them in its place and under its own name, unless this name      *)
(* holds another model's, behind the system text and before anything else, *)
(* and not as tools; without tools there is no prompt.                     *)
MentionsOther(t, model) == \E other \in Range(OtherModelTokens(model)) : Mentions(t, other)
PromptDescribesTools ==
  LET flat == Flat(request.body)
      prompts == {i \in DOMAIN flat : IsPrompt(flat[i])}
      described(tools) ==
        /\ Len(tools) = Len(given.tools)
        /\ \A k \in DOMAIN tools : LET name == given.tools[k].name
                                  IN  tools[k].name = name \/ MentionsOther(name, request.model)
  IN  phase = "upstream" =>
        /\ request.body.tools = <<>>
        /\ given.tools = <<>> => prompts = {}
        /\ given.tools # <<>> =>
             \E i \in DOMAIN flat :
               /\ prompts = {i} /\ described(flat[i][2].tools)
               /\ \A j \in DOMAIN flat : j <= i <=> flat[j][1] = "system"

(* No name or description in the prompt mentions a model but the one that  *)
(* was asked for, and no value an enum still offers is another's name; the *)
(* asked one stays named in a description wherever the client named it and *)
(* meant no other, and is not named where the client did not.              *)
Names(model, t) ==
  \E i \in DOMAIN t :
    /\ OccursAt(model, t, i)
    /\ \A other \in Range(OtherModelTokens(model)), j \in DOMAIN t :
         OccursAt(other, t, j) => j + Len(other) <= i \/ i + Len(model) <= j
ModelsUnmentioned ==
  phase = "upstream" =>
    \A x \in {x \in Range(Flat(request.body)) : IsPrompt(x)} :
      \A k \in DOMAIN x[2].tools :
        LET told == given.tools[k].about
            about == x[2].tools[k].about
        IN  /\ ~MentionsOther(x[2].tools[k].name, request.model) /\ ~MentionsOther(about, request.model)
            /\ Range(OtherModelTokens(request.model)) \cap Range(x[2].tools[k].enum) = {}
            /\ Names(request.model, told) => Names(request.model, about)
            /\ Mentions(about, request.model) => Mentions(told, request.model)

(* A request goes to the provider and the model that the client's id names *)
(* in the list of models, over that provider's protocols.                  *)
RoutedAsListed ==
  phase = "upstream" =>
    \E x \in Listed :
      /\ Id(x[1], x[2]) = client.id /\ x[1].protocol = client.protocol
      /\ request.provider = x[1].name /\ request.model = x[2] /\ request.protocol = x[1].upstream

(* A provider with a credential of its own is shown that one and none of   *)
(* the client's; one without is shown the client's.                        *)
Credentials(headers) == {h \in headers : h[1] \in CommonAuth \cup {Route.authHeader}}
CredentialsAreProviders ==
  phase = "upstream" =>
    IF Route.key = "none" THEN Credentials(client.headers) \subseteq Credentials(request.headers)
    ELSE Credentials(request.headers) = {<<Route.authHeader, Route.key>>}

(* A request is refused only when no provider lists its model under its    *)
(* protocol, the provider's two protocols have no translation, or the      *)
(* client has shown a file: never for what the bridge itself has answered. *)
RefusedForAReason ==
  phase = "refused" =>
    \/ ~\E x \in Listed : Id(x[1], x[2]) = client.id /\ x[1].protocol = client.protocol
    \/ Route.upstream # client.protocol /\ <<client.protocol, Route.upstream>> # <<"messages", "chat">>
    \/ \E i \in DOMAIN log : log[i][2] = ImageSeg("file")

-----------------------------------------------------------------------------
(* protocol.rs: a turn reads "the delta text" of a frame.  A bridged reply *)
(* shows the words of the answer's text, and the calls in it.              *)
CallsAsXml(calls) == [i \in DOMAIN calls |-> CallXml(calls[i].name, calls[i].arguments)]
ReplyIsAnswer ==
  phase = "replied" /\ request.bridged =>
    LET calls == CallsAsXml(OfType(reply, "call"))
    IN  /\ Words(TextOf(reply)) = Words(answer.text)
        /\ Kept(calls, Range(answer.text)) = OfSeg(answer.text, "call")

(* A bridged reply carries the words of the answer together and in order,  *)
(* and so its calls, as calls of the client's protocol under new ids; no   *)
(* XML is left.  Nothing else is in it, but in what is streamed from a     *)
(* Responses upstream.                                                     *)
Carries(whole, own) == own = <<>> \/ Mentions(whole, own)
ReplyCarriesAnswer ==
  phase = "replied" /\ request.bridged =>
    LET calls == OfType(reply, "call")
        text == TextOf(reply)
    IN  /\ Carries(Words(text), Words(answer.text)) /\ OfSeg(text, "call") = <<>>
        /\ Carries(CallsAsXml(calls), OfSeg(answer.text, "call"))
        /\ Range(IdsOf(calls)) \cap Range(IdsOf(OfType(PartsOf(history), "call"))) = {}
        /\ Distinct(IdsOf(calls))
        /\ ReplyIsAnswer \/ (given.stream /\ request.protocol = "responses")

(* upstream.rs: "The proxy must not drop the hidden text."  Thinking that  *)
(* leaked into an answer is shown as thinking, or is still in the text.    *)
ThinkingKept ==
  phase = "replied" =>
    \A i \in DOMAIN answer.text : answer.text[i].seg = "leak" =>
      \/ answer.text[i] \in Range(TextOf(reply))
      \/ \E p \in Range(reply) : p.type = "thinking" /\ Word(answer.text[i].word) \in Range(p.text)
=============================================================================
