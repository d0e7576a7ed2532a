--------------------------- MODULE ConversationMC ---------------------------
(***************************************************************************)
(* Conversations over one configuration: a provider for every protocol, a  *)
(* translated one and one whose protocols have no translation.  A model's  *)
(* name is part of another's, one name holds a slash, and two providers    *)
(* share a model.                                                          *)
(***************************************************************************)
EXTENDS Conversation

CONSTANT ResponsesSpelling    \* how a Responses client spells its tools

Provider(name, protocol, upstream, models, key, authHeader, headers) ==
  [name |-> <<name>>, protocol |-> protocol, upstream |-> upstream, models |-> models,
   key |-> key, authHeader |-> authHeader, headers |-> headers]

MCProviders ==
  <<Provider("A", "chat", "chat", <<<<"m">>, <<"m", "-mini">>>>, "provider", "authorization", {}),
    Provider("B", "responses", "responses", <<<<"m">>>>, "none", "authorization",
             {<<"authorization", "default">>, <<"beta", "default">>}),
    Provider("C", "messages", "chat", <<<<"v", "/", "m">>>>, "provider", "x-api-key",
             {<<"api-key", "default">>}),
    Provider("D", "messages", "messages", <<<<"d">>>>, "provider", "goog-key", {}),
    Provider("E", "chat", "responses", <<<<"e">>>>, "none", "authorization", {})>>

(* Clients that ask for a listed model, and clients that do not: a model   *)
(* of another protocol, of another provider, of none.                      *)
Asks == {<<"chat", <<"A", "/", "m">>>>, <<"chat", <<"A", "/", "m", "-mini">>>>,
         <<"responses", <<"B", "/", "m">>>>, <<"messages", <<"C", "/", "v", "/", "m">>>>,
         <<"messages", <<"D", "/", "d">>>>, <<"chat", <<"E", "/", "e">>>>,
         <<"messages", <<"A", "/", "m">>>>, <<"chat", <<"A", "/", "e">>>>,
         <<"chat", <<"X", "/", "m">>>>, <<"chat", <<"m">>>>, <<"chat", <<"A", "/">>>>}
Dressed == {[system |-> <<>>, headers |-> {<<"host", "client">>, <<"authorization", "client">>}],
            [system |-> <<Word("sys")>>,
             headers |-> {<<"x-api-key", "client">>, <<"goog-key", "client">>, <<"beta", "client">>}]}
MCClients ==
  {[protocol |-> a[1], id |-> a[2], system |-> d.system, headers |-> d.headers, content |-> "string"] :
     a \in Asks, d \in Dressed}
  \cup {[protocol |-> "chat", id |-> <<"A", "/", "m">>, system |-> <<>>, headers |-> {}, content |-> "parts"]}

MCQuestions == {<<TextPart(<<Word("ask")>>)>>, <<TextPart(<<Word("see")>>), ImagePart("url")>>,
                <<ImagePart("file")>>}

Tool(name, about, enum, spelling) ==
  [name |-> name, about |-> about, enum |-> enum, spelling |-> spelling]

(* One tool's description names a model; the other's name holds one, and   *)
(* its enum offers two.                                                    *)
ToolsSpelled(spelling) ==
  <<Tool(<<"Read">>, <<"like", "A", "/", "m", "-mini", "or", "m">>, <<>>, spelling),
    Tool(<<"Grep", "-", "d">>, <<"v", "/", "m", "or", "d">>, <<<<"d">>, <<"m">>>>, spelling)>>

MCTools(protocol) ==
  ToolsSpelled(IF protocol = "chat" THEN "nested"
               ELSE IF protocol = "messages" THEN "named" ELSE ResponsesSpelling)

Answer(text, reasoning, calls) == [text |-> text, reasoning |-> reasoning, calls |-> calls]
Read == CallXml("Read", "x")
Grep == CallXml("Grep", "y")
Texts == {<<Word("w")>>, <<Read>>, <<Word("w"), Read, Word("v"), Grep>>,
          <<Leak("t", TRUE), Word("w")>>, <<Leak("t", TRUE), Word("w"), Grep>>,
          <<Leak("t", FALSE), Read>>, <<Leak("t", FALSE)>>}
MCAnswers(ids) ==
  {Answer(t, r, <<>>) : t \in Texts, r \in {<<>>, <<Word("r")>>}}
  \cup (IF ids = <<>> THEN {} ELSE {Answer(<<>>, <<>>, <<CallPart(ids[1], "Read", "x")>>)})

(* One word, and one of thinking that is reported apart.                   *)
ThoughtfulAnswers(ids) == {Answer(<<Word("w")>>, <<Word("r")>>, <<>>)}

Outcome(failed, objects) == [failed |-> failed, content |-> "found", objects |-> objects]
MCOutcomes == {Outcome(FALSE, <<[stdout |-> "found", status |-> "completed"]>>),
               Outcome(FALSE, <<[exit_code |-> 0], [exitCode |-> 1, exit_code |-> 0]>>),
               Outcome(TRUE, <<[is_error |-> TRUE]>>),
               Outcome(TRUE, <<[stdout |-> "found"], [exitCode |-> 1]>>),
               Outcome(TRUE, <<[status |-> "failed"]>>)}

MCCallIds == <<"id1", "id2", "id3", "id4", "id5", "id6", "id7", "id8", "id9">>
=============================================================================
