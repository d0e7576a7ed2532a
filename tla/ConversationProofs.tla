-------------------------- MODULE ConversationProofs ------------------------
(***************************************************************************)
(* What holds of every conversation over every valid configuration: where  *)
(* its requests go and whose credential goes with them, that an upstream   *)
(* is told the whole dialogue as the client holds it and the tools in one  *)
(* prompt, which names no other model, what replies carry of an answer,    *)
(* that the calls and results of a history are paired, and why a request   *)
(* may be refused.                                                         *)
(***************************************************************************)
EXTENDS Conversation, RoutingProofs, FiniteSetTheorems

(* The client is one of Clients throughout.                                *)
ClientInv == client \in Clients

(* No client action shows the upstream anything.                           *)
LEMMA ClientKeeps ==
  ASSUME ClientNext
  PROVE  client' = client /\ phase' # "upstream"
<1>1. ASSUME NEW parts, NEW tools, NEW stream, Ask(parts, tools, stream)
      PROVE  client' = client /\ phase' # "upstream"
  BY <1>1 DEF Ask, Sends
<1>2. ASSUME AskAgain PROVE client' = client /\ phase' # "upstream"
  BY <1>2 DEF AskAgain, Sends
<1>3. ASSUME ReadAnswer PROVE client' = client /\ phase' # "upstream"
  BY <1>3 DEF ReadAnswer
<1>4. ASSUME NEW order, NEW outcome, NEW tools, RunTools(order, outcome, tools)
      PROVE  client' = client /\ phase' # "upstream"
  BY <1>4 DEF RunTools, Sends
<1> QED
  BY <1>1, <1>2, <1>3, <1>4 DEF ClientNext

(* Only a request that is forwarded reaches the upstream.                  *)
LEMMA OnlyForwardSends ==
  ASSUME [ConversationNext]_conversationVars
  PROVE  /\ client' = client
         /\ \/ Forward
            \/ phase' # "upstream"
            \/ UNCHANGED conversationVars
<1>1. CASE ClientNext
  BY <1>1, ClientKeeps
<1>2. CASE Refuse
  BY <1>2 DEF Refuse
<1>3. CASE Forward
  BY <1>3 DEF Forward
<1>4. ASSUME NEW a, UpstreamAnswers(a)
      PROVE  client' = client /\ phase' # "upstream"
  BY <1>4 DEF UpstreamAnswers
<1>5. CASE UpstreamFails
  BY <1>5 DEF UpstreamFails
<1>6. CASE UNCHANGED conversationVars
  BY <1>6 DEF conversationVars
<1> QED
  BY <1>1, <1>2, <1>3, <1>4, <1>5, <1>6 DEF ConversationNext

(* The client never changes.                                               *)
LEMMA ClientStays == ConversationSpec => []ClientInv
<1>1. ConversationInit => ClientInv
  BY DEF ConversationInit, ClientInv
<1>2. ClientInv /\ [ConversationNext]_conversationVars => ClientInv'
  BY OnlyForwardSends DEF ClientInv
<1> QED
  BY <1>1, <1>2, PTL DEF ConversationSpec

(* What a forwarded request is.                                            *)
LEMMA ForwardedRequest ==
  ASSUME Forward
  PROVE  /\ client' = client /\ Resolves(client.protocol, client.id)
         /\ request'.provider = Route.name /\ request'.model = UpstreamModel(client.id)
         /\ request'.protocol = Route.upstream
         /\ request'.headers = Forwarded(ApplyProviderHeaders(client.headers, Route))
BY DEF Forward

(* A request goes where its id is listed, in every configuration: no       *)
(* client's id, however it is spelled, is sent to a provider, a model or a *)
(* protocol other than those it stands for (Bridge::handle, resolve).      *)
THEOREM RequestsAreRoutedAsListed == ConversationSpec => []RoutedAsListed
<1>1. ConversationInit => RoutedAsListed
  BY DEF ConversationInit, RoutedAsListed
<1>2. ClientInv /\ RoutedAsListed /\ [ConversationNext]_conversationVars => RoutedAsListed'
  <2> SUFFICES ASSUME ClientInv, RoutedAsListed, [ConversationNext]_conversationVars
               PROVE  RoutedAsListed'
    OBVIOUS
  <2>1. CASE Forward
    <3> DEFINE x == <<Route, UpstreamModel(client.id)>>
    <3>1. client.id \in Seq(STRING) /\ Resolves(client.protocol, client.id)
      BY <2>1, ForwardedRequest, ClientsAssumption DEF ClientInv
    <3>2. x \in Listed /\ Id(x[1], x[2]) = client.id /\ x[1].protocol = client.protocol
      BY <3>1, ResolvedIsListed DEF Route
    <3>3. /\ request'.provider = x[1].name /\ request'.model = x[2]
          /\ request'.protocol = x[1].upstream /\ client' = client
      BY <2>1, ForwardedRequest
    <3> HIDE DEF x
    <3> QED
      BY <3>2, <3>3 DEF RoutedAsListed
  <2>2. CASE phase' # "upstream"
    BY <2>2 DEF RoutedAsListed
  <2>3. CASE UNCHANGED conversationVars
    BY <2>3 DEF RoutedAsListed, conversationVars
  <2> QED
    BY <2>1, <2>2, <2>3, OnlyForwardSends
<1> QED
  BY <1>1, <1>2, ClientStays, PTL DEF ConversationSpec

-----------------------------------------------------------------------------
(* A header that is set last is the only credential left.                  *)
LEMMA ProvidersCredential ==
  ASSUME NEW headers, NEW p, p.key # "none", p.authHeader \notin Stripped
  PROVE  {h \in Forwarded(ApplyProviderHeaders(headers, p)) :
            h[1] \in CommonAuth \cup {p.authHeader}} = {<<p.authHeader, p.key>>}
<1> DEFINE own == <<p.authHeader, p.key>>
           rest == Without(Without(AddDefaults(headers, p.headers), CommonAuth), {p.authHeader})
           all == Forwarded(ApplyProviderHeaders(headers, p))
<1>1. all = Without(rest \cup {own}, Stripped)
  BY DEF Forwarded, ApplyProviderHeaders, SetHeader
<1>2. own[1] = p.authHeader
  OBVIOUS
<1>3. \A h \in rest : h[1] \notin CommonAuth /\ h[1] # p.authHeader
  BY DEF Without
<1> HIDE DEF own, rest, all
<1>4. own \in all
  BY <1>1, <1>2 DEF Without
<1>5. \A h \in all : h \in rest \/ h = own
  BY <1>1 DEF Without
<1>6. {h \in all : h[1] \in CommonAuth \cup {p.authHeader}} = {own}
  BY <1>2, <1>3, <1>4, <1>5
<1> QED
  BY <1>6 DEF own, all

(* Without a credential of the provider's the client's passes.             *)
LEMMA ClientsCredential ==
  ASSUME NEW headers, NEW p, p.key = "none", p.authHeader \notin Stripped
  PROVE  {h \in headers : h[1] \in CommonAuth \cup {p.authHeader}}
           \subseteq {h \in Forwarded(ApplyProviderHeaders(headers, p)) :
                        h[1] \in CommonAuth \cup {p.authHeader}}
<1>1. headers \subseteq ApplyProviderHeaders(headers, p)
  BY DEF ApplyProviderHeaders, AddDefaults
<1>2. \A a \in CommonAuth \cup {p.authHeader} : a \notin Stripped
  BY DEF CommonAuth, Stripped
<1> QED
  BY <1>1, <1>2 DEF Forwarded, Without

(* A provider is shown its own credential and none of the client's, or,    *)
(* without one, the client's (apply_provider_headers, forward_request), in *)
(* every configuration whose credentials do not go into a header of the    *)
(* connection: forward_request leaves those behind.                        *)
THEOREM CredentialsAreTheProviders ==
  ASSUME \A p \in Range(Providers) : p.authHeader \notin Stripped
  PROVE  ConversationSpec => []CredentialsAreProviders
<1>1. ConversationInit => CredentialsAreProviders
  BY DEF ConversationInit, CredentialsAreProviders
<1>2. ClientInv /\ CredentialsAreProviders /\ [ConversationNext]_conversationVars
      => CredentialsAreProviders'
  <2> SUFFICES ASSUME ClientInv, CredentialsAreProviders, [ConversationNext]_conversationVars
               PROVE  CredentialsAreProviders'
    OBVIOUS
  <2>1. CASE Forward
    <3>1. /\ client' = client /\ Resolves(client.protocol, client.id)
          /\ request'.headers = Forwarded(ApplyProviderHeaders(client.headers, Route))
      BY <2>1, ForwardedRequest
    <3>2. Route' = Route
      BY <3>1 DEF Route
    <3>3. Route \in Range(Providers)
      BY <3>1, ProviderIsNamed DEF Resolves, Refusals, Route
    <3>4. Route.authHeader \notin Stripped
      BY <3>3
    <3>5. CASE Route.key = "none"
      BY <3>1, <3>2, <3>4, <3>5, ClientsCredential DEF CredentialsAreProviders, Credentials
    <3>6. CASE Route.key # "none"
      BY <3>1, <3>2, <3>4, <3>6, ProvidersCredential DEF CredentialsAreProviders, Credentials
    <3> QED
      BY <3>5, <3>6
  <2>2. CASE phase' # "upstream"
    BY <2>2 DEF CredentialsAreProviders
  <2>3. CASE UNCHANGED conversationVars
    BY <2>3 DEF CredentialsAreProviders, Credentials, Route, conversationVars
  <2> QED
    BY <2>1, <2>2, <2>3, OnlyForwardSends
<1> QED
  BY <1>1, <1>2, ClientStays, PTL DEF ConversationSpec

-----------------------------------------------------------------------------
(* What is kept of a text, and what a reply is made of.                    *)

-----------------------------------------------------------------------------
(* The parts of one type, as a set to keep.                                *)
Typed(A, x) == {a \in A : a.type = x}

(* The parts of one type are those in the set of that type.                *)
LEMMA OfTypeIs ==
  ASSUME NEW A, NEW t \in Seq(A), NEW x
  PROVE  OfType(t, x) = Kept(t, Typed(A, x))
<1>1. \A i \in 1..Len(t) : t[i] \in {p \in Range(t) : p.type = x} <=> t[i] \in Typed(A, x)
  BY DEF Typed, Range
<1> QED
  BY <1>1, KeptSame DEF OfType

(* The segments of one kind, and the others, as sets to keep.              *)
Segs(A, x) == {a \in A : a.seg = x}
OtherSegs(A, x) == {a \in A : a.seg # x}

(* The segments of one kind are those in its set, the others those in the  *)
(* other.                                                                  *)
LEMMA OfSegIs ==
  ASSUME NEW A, NEW t \in Seq(A), NEW x
  PROVE  OfSeg(t, x) = Kept(t, Segs(A, x)) /\ WithoutSeg(t, x) = Kept(t, OtherSegs(A, x))
<1>1. \A i \in 1..Len(t) : t[i] \in {p \in Range(t) : p.seg = x} <=> t[i] \in Segs(A, x)
  BY DEF Segs, Range
<1>2. \A i \in 1..Len(t) : t[i] \in {p \in Range(t) : p.seg # x} <=> t[i] \in OtherSegs(A, x)
  BY DEF OtherSegs, Range
<1>3. OfSeg(t, x) = Kept(t, Segs(A, x))
  BY <1>1, KeptSame DEF OfSeg
<1>4. WithoutSeg(t, x) = Kept(t, OtherSegs(A, x))
  BY <1>2, KeptSame DEF WithoutSeg
<1> QED
  BY <1>3, <1>4

(* The parts of one type in two lists are those of the first and then      *)
(* those of the second.                                                    *)
LEMMA OfTypeConcat ==
  ASSUME NEW A, NEW t \in Seq(A), NEW u \in Seq(A), NEW x
  PROVE  OfType(t \o u, x) = OfType(t, x) \o OfType(u, x)
<1>1. t \o u \in Seq(A)
  OBVIOUS
<1> QED
  <2>1. OfType(t \o u, x) = Kept(t \o u, Typed(A, x))
    BY <1>1, OfTypeIs
  <2>2. OfType(t, x) = Kept(t, Typed(A, x)) /\ OfType(u, x) = Kept(u, Typed(A, x))
    BY OfTypeIs
  <2>3. Kept(t \o u, Typed(A, x)) = Kept(t, Typed(A, x)) \o Kept(u, Typed(A, x))
    BY KeptConcat
  <2> QED
    BY <2>1, <2>2, <2>3

(* A list of parts of one type has no parts of another.                    *)
LEMMA OfOneType ==
  ASSUME NEW A, NEW t \in Seq(A), NEW x
  PROVE  /\ OfType(t, x) \in Seq(A) /\ OfType(t, x) \in Seq(Typed(A, x))
         /\ (\A i \in 1..Len(t) : t[i].type = x) => OfType(t, x) = t
         /\ (\A i \in 1..Len(t) : t[i].type # x) => OfType(t, x) = <<>>
<1>1. OfType(t, x) = Kept(t, Typed(A, x)) /\ A \cap Typed(A, x) = Typed(A, x)
  BY OfTypeIs DEF Typed
<1>2. OfType(t, x) \in Seq(A) /\ OfType(t, x) \in Seq(Typed(A, x))
  BY <1>1, KeptType
<1>3. ASSUME \A i \in 1..Len(t) : t[i].type = x PROVE OfType(t, x) = t
  <2>1. \A i \in 1..Len(t) : t[i] \in Typed(A, x)
    BY <1>3 DEF Typed
  <2> QED
    BY <1>1, <2>1, KeptAll
<1>4. ASSUME \A i \in 1..Len(t) : t[i].type # x PROVE OfType(t, x) = <<>>
  <2>1. \A i \in 1..Len(t) : t[i] \notin Typed(A, x)
    BY <1>4 DEF Typed
  <2> QED
    BY <1>1, <2>1, KeptNone
<1> QED
  BY <1>2, <1>3, <1>4

(* What a reply is made of.                                                *)
TextParts == [type : {"text"}, text : Seq(AnswerSegs)]
ThinkingParts == [type : {"thinking"}, text : Seq(AnswerSegs)]
ReplyParts == TextParts \cup ThinkingParts \cup CallParts

(* A text becomes at most one part.                                        *)
LEMMA TextsArePart ==
  ASSUME NEW t \in Seq(AnswerSegs)
  PROVE  /\ NonEmptyText(t) \in Seq(TextParts) /\ NonEmptyThinking(t) \in Seq(ThinkingParts)
         /\ t # <<>> => NonEmptyThinking(t) = <<ThinkingPart(t)>>
<1> DEFINE T == Seq(AnswerSegs)
<1> HIDE DEF T
<1>0. t \in T
  BY DEF T
<1>1. TextPart(t) \in TextParts /\ ThinkingPart(t) \in ThinkingParts
  BY <1>0 DEF TextParts, ThinkingParts, TextPart, ThinkingPart, T
<1>2. <<TextPart(t)>> \in Seq(TextParts) /\ <<ThinkingPart(t)>> \in Seq(ThinkingParts)
  BY <1>1, OneType
<1> QED
  BY <1>2 DEF NonEmptyText, NonEmptyThinking

(* The text of at most one part.                                           *)
LEMMA TextOfOne ==
  ASSUME NEW t \in Seq(AnswerSegs), NEW parts, OfType(parts, "text") = NonEmptyText(t)
  PROVE  TextOf(parts) = t
<1> DEFINE own == OfType(parts, "text")
           texts == [i \in DOMAIN own |-> own[i].text]
<1>0. TextOf(parts) = FlattenSeq(texts)
  BY DEF TextOf
<1>1. CASE t = <<>>
  <2>1. own = <<>>
    BY <1>1 DEF NonEmptyText
  <2> HIDE DEF own
  <2>2. texts = <<>>
    BY <2>1
  <2> QED
    BY <1>0, <1>1, <2>2, FlattenNil
<1>2. CASE t # <<>>
  <2>1. own = <<TextPart(t)>>
    BY <1>2 DEF NonEmptyText
  <2> HIDE DEF own
  <2>2. DOMAIN own = 1..1 /\ own[1].text = t
    BY <2>1 DEF TextPart
  <2>3. texts = <<t>>
    BY <2>2
  <2> QED
    BY <1>0, <2>3, FlattenOne
<1> QED
  BY <1>1, <1>2

(* A reply: thinking, text, calls.                                         *)
Reply(th, v, c) == th \o NonEmptyText(v) \o c

(* What can be read in a reply is what it was made of.                     *)
LEMMA ReplyShape ==
  ASSUME NEW th \in Seq(ThinkingParts), NEW v \in Seq(AnswerSegs), NEW c \in Seq(CallParts)
  PROVE  /\ Reply(th, v, c) \in Seq(ReplyParts)
         /\ OfType(Reply(th, v, c), "call") = c
         /\ TextOf(Reply(th, v, c)) = v
         /\ Range(th) \subseteq Range(Reply(th, v, c))
<1> DEFINE n == NonEmptyText(v)
           R == ReplyParts
<1>1. n \in Seq(TextParts)
  BY TextsArePart
<1>2. TextParts \subseteq R /\ ThinkingParts \subseteq R /\ CallParts \subseteq R
  BY DEF ReplyParts
<1>3. /\ \A p \in TextParts : p.type = "text"
      /\ \A p \in ThinkingParts : p.type = "thinking"
      /\ \A p \in CallParts : p.type = "call"
  BY DEF TextParts, ThinkingParts, CallParts
<1>4. /\ \A i \in 1..Len(th) : th[i].type = "thinking"
      /\ \A i \in 1..Len(n) : n[i].type = "text"
      /\ \A i \in 1..Len(c) : c[i].type = "call"
  <2> HIDE DEF n
  <2> QED
    BY <1>1, <1>3
<1> HIDE DEF n, R
<1>5. th \in Seq(R) /\ n \in Seq(R) /\ c \in Seq(R) /\ th \o n \in Seq(R) /\ (th \o n) \o c \in Seq(R)
  <2>1. th \in Seq(R) /\ n \in Seq(R) /\ c \in Seq(R)
    BY <1>1, <1>2, SeqOfMore
  <2>2. th \o n \in Seq(R)
    BY <2>1, ConcatShape
  <2>3. (th \o n) \o c \in Seq(R)
    BY <2>1, <2>2, ConcatShape
  <2> QED
    BY <2>1, <2>2, <2>3
<1>6. Reply(th, v, c) = (th \o n) \o c
  BY DEF Reply, n
<1>7. \A x : OfType((th \o n) \o c, x) = (OfType(th, x) \o OfType(n, x)) \o OfType(c, x)
  <2>1. \A x : OfType((th \o n) \o c, x) = OfType(th \o n, x) \o OfType(c, x)
    <3> DEFINE w == th \o n
    <3>1. w \in Seq(R) /\ c \in Seq(R)
      BY <1>5
    <3> HIDE DEF w
    <3>2. \A x : OfType(w \o c, x) = OfType(w, x) \o OfType(c, x)
      BY <3>1, OfTypeConcat
    <3> QED
      BY <3>2 DEF w
  <2>2. \A x : OfType(th \o n, x) = OfType(th, x) \o OfType(n, x)
    BY <1>5, OfTypeConcat
  <2> QED
    BY <2>1, <2>2
<1>a. OfType(th, "call") = <<>> /\ OfType(th, "text") = <<>>
  <2>1. \A i \in 1..Len(th) : th[i].type # "call" /\ th[i].type # "text"
    BY <1>4
  <2> QED
    BY <1>5, <2>1, OfOneType
<1>b. OfType(n, "call") = <<>> /\ OfType(n, "text") = n
  <2>1. \A i \in 1..Len(n) : n[i].type # "call" /\ n[i].type = "text"
    BY <1>4
  <2> QED
    BY <1>5, <2>1, OfOneType
<1>c. OfType(c, "call") = c /\ OfType(c, "text") = <<>>
  <2>1. \A i \in 1..Len(c) : c[i].type = "call" /\ c[i].type # "text"
    BY <1>4
  <2> QED
    BY <1>5, <2>1, OfOneType
<1>8. OfType(th, "call") = <<>> /\ OfType(n, "call") = <<>> /\ OfType(c, "call") = c
  BY <1>a, <1>b, <1>c
<1>9. OfType(th, "text") = <<>> /\ OfType(n, "text") = n /\ OfType(c, "text") = <<>>
  BY <1>a, <1>b, <1>c
<1>10. OfType((th \o n) \o c, "call") = c
  BY <1>7, <1>8, <1>5
<1>11. OfType((th \o n) \o c, "text") = n
  <2>1. OfType((th \o n) \o c, "text") = (<<>> \o n) \o <<>>
    BY <1>7, <1>9
  <2>2. (<<>> \o n) \o <<>> = n
    BY <1>5
  <2> QED
    BY <2>1, <2>2
<1>12. TextOf(Reply(th, v, c)) = v
  BY <1>6, <1>11, TextOfOne DEF n
<1>13. Range(th) \subseteq Range((th \o n) \o c)
  <2>1. \A i \in 1..Len(th) : i \in 1..Len((th \o n) \o c) /\ ((th \o n) \o c)[i] = th[i]
    BY <1>5
  <2>2. DOMAIN th = 1..Len(th) /\ DOMAIN ((th \o n) \o c) = 1..Len((th \o n) \o c)
    BY <1>5
  <2> QED
    BY <2>1, <2>2 DEF Range
<1> QED
  BY <1>5, <1>6, <1>10, <1>12, <1>13 DEF R

-----------------------------------------------------------------------------
(* An answer as AnswersAssumption describes it.                            *)
LeaksLead(t) ==
  \A i \in DOMAIN t : t[i].seg = "leak" =>
    i = 1 /\ (t[i].ended \/ \A j \in 2..Len(t) : t[j].seg = "call")
IsAnswer(a) ==
  /\ a.text \in Seq(AnswerSegs) /\ a.reasoning \in Seq(WordSegs) /\ a.calls \in Seq(CallParts)
  /\ LeaksLead(a.text)

(* A segment of an answer is of one of three kinds, and its kind tells what *)
(* it is.                                                                  *)
LEMMA SegmentKinds ==
  ASSUME NEW s \in AnswerSegs
  PROVE  /\ s.seg \in {"word", "call", "leak"}
         /\ s.seg = "word" => s \in WordSegs /\ s = Word(s.word)
         /\ s.seg = "call" => s \in CallSegs /\ s = CallXml(s.name, s.arguments)
         /\ s.seg = "leak" => s \in LeakSegs /\ Word(s.word) \in WordSegs
BY DEF AnswerSegs, WordSegs, CallSegs, LeakSegs, Word, CallXml

(* The segments of one kind, and the others, are segments of an answer.    *)
LEMMA SegmentsOfKind ==
  ASSUME NEW t \in Seq(AnswerSegs), NEW x
  PROVE  /\ OfSeg(t, x) \in Seq(AnswerSegs) /\ WithoutSeg(t, x) \in Seq(AnswerSegs)
         /\ \A i \in 1..Len(OfSeg(t, x)) : OfSeg(t, x)[i].seg = x /\ OfSeg(t, x)[i] \in Range(t)
         /\ \A i \in 1..Len(WithoutSeg(t, x)) : WithoutSeg(t, x)[i].seg # x
         /\ \A i \in 1..Len(t) : t[i].seg = x => t[i] \in Range(OfSeg(t, x))
         /\ \A i \in 1..Len(t) : t[i].seg # x => t[i] \in Range(WithoutSeg(t, x))
<1>1. OfSeg(t, x) = Kept(t, Segs(AnswerSegs, x)) /\ WithoutSeg(t, x) = Kept(t, OtherSegs(AnswerSegs, x))
  BY OfSegIs
<1>2. \A i \in 1..Len(t) : t[i] \in AnswerSegs
  OBVIOUS
<1>3. /\ OfSeg(t, x) \in Seq(AnswerSegs) /\ WithoutSeg(t, x) \in Seq(AnswerSegs)
      /\ \A i \in 1..Len(OfSeg(t, x)) : OfSeg(t, x)[i] \in Range(t) /\ OfSeg(t, x)[i] \in Segs(AnswerSegs, x)
      /\ \A i \in 1..Len(WithoutSeg(t, x)) : WithoutSeg(t, x)[i] \in OtherSegs(AnswerSegs, x)
  BY <1>1, KeptAreItems, KeptType
<1>4. \A i \in 1..Len(t) : t[i].seg = x => t[i] \in Range(OfSeg(t, x))
  BY <1>1, <1>2, KeptHas DEF Segs
<1>5. \A i \in 1..Len(t) : t[i].seg # x => t[i] \in Range(WithoutSeg(t, x))
  BY <1>1, <1>2, KeptHas DEF OtherSegs
<1> QED
  BY <1>3, <1>4, <1>5 DEF Segs, OtherSegs

(* Leaked thinking as the words of a thought.                              *)
LEMMA LeakedIs ==
  ASSUME NEW t \in Seq(AnswerSegs)
  PROVE  Leaked(t) \in Seq(AnswerSegs)
<1> DEFINE l == OfSeg(t, "leak")
<1>1. l \in Seq(AnswerSegs) /\ \A i \in 1..Len(l) : l[i].seg = "leak"
  BY SegmentsOfKind
<1>2. Leaked(t) = [i \in DOMAIN l |-> Word(l[i].word)]
  BY DEF Leaked
<1> HIDE DEF l
<1>3. DOMAIN l = 1..Len(l) /\ Len(l) \in Nat /\ \A i \in 1..Len(l) : Word(l[i].word) \in WordSegs
  BY <1>1, SegmentKinds
<1>4. Leaked(t) \in Seq(WordSegs)
  BY <1>2, <1>3
<1>5. WordSegs \subseteq AnswerSegs
  BY DEF AnswerSegs
<1> QED
  BY <1>4, <1>5, SeqOfMore

(* A thought is split off or stays in the text.                            *)
LEMMA SplitKeeps ==
  ASSUME NEW t \in Seq(AnswerSegs)
  PROVE  /\ SplitThinking(t) \in Seq(AnswerSegs) /\ SplitText(t) \in Seq(AnswerSegs)
         /\ \/ t = SplitText(t)
            \/ t # <<>> /\ t[1].seg = "leak" /\ t = <<t[1]>> \o SplitText(t)
<1>1. CASE IsSplit(t)
  <2>1. t # <<>> /\ t[1].seg = "leak" /\ t[1] \in AnswerSegs
    BY <1>1 DEF IsSplit
  <2> DEFINE one == <<t[1]>>
             rest == Tail(t)
  <2>2. one \in Seq(AnswerSegs)
    BY <2>1, OneType
  <2>3. rest \in Seq(AnswerSegs) /\ t = one \o rest
    BY <2>1
  <2>4. SplitThinking(t) = Leaked(one) /\ SplitText(t) = rest
    BY <1>1 DEF SplitThinking, SplitText
  <2> HIDE DEF one
  <2>5. Leaked(one) \in Seq(AnswerSegs)
    BY <2>2, LeakedIs
  <2> QED
    BY <2>1, <2>3, <2>4, <2>5 DEF one
<1>2. CASE ~IsSplit(t)
  <2>1. SplitThinking(t) = <<>> /\ SplitText(t) = t
    BY <1>2 DEF SplitThinking, SplitText
  <2>2. <<>> \in Seq(AnswerSegs)
    OBVIOUS
  <2> QED
    BY <2>1, <2>2
<1> QED
  BY <1>1, <1>2

-----------------------------------------------------------------------------
(* What a client is shown of an answer.                                    *)

(* Leaving out what is not a word leaves the words.                        *)
LEMMA WordsStay ==
  ASSUME NEW t \in Seq(AnswerSegs)
  PROVE  /\ \A x : x # "word" => Words(WithoutSeg(t, x)) = Words(t)
         /\ \A x : OfSeg(WithoutSeg(t, x), x) = <<>>
         /\ \A x, y : OfSeg(t, x) = <<>> => OfSeg(WithoutSeg(t, y), x) = <<>>
<1> DEFINE A == AnswerSegs
<1> HIDE DEF A
<1>0. t \in Seq(A)
  BY DEF A
<1>1. \A x, y : OfSeg(WithoutSeg(t, x), y) = Kept(t, OtherSegs(A, x) \cap Segs(A, y))
  <2> SUFFICES ASSUME NEW x, NEW y
               PROVE  OfSeg(WithoutSeg(t, x), y) = Kept(t, OtherSegs(A, x) \cap Segs(A, y))
    OBVIOUS
  <2>1. WithoutSeg(t, x) = Kept(t, OtherSegs(A, x)) /\ Kept(t, OtherSegs(A, x)) \in Seq(A)
    BY <1>0, OfSegIs, KeptType
  <2> DEFINE w == Kept(t, OtherSegs(A, x))
  <2>2. w \in Seq(A) /\ WithoutSeg(t, x) = w
    BY <2>1
  <2> HIDE DEF w
  <2>3. OfSeg(w, y) = Kept(w, Segs(A, y))
    BY <2>2, OfSegIs
  <2>4. Kept(w, Segs(A, y)) = Kept(t, OtherSegs(A, x) \cap Segs(A, y))
    BY <1>0, KeptKept DEF w
  <2> QED
    BY <2>2, <2>3, <2>4
<1>2. ASSUME NEW x, x # "word" PROVE Words(WithoutSeg(t, x)) = Words(t)
  <2>1. OtherSegs(A, x) \cap Segs(A, "word") = Segs(A, "word")
    BY <1>2 DEF OtherSegs, Segs
  <2>2. Words(t) = Kept(t, Segs(A, "word"))
    BY <1>0, OfSegIs DEF Words
  <2> QED
    BY <1>1, <2>1, <2>2 DEF Words
<1>3. ASSUME NEW x PROVE OfSeg(WithoutSeg(t, x), x) = <<>>
  <2>1. \A i \in 1..Len(t) : t[i] \notin OtherSegs(A, x) \cap Segs(A, x)
    BY DEF OtherSegs, Segs
  <2> QED
    BY <1>0, <1>1, <2>1, KeptNone
<1>4. ASSUME NEW x, NEW y, OfSeg(t, x) = <<>> PROVE OfSeg(WithoutSeg(t, y), x) = <<>>
  <2>1. \A i \in 1..Len(t) : t[i].seg = x => t[i] \in Range(OfSeg(t, x))
    BY SegmentsOfKind
  <2>2. \A i \in 1..Len(t) : t[i].seg # x
    BY <1>4, <2>1 DEF Range
  <2>3. \A i \in 1..Len(t) : t[i] \notin OtherSegs(A, y) \cap Segs(A, x)
    BY <2>2 DEF OtherSegs, Segs
  <2> QED
    BY <1>0, <1>1, <2>3, KeptNone
<1> QED
  BY <1>2, <1>3, <1>4

(* Splitting a thought off leaves words and calls.                         *)
LEMMA SplitLeaves ==
  ASSUME NEW t \in Seq(AnswerSegs), NEW x, x # "leak"
  PROVE  OfSeg(SplitText(t), x) = OfSeg(t, x)
<1> DEFINE A == AnswerSegs
           s == SplitText(t)
           one == <<t[1]>>
<1>1. CASE t = SplitText(t)
  BY <1>1
<1>2. CASE t # <<>> /\ t[1].seg = "leak" /\ t = one \o s
  <2>1. s \in Seq(A) /\ t[1] \in A /\ one \in Seq(A) /\ Len(one) = 1 /\ one[1] = t[1]
    <3>1. s \in Seq(A)
      BY SplitKeeps
    <3>2. t[1] \in A
      BY <1>2
    <3> QED
      BY <3>1, <3>2, OneType
  <2>2. \A i \in 1..Len(one) : one[i] \notin Segs(A, x)
    BY <1>2, <2>1 DEF Segs
  <2> HIDE DEF A, s, one
  <2>3. Kept(one \o s, Segs(A, x)) = Kept(one, Segs(A, x)) \o Kept(s, Segs(A, x))
    BY <2>1, KeptConcat
  <2>4. Kept(one, Segs(A, x)) = <<>> /\ Kept(s, Segs(A, x)) \in Seq(A)
    BY <2>1, <2>2, KeptNone, KeptType
  <2>5. Kept(one \o s, Segs(A, x)) = Kept(s, Segs(A, x))
    BY <2>3, <2>4
  <2>6. t \in Seq(A)
    BY DEF A
  <2>7. OfSeg(t, x) = Kept(t, Segs(A, x)) /\ OfSeg(s, x) = Kept(s, Segs(A, x))
    BY <2>1, <2>6, OfSegIs
  <2> QED
    BY <1>2, <2>5, <2>7 DEF s
<1> QED
  BY <1>1, <1>2, SplitKeeps

(* The calls of a text, as parts and back.                                 *)
LEMMA CallsAre ==
  ASSUME NEW t \in Seq(AnswerSegs), NEW ids \in Seq(STRING), Len(OfSeg(t, "call")) <= Len(ids)
  PROVE  LET named == OfSeg(t, "call")
             calls == Calls(named, ids)
         IN  /\ calls \in Seq(CallParts) /\ Len(calls) = Len(named)
             /\ \A i \in 1..Len(calls) : calls[i].id = ids[i]
             /\ CallsAsXml(calls) = named
<1> DEFINE named == OfSeg(t, "call")
           calls == Calls(named, ids)
<1>1. named \in Seq(AnswerSegs) /\ \A i \in 1..Len(named) : named[i].seg = "call"
  BY SegmentsOfKind
<1> HIDE DEF named
<1>2. Len(named) \in Nat /\ DOMAIN named = 1..Len(named)
  BY <1>1
<1>3. \A i \in 1..Len(named) : named[i] \in CallSegs /\ named[i] = CallXml(named[i].name, named[i].arguments)
  BY <1>1, SegmentKinds
<1>4. \A i \in 1..Len(named) : ids[i] \in STRING
  BY <1>2 DEF named
<1>5. /\ DOMAIN calls = 1..Len(named)
      /\ \A i \in 1..Len(named) : calls[i] = CallPart(ids[i], named[i].name, named[i].arguments)
  BY <1>2 DEF Calls
<1>6. \A i \in 1..Len(named) :
        /\ CallPart(ids[i], named[i].name, named[i].arguments) \in CallParts
        /\ CallPart(ids[i], named[i].name, named[i].arguments).id = ids[i]
        /\ CallPart(ids[i], named[i].name, named[i].arguments).name = named[i].name
        /\ CallPart(ids[i], named[i].name, named[i].arguments).arguments = named[i].arguments
  BY <1>3, <1>4 DEF CallPart, CallParts, CallSegs
<1>7. calls = [i \in 1..Len(named) |-> CallPart(ids[i], named[i].name, named[i].arguments)]
  BY <1>2 DEF Calls
<1>8. calls \in Seq(CallParts) /\ Len(calls) = Len(named)
  BY <1>2, <1>6, <1>7
<1>9. CallsAsXml(calls) = named
  <2>1. CallsAsXml(calls) = [i \in 1..Len(named) |-> named[i]]
    BY <1>3, <1>5, <1>6 DEF CallsAsXml
  <2> QED
    BY <1>1, <1>2, <2>1
<1> QED
  BY <1>5, <1>6, <1>8, <1>9 DEF named

-----------------------------------------------------------------------------
(* What a turn reads of an answer, and what its reply's text and calls are *)
(* then.  Text that begins with a thought that does not end is all thought. *)
TextIs(a, v) ==
  IF ~request.bridged THEN v = a.text
  ELSE /\ OfSeg(v, "call") = <<>>
       /\ \/ Words(v) = Words(TextRead(a))
          \/ v = <<>> /\ Words(a.text) = <<>>
CallsToClient(a, ids) ==
  IF request.bridged /\ (given.stream \/ OfSeg(a.text, "call") # <<>>)
  THEN Calls(OfSeg(TextRead(a), "call"), ids) ELSE a.calls

(* The segments of one kind in two texts are those of the first and then   *)
(* those of the second.                                                    *)
LEMMA OfSegConcat ==
  ASSUME NEW t \in Seq(AnswerSegs), NEW u \in Seq(AnswerSegs), NEW x
  PROVE  OfSeg(t \o u, x) = OfSeg(t, x) \o OfSeg(u, x)
<1> DEFINE A == AnswerSegs
<1> HIDE DEF A
<1>1. t \in Seq(A) /\ u \in Seq(A)
  BY DEF A
<1>2. t \o u \in Seq(A)
  BY <1>1, ConcatShape
<1>3. OfSeg(t \o u, x) = Kept(t \o u, Segs(A, x))
  BY <1>2, OfSegIs
<1>4. OfSeg(t, x) = Kept(t, Segs(A, x)) /\ OfSeg(u, x) = Kept(u, Segs(A, x))
  BY <1>1, OfSegIs
<1>5. Kept(t \o u, Segs(A, x)) = Kept(t, Segs(A, x)) \o Kept(u, Segs(A, x))
  BY <1>1, KeptConcat
<1> QED
  BY <1>3, <1>4, <1>5

(* A text stands in another that it is the middle of.                      *)
LEMMA MiddleIsMentioned ==
  ASSUME NEW A, NEW p \in Seq(A), NEW x \in Seq(A), NEW q \in Seq(A)
  PROVE  Carries((p \o x) \o q, x)
<1> DEFINE t == (p \o x) \o q
           i == Len(p) + 1
<1>1. p \o x \in Seq(A) /\ Len(p \o x) = Len(p) + Len(x) /\ Len(p) \in Nat /\ Len(x) \in Nat /\ Len(q) \in Nat
  BY ConcatShape
<1>2. t \in Seq(A) /\ Len(t) = Len(p) + Len(x) + Len(q)
  BY <1>1, ConcatShape
<1>3. \A k \in 1..Len(x) : t[Len(p) + k] = x[k]
  <2>1. \A k \in 1..Len(x) : (p \o x)[Len(p) + k] = x[k]
    BY <1>1
  <2>2. \A k \in 1..Len(x) : Len(p) + k \in 1..Len(p \o x)
    BY <1>1
  <2> DEFINE y == p \o x
  <2>3. y \in Seq(A) /\ \A k \in 1..Len(x) : Len(p) + k \in 1..Len(y) /\ y[Len(p) + k] = x[k]
    BY <1>1, <2>1, <2>2
  <2> HIDE DEF y
  <2>4. \A k \in 1..Len(x) : (y \o q)[Len(p) + k] = x[k]
    BY <2>3
  <2> QED
    BY <2>4 DEF y
<1> HIDE DEF t
<1>4. CASE x = <<>>
  BY <1>4 DEF Carries
<1>5. CASE x # <<>>
  <2>1. Len(x) >= 1
    BY <1>1, <1>5
  <2>2. i \in DOMAIN t /\ i + Len(x) - 1 <= Len(t) /\ i + Len(x) - 1 = Len(p) + Len(x)
    BY <1>1, <1>2, <2>1
  <2> DEFINE s == SubSeq(t, i, i + Len(x) - 1)
  <2>3. s \in Seq(A) /\ Len(s) = Len(x) /\ \A k \in 1..Len(x) : s[k] = t[i + k - 1]
    BY <1>1, <1>2, <2>1, <2>2
  <2>4. \A k \in 1..Len(x) : s[k] = x[k]
    <3> HIDE DEF s
    <3>1. \A k \in 1..Len(x) : i + k - 1 = Len(p) + k
      BY <1>1
    <3> QED
      BY <1>3, <2>3, <3>1
  <2>5. s = x
    <3>1. s \in Seq(A) /\ x \in Seq(A) /\ Len(s) = Len(x) /\ \A k \in 1..Len(s) : s[k] = x[k]
      BY <2>3, <2>4
    <3> HIDE DEF s
    <3> QED
      BY <3>1
  <2>6. OccursAt(x, t, i)
    BY <2>2, <2>5 DEF OccursAt
  <2>7. Carries(t, x)
    BY <2>2, <2>6 DEF Carries, Mentions
  <2> QED
    BY <2>7 DEF t
<1> QED
  BY <1>4, <1>5

(* Three texts one after another.                                          *)
InOne(x, y, z) == FlattenSeq(<<x, y, z>>) = (x \o y) \o z
LEMMA FlattenThree ==
  ASSUME NEW A, NEW x \in Seq(A), NEW y \in Seq(A), NEW z \in Seq(A)
  PROVE  InOne(x, y, z)
<1> DEFINE S == Seq(A)
<1>1. x \in S /\ y \in S /\ z \in S
  OBVIOUS
<1> HIDE DEF S
<1>2. <<x>> \in Seq(S) /\ <<x, y>> \in Seq(S)
  BY <1>1
<1>3. <<x, y>> = Append(<<x>>, y) /\ <<x, y, z>> = Append(<<x, y>>, z)
  BY <1>1, <1>2
<1>4. FlattenSeq(<<x>>) = x
  BY FlattenOne
<1>5. FlattenSeq(Append(<<x>>, y)) = FlattenSeq(<<x>>) \o y
  BY <1>2, FlattenAppend DEF S
<1>6. FlattenSeq(Append(<<x, y>>, z)) = FlattenSeq(<<x, y>>) \o z
  BY <1>2, FlattenAppend DEF S
<1> QED
  BY <1>3, <1>4, <1>5, <1>6 DEF InOne

(* What a turn reads of a Responses upstream's answer.                     *)
Arguments(a) == [i \in DOMAIN a.calls |-> Word(a.calls[i].arguments)]
TwiceRead(a) == ((a.reasoning \o a.reasoning) \o a.text) \o (a.text \o Arguments(a))

(* The arguments of calls, read as words.                                  *)
LEMMA ArgumentsAre ==
  ASSUME NEW a, IsAnswer(a)
  PROVE  /\ Arguments(a) \in Seq(WordSegs) /\ Arguments(a) \in Seq(AnswerSegs)
         /\ a.reasoning \in Seq(WordSegs) /\ a.reasoning \in Seq(AnswerSegs) /\ a.text \in Seq(AnswerSegs)
<1>1. a.calls \in Seq(CallParts) /\ a.reasoning \in Seq(WordSegs) /\ a.text \in Seq(AnswerSegs)
  BY DEF IsAnswer
<1>2. \A c \in CallParts : Word(c.arguments) \in WordSegs
  BY DEF CallParts, WordSegs, Word
<1>3. Arguments(a) \in Seq(WordSegs)
  <2>1. Len(a.calls) \in Nat /\ DOMAIN a.calls = 1..Len(a.calls)
        /\ \A i \in 1..Len(a.calls) : Word(a.calls[i].arguments) \in WordSegs
    BY <1>1, <1>2
  <2> QED
    BY <2>1 DEF Arguments
<1>4. WordSegs \subseteq AnswerSegs
  BY DEF AnswerSegs
<1> QED
  BY <1>1, <1>3, <1>4, SeqOfMore

(* A turn reads the text of an answer (extract_stream_delta); of a         *)
(* Responses upstream's it reads the text twice, between what else the     *)
(* upstream has streamed.                                                  *)
LEMMA StreamTextIs ==
  ASSUME NEW a, IsAnswer(a), NEW upstream
  PROVE  StreamText(upstream, a) = IF upstream \in {"chat", "messages"} THEN a.text ELSE TwiceRead(a)
<1> DEFINE t == a.text
           r == a.reasoning
           w == Arguments(a)
           e == StreamOf(upstream, a)
           pieces == [i \in DOMAIN e |-> ExtractStreamDelta(upstream, e[i])]
           S == Seq(AnswerSegs)
<1>1. t \in S /\ r \in S /\ w \in S /\ <<>> \in S
  BY ArgumentsAre
<1>a. \A x, y, z \in S : FlattenSeq(<<x, y, z>>) = (x \o y) \o z
  <2> SUFFICES ASSUME NEW x \in Seq(AnswerSegs), NEW y \in Seq(AnswerSegs), NEW z \in Seq(AnswerSegs)
               PROVE  InOne(x, y, z)
    BY DEF InOne
  <2> QED
    BY FlattenThree
<1>2. StreamText(upstream, a) = FlattenSeq(pieces)
  BY DEF StreamText
<1>3. CASE upstream = "chat"
  <2>1. e = <<Event("reasoning_content", r), Event("content", t), Event("arguments", w)>>
    BY <1>3 DEF StreamOf, Arguments
  <2>2. \A i \in 1..3 : e[i].field = (IF i = 1 THEN "reasoning_content" ELSE IF i = 2 THEN "content" ELSE "arguments")
    BY <2>1 DEF Event
  <2>3. DOMAIN e = 1..3 /\ e[2].text = t
    BY <2>1 DEF Event
  <2> HIDE DEF e, S, t
  <2>4. /\ ExtractStreamDelta(upstream, e[1]) = <<>> /\ ExtractStreamDelta(upstream, e[2]) = t
        /\ ExtractStreamDelta(upstream, e[3]) = <<>>
    BY <1>3, <2>2, <2>3 DEF ExtractStreamDelta, DeltaFields
  <2>5. pieces = <<(<<>>), t, (<<>>)>>
    BY <2>3, <2>4
  <2>6. FlattenSeq(<<(<<>>), t, (<<>>)>>) = ((<<>>) \o t) \o (<<>>)
    BY <1>1, <1>a
  <2>7. ((<<>>) \o t) \o (<<>>) = t
    BY <1>1 DEF S
  <2> QED
    BY <1>2, <1>3, <2>5, <2>6, <2>7 DEF t
<1>4. CASE upstream = "messages"
  <2>1. e = <<Event("thinking", r), Event("text", t), Event("partial_json", w)>>
    BY <1>4 DEF StreamOf, Arguments
  <2>2. \A i \in 1..3 : e[i].field = (IF i = 1 THEN "thinking" ELSE IF i = 2 THEN "text" ELSE "partial_json")
    BY <2>1 DEF Event
  <2>3. DOMAIN e = 1..3 /\ e[2].text = t
    BY <2>1 DEF Event
  <2> HIDE DEF e, S, t
  <2>4. /\ ExtractStreamDelta(upstream, e[1]) = <<>> /\ ExtractStreamDelta(upstream, e[2]) = t
        /\ ExtractStreamDelta(upstream, e[3]) = <<>>
    BY <1>4, <2>2, <2>3 DEF ExtractStreamDelta, DeltaFields
  <2>5. pieces = <<(<<>>), t, (<<>>)>>
    BY <2>3, <2>4
  <2>6. FlattenSeq(<<(<<>>), t, (<<>>)>>) = ((<<>>) \o t) \o (<<>>)
    BY <1>1, <1>a
  <2>7. ((<<>>) \o t) \o (<<>>) = t
    BY <1>1 DEF S
  <2> QED
    BY <1>2, <1>4, <2>5, <2>6, <2>7 DEF t
<1>5. CASE upstream # "chat" /\ upstream # "messages"
  <2>1. e = <<Event("delta", r), Event("text", r), Event("delta", t), Event("text", t),
              Event("delta", w), Event("arguments", w)>>
    BY <1>5 DEF StreamOf, Arguments
  <2>2. DOMAIN e = 1..6
    BY <2>1
  <2>3. /\ e[1] = Event("delta", r) /\ e[2] = Event("text", r) /\ e[3] = Event("delta", t)
        /\ e[4] = Event("text", t) /\ e[5] = Event("delta", w) /\ e[6] = Event("arguments", w)
    BY <2>1
  <2> HIDE DEF e, S, t, r, w
  <2>4. DeltaFields(upstream) = {"delta", "text", "output_text"}
    BY <1>5 DEF DeltaFields
  <2>5. \A x : /\ ExtractStreamDelta(upstream, Event("delta", x)) = x
               /\ ExtractStreamDelta(upstream, Event("text", x)) = x
               /\ ExtractStreamDelta(upstream, Event("arguments", x)) = <<>>
    BY <2>4 DEF ExtractStreamDelta, Event
  <2>6. pieces = <<r, r, t, t, w, (<<>>)>>
    BY <2>2, <2>3, <2>5
  <2> DEFINE x == <<r, r, t>>
             y == <<t, w, (<<>>)>>
  <2>7. x \in Seq(S) /\ y \in Seq(S) /\ <<r, r, t, t, w, (<<>>)>> = x \o y
    BY <1>1
  <2>8. FlattenSeq(x) = (r \o r) \o t
    BY <1>1, <1>a
  <2>9. FlattenSeq(y) = (t \o w) \o (<<>>) /\ (t \o w) \o (<<>>) = t \o w
    <3>1. FlattenSeq(y) = (t \o w) \o (<<>>)
      BY <1>1, <1>a
    <3>2. t \o w \in Seq(AnswerSegs)
      BY <1>1, ConcatShape DEF S
    <3> DEFINE tw == t \o w
    <3>3. tw \in Seq(AnswerSegs)
      BY <3>2
    <3> HIDE DEF tw
    <3>4. tw \o (<<>>) = tw
      BY <3>3
    <3> QED
      BY <3>1, <3>4 DEF tw
  <2> HIDE DEF x, y
  <2>10. FlattenSeq(x \o y) = FlattenSeq(x) \o FlattenSeq(y)
    BY <2>7, FlattenConcat DEF S
  <2> QED
    BY <1>2, <1>5, <2>6, <2>7, <2>8, <2>9, <2>10 DEF TwiceRead, t, r, w
<1> QED
  BY <1>3, <1>4, <1>5

(* What is read twice has nothing but words beside the text of the answer, *)
(* and each kind of segments of this text in one piece.                    *)
LEMMA TwiceReadIs ==
  ASSUME NEW a, IsAnswer(a)
  PROVE  /\ TwiceRead(a) \in Seq(AnswerSegs)
         /\ \A i \in 1..Len(TwiceRead(a)) : TwiceRead(a)[i].seg = "word" \/ TwiceRead(a)[i] \in Range(a.text)
         /\ \A x : Carries(OfSeg(TwiceRead(a), x), OfSeg(a.text, x))
<1> DEFINE t == a.text
           r == a.reasoning
           w == Arguments(a)
           A == AnswerSegs
           Read == {s \in AnswerSegs : s.seg = "word" \/ s \in Range(a.text)}
<1>1. t \in Seq(A) /\ r \in Seq(A) /\ w \in Seq(A)
  BY ArgumentsAre
<1>2. t \in Seq(Read) /\ r \in Seq(Read) /\ w \in Seq(Read)
  <2>1. \A s \in WordSegs : s \in Read
    BY DEF WordSegs, AnswerSegs
  <2>2. r \in Seq(Read) /\ w \in Seq(Read)
    <3> HIDE DEF Read
    <3> QED
      BY <2>1, ArgumentsAre, SeqOfMore
  <2>3. \A i \in 1..Len(t) : t[i] \in Read
    BY <1>1 DEF Range
  <2>4. t \in Seq(Read)
    <3> HIDE DEF Read, t
    <3> QED
      BY <1>1, <2>3
  <2> QED
    BY <2>2, <2>4
<1> DEFINE rr == r \o r
           p == rr \o t
           q == t \o w
<1>a. \A S : t \in Seq(S) /\ r \in Seq(S) /\ w \in Seq(S) => rr \in Seq(S) /\ p \in Seq(S) /\ q \in Seq(S) /\ p \o q \in Seq(S)
  <2> SUFFICES ASSUME NEW S, t \in Seq(S), r \in Seq(S), w \in Seq(S)
               PROVE  rr \in Seq(S) /\ p \in Seq(S) /\ q \in Seq(S) /\ p \o q \in Seq(S)
    OBVIOUS
  <2> HIDE DEF t, r, w
  <2>1. rr \in Seq(S) /\ q \in Seq(S)
    BY ConcatShape
  <2> HIDE DEF rr, q
  <2>2. p \in Seq(S)
    BY <2>1, ConcatShape
  <2> HIDE DEF p
  <2>3. p \o q \in Seq(S)
    BY <2>1, <2>2, ConcatShape
  <2> QED
    BY <2>1, <2>2, <2>3
<1>3. TwiceRead(a) = p \o q
  BY DEF TwiceRead
<1>4. TwiceRead(a) \in Seq(A) /\ TwiceRead(a) \in Seq(Read)
  <2> HIDE DEF A, Read, t, r, w, p, q, rr
  <2> QED
    BY <1>1, <1>2, <1>3, <1>a
<1>5. \A i \in 1..Len(TwiceRead(a)) : TwiceRead(a)[i].seg = "word" \/ TwiceRead(a)[i] \in Range(a.text)
  <2>1. \A i \in 1..Len(TwiceRead(a)) : TwiceRead(a)[i] \in Read
    <3> HIDE DEF Read
    <3> QED
      BY <1>4
  <2> QED
    BY <2>1
<1>6. ASSUME NEW x PROVE Carries(OfSeg(TwiceRead(a), x), OfSeg(a.text, x))
  <2>1. rr \in Seq(A) /\ p \in Seq(A) /\ q \in Seq(A) /\ t \in Seq(A) /\ w \in Seq(A)
    <3> HIDE DEF A, t, r, w, rr, p, q
    <3> QED
      BY <1>1, <1>a
  <2> HIDE DEF t, r, w, rr, p, q
  <2>2. OfSeg(p \o q, x) = OfSeg(p, x) \o OfSeg(q, x)
    <3>1. p \in Seq(AnswerSegs) /\ q \in Seq(AnswerSegs)
      BY <2>1
    <3> QED
      BY <3>1, OfSegConcat
  <2>3. OfSeg(p, x) = OfSeg(rr, x) \o OfSeg(t, x)
    BY <2>1, OfSegConcat DEF p
  <2>4. OfSeg(rr, x) \in Seq(A) /\ OfSeg(t, x) \in Seq(A) /\ OfSeg(q, x) \in Seq(A)
    BY <2>1, SegmentsOfKind
  <2> DEFINE y == OfSeg(rr, x)
             z == OfSeg(t, x)
             u == OfSeg(q, x)
  <2>5. y \in Seq(A) /\ z \in Seq(A) /\ u \in Seq(A)
    BY <2>4
  <2> HIDE DEF y, z, u
  <2>6. Carries((y \o z) \o u, z)
    BY <2>5, MiddleIsMentioned
  <2> QED
    BY <1>3, <2>2, <2>3, <2>6 DEF y, z, u, t
<1> QED
  BY <1>4, <1>5, <1>6

(* What a turn reads of an answer: its text, or, in a stream of a          *)
(* Responses upstream, what carries its text.                              *)
LEMMA TextReadIs ==
  ASSUME NEW a, IsAnswer(a)
  PROVE  /\ TextRead(a) \in Seq(AnswerSegs)
         /\ \A i \in 1..Len(TextRead(a)) : TextRead(a)[i].seg = "word" \/ TextRead(a)[i] \in Range(a.text)
         /\ \A x : Carries(OfSeg(TextRead(a), x), OfSeg(a.text, x))
         /\ \/ TextRead(a) = a.text
            \/ given.stream /\ request.protocol \notin {"chat", "messages"}
<1>1. CASE TextRead(a) = a.text
  <2>1. a.text \in Seq(AnswerSegs)
    BY DEF IsAnswer
  <2>2. \A i \in 1..Len(a.text) : a.text[i] \in Range(a.text)
    BY <2>1 DEF Range
  <2>3. ASSUME NEW x PROVE Carries(OfSeg(a.text, x), OfSeg(a.text, x))
    <3> DEFINE y == OfSeg(a.text, x)
    <3>1. y \in Seq(AnswerSegs) /\ <<>> \in Seq(AnswerSegs)
      BY <2>1, SegmentsOfKind
    <3> HIDE DEF y
    <3>2. Carries((<<>> \o y) \o <<>>, y)
      BY <3>1, MiddleIsMentioned
    <3>3. (<<>> \o y) \o <<>> = y
      BY <3>1
    <3> QED
      BY <3>2, <3>3 DEF y
  <2> QED
    BY <1>1, <2>1, <2>2, <2>3
<1>2. CASE TextRead(a) # a.text
  <2>1. Streamed /\ TextRead(a) = StreamText(request.protocol, a)
    BY <1>2 DEF TextRead
  <2>2. request.protocol \notin {"chat", "messages"} /\ TextRead(a) = TwiceRead(a)
    BY <1>2, <2>1, StreamTextIs
  <2> QED
    BY <2>1, <2>2, TwiceReadIs DEF Streamed
<1> QED
  BY <1>1, <1>2

-----------------------------------------------------------------------------
(* What a reply holds, and what is written of it.                          *)

(* The reply that is relayed is the answer.                                *)
LEMMA PassthroughIs ==
  ASSUME NEW a, IsAnswer(a), ~request.bridged
  PROVE  \E th \in Seq(ThinkingParts), v \in Seq(AnswerSegs) :
           Passthrough(a) = Reply(th, v, a.calls) /\ TextIs(a, v)
<1>1. a.text \in Seq(AnswerSegs) /\ a.reasoning \in Seq(AnswerSegs)
  BY ArgumentsAre
<1> DEFINE th == NonEmptyThinking(a.reasoning)
<1>2. th \in Seq(ThinkingParts)
  BY <1>1, TextsArePart
<1>3. Passthrough(a) = Reply(th, a.text, a.calls)
  BY DEF Passthrough, Reply
<1>4. TextIs(a, a.text)
  BY DEF TextIs
<1> QED
  BY <1>1, <1>2, <1>3, <1>4

(* What is left of a text without calls when its thought is taken out: the *)
(* rest, or nothing if the thought does not end (ThinkingSplitter).        *)
LEMMA ThoughtTakenOut ==
  ASSUME NEW t \in Seq(AnswerSegs), \A i \in 1..Len(t) : t[i].seg # "call"
  PROVE  LET n == ThoughtLength(t)
             v == From(t, n + 1)
         IN  /\ [i \in 1..n |-> Word(t[i].word)] \in Seq(AnswerSegs) /\ v \in Seq(AnswerSegs)
             /\ \/ v = SplitText(t)
                \/ v = <<>> /\ t # <<>> /\ t[1].seg = "leak" /\ ~t[1].ended
<1> DEFINE n == ThoughtLength(t)
           v == From(t, n + 1)
           thought == [i \in 1..n |-> Word(t[i].word)]
<1>1. Len(t) \in Nat /\ n \in 0..Len(t)
  BY DEF ThoughtLength
<1>2. n + 1 \in 1..(Len(t) + 1)
  BY <1>1
<1>3. /\ v \in Seq(AnswerSegs) /\ Len(v) = Len(t) - (n + 1) + 1
      /\ \A k \in 1..(Len(t) - (n + 1) + 1) : v[k] = t[(n + 1) + k - 1]
  BY <1>2, FromRest
<1>4. thought \in Seq(AnswerSegs)
  <2>1. \A i \in 1..n : t[i] \in AnswerSegs /\ t[i].seg # "call"
    BY <1>1
  <2>2. \A i \in 1..n : Word(t[i].word) \in AnswerSegs
    BY <2>1 DEF AnswerSegs, WordSegs, CallSegs, LeakSegs, Word
  <2> HIDE DEF n
  <2> QED
    BY <1>1, <2>2
<1>5. CASE n = 0 /\ ~IsSplit(t)
  <2>1. SplitText(t) = t
    BY <1>5 DEF SplitText
  <2>2. v \in Seq(AnswerSegs) /\ Len(v) = Len(t) /\ \A k \in 1..Len(t) : v[k] = t[k]
    BY <1>1, <1>3, <1>5
  <2> HIDE DEF v
  <2>3. v = t
    BY <2>2
  <2> QED
    BY <1>3, <1>4, <2>1, <2>3 DEF v
<1>6. CASE IsSplit(t)
  <2>1. n = 1 /\ t # <<>> /\ SplitText(t) = Tail(t)
    BY <1>6 DEF IsSplit, ThoughtLength, SplitText
  <2>2. v \in Seq(AnswerSegs) /\ Len(v) = Len(t) - 1 /\ \A k \in 1..(Len(t) - 1) : v[k] = t[k + 1]
    BY <1>1, <1>3, <2>1
  <2> HIDE DEF v, n
  <2>3. v = Tail(t)
    BY <2>1, <2>2
  <2> QED
    BY <1>3, <1>4, <2>1, <2>3 DEF v, n
<1>7. CASE ~IsSplit(t) /\ n # 0
  <2>1. t # <<>> /\ t[1].seg = "leak" /\ ~t[1].ended /\ n = Len(t)
    BY <1>7 DEF IsSplit, ThoughtLength
  <2>2. Len(v) = 0
    BY <1>1, <1>3, <2>1
  <2> HIDE DEF v
  <2>3. v = <<>>
    BY <1>3, <2>2
  <2> QED
    BY <1>3, <1>4, <2>1, <2>3 DEF v
<1> HIDE DEF v, n, thought
<1> QED
  BY <1>5, <1>6, <1>7

(* A thought that does not end was the whole text of its answer.           *)
LEMMA ThoughtIsAll ==
  ASSUME NEW a, IsAnswer(a), NEW s, s \in Range(a.text), s.seg = "leak", ~s.ended
  PROVE  Words(a.text) = <<>>
<1> DEFINE t == a.text
<1>1. t \in Seq(AnswerSegs) /\ LeaksLead(t) /\ DOMAIN t = 1..Len(t) /\ Len(t) \in Nat
  BY DEF IsAnswer
<1> HIDE DEF t
<1>2. PICK k \in DOMAIN t : t[k] = s
  BY DEF Range, t
<1>3. k = 1 /\ \A j \in 2..Len(t) : t[j].seg = "call"
  BY <1>1, <1>2 DEF LeaksLead
<1>4. \A i \in 1..Len(t) : t[i] \notin Segs(AnswerSegs, "word")
  <2> SUFFICES ASSUME NEW i \in 1..Len(t) PROVE t[i].seg # "word"
    BY DEF Segs
  <2>1. CASE i = 1
    BY <1>2, <1>3, <2>1
  <2>2. CASE i \in 2..Len(t)
    BY <1>3, <2>2
  <2> QED
    BY <1>1, <2>1, <2>2
<1>5. Words(t) = Kept(t, Segs(AnswerSegs, "word"))
  BY <1>1, OfSegIs DEF Words
<1> QED
  BY <1>1, <1>4, <1>5, KeptNone DEF t

(* A streamed reply has the words and the calls that the turn reads.       *)
LEMMA BridgeStreamIs ==
  ASSUME NEW a, IsAnswer(a), request.bridged, given.stream,
         NEW ids \in Seq(STRING), Len(OfSeg(TextRead(a), "call")) <= Len(ids)
  PROVE  \E th \in Seq(ThinkingParts), v \in Seq(AnswerSegs) :
           /\ BridgeStream(request.protocol, a, ids) = Reply(th, v, Calls(OfSeg(TextRead(a), "call"), ids))
           /\ TextIs(a, v)
<1> DEFINE t == TextRead(a)
           w == WithoutSeg(t, "call")
           n == ThoughtLength(w)
           v == From(w, n + 1)
           thought == [i \in 1..n |-> Word(w[i].word)]
           th == NonEmptyThinking(thought)
           c == Calls(OfSeg(t, "call"), ids)
<1>1. t = StreamText(request.protocol, a)
  BY DEF TextRead, Streamed
<1>2. t \in Seq(AnswerSegs) /\ \A i \in 1..Len(t) : t[i].seg = "word" \/ t[i] \in Range(a.text)
  BY TextReadIs
<1>3. BridgeStream(request.protocol, a, ids) = Reply(th, v, c)
  BY <1>1 DEF BridgeStream, NativeToolCallsResponse, Reply
<1> HIDE DEF t
<1>4. w \in Seq(AnswerSegs) /\ \A i \in 1..Len(w) : w[i].seg # "call"
  BY <1>2, SegmentsOfKind
<1> HIDE DEF w
<1>5. thought \in Seq(AnswerSegs) /\ v \in Seq(AnswerSegs)
      /\ (v = SplitText(w) \/ (v = <<>> /\ w # <<>> /\ w[1].seg = "leak" /\ ~w[1].ended))
  BY <1>4, ThoughtTakenOut
<1>6. th \in Seq(ThinkingParts)
  <2> HIDE DEF thought
  <2> QED
    BY <1>5, TextsArePart
<1> HIDE DEF thought, v, n
<1>7. Words(w) = Words(t) /\ OfSeg(w, "call") = <<>>
  BY <1>2, WordsStay DEF w
<1>8. TextIs(a, v)
  <2>1. CASE v = SplitText(w)
    <3>1. OfSeg(v, "word") = OfSeg(w, "word") /\ OfSeg(v, "call") = OfSeg(w, "call")
      BY <1>4, <2>1, SplitLeaves
    <3> QED
      BY <1>7, <3>1 DEF TextIs, Words, t
  <2>2. CASE v = <<>> /\ w # <<>> /\ w[1].seg = "leak" /\ ~w[1].ended
    <3>1. w[1] \in Range(t)
      <4>1. w = Kept(t, OtherSegs(AnswerSegs, "call")) /\ 1 \in 1..Len(w)
        BY <1>2, <1>4, <2>2, OfSegIs DEF w
      <4> QED
        BY <1>2, <4>1, KeptAreItems
    <3>2. PICK k \in 1..Len(t) : t[k] = w[1]
      BY <1>2, <3>1 DEF Range
    <3>3. w[1] \in Range(a.text)
      BY <1>2, <2>2, <3>2
    <3>4. Words(a.text) = <<>>
      BY <2>2, <3>3, ThoughtIsAll
    <3>5. OfSeg(<<>>, "call") = <<>>
      <4>1. <<>> \in Seq(AnswerSegs)
        OBVIOUS
      <4>2. OfSeg(<<>>, "call") = Kept(<<>>, Segs(AnswerSegs, "call"))
        BY <4>1, OfSegIs
      <4> QED
        BY <4>2, KeptNil
    <3> QED
      BY <2>2, <3>4, <3>5 DEF TextIs
  <2> QED
    BY <1>5, <2>1, <2>2
<1> HIDE DEF th, c
<1> QED
  BY <1>3, <1>5, <1>6, <1>8 DEF c, t

(* A restructured reply has the words of the answer and its calls.         *)
LEMMA StructuredIs ==
  ASSUME NEW a, IsAnswer(a), request.bridged, ~given.stream, OfSeg(a.text, "call") = <<>>,
         NEW protocol, NEW upstream
  PROVE  \E th \in Seq(ThinkingParts), v \in Seq(AnswerSegs) :
           /\ StructureResponseBody(protocol, upstream, a) = Reply(th, v, a.calls)
           /\ TextIs(a, v)
<1> DEFINE t == a.text
           v == SplitText(t)
           s == SplitThinking(t)
           r == a.reasoning
           S == NonEmptyThinking(s)
           R == NonEmptyThinking(r)
           n == NonEmptyText(v)
<1>1. t \in Seq(AnswerSegs) /\ r \in Seq(AnswerSegs)
  BY ArgumentsAre
<1>2. v \in Seq(AnswerSegs) /\ s \in Seq(AnswerSegs)
  BY <1>1, SplitKeeps
<1>3. S \in Seq(ThinkingParts) /\ R \in Seq(ThinkingParts)
  BY <1>1, <1>2, TextsArePart
<1>4. R \o S \in Seq(ThinkingParts)
  BY <1>3, ConcatShape
<1>5. TextIs(a, v)
  <2>1. OfSeg(v, "word") = OfSeg(t, "word") /\ OfSeg(v, "call") = OfSeg(t, "call")
    BY <1>1, SplitLeaves
  <2>2. TextRead(a) = t
    BY DEF TextRead, Streamed
  <2> QED
    BY <2>1, <2>2 DEF TextIs, Words
<1>6. (R \o S) \o (n \o a.calls) = Reply(R \o S, v, a.calls)
       /\ S \o (n \o a.calls) = Reply(S, v, a.calls) /\ R \o (n \o a.calls) = Reply(R, v, a.calls)
  <2> DEFINE P == ReplyParts
  <2>1. TextParts \subseteq P /\ ThinkingParts \subseteq P /\ CallParts \subseteq P
    BY DEF ReplyParts
  <2>2. n \in Seq(TextParts) /\ a.calls \in Seq(CallParts)
    BY <1>2, TextsArePart DEF IsAnswer
  <2>3. R \in Seq(P) /\ S \in Seq(P) /\ n \in Seq(P) /\ a.calls \in Seq(P) /\ R \o S \in Seq(P)
    BY <1>3, <1>4, <2>1, <2>2, SeqOfMore
  <2> DEFINE c == a.calls
             RS == R \o S
  <2>4. R \in Seq(P) /\ S \in Seq(P) /\ n \in Seq(P) /\ c \in Seq(P) /\ RS \in Seq(P)
    BY <2>3
  <2> HIDE DEF P, R, S, n, c, RS
  <2>5. RS \o (n \o c) = (RS \o n) \o c
    BY <2>4, ThreeJoined
  <2>6. S \o (n \o c) = (S \o n) \o c
    BY <2>4, ThreeJoined, SMTT(20)
  <2>7. R \o (n \o c) = (R \o n) \o c
    BY <2>4, ThreeJoined, SMTT(20)
  <2> QED
    BY <2>5, <2>6, <2>7 DEF Reply, n, RS, c
<1>7. \/ StructureResponseBody(protocol, upstream, a) = Reply(R \o S, v, a.calls)
      \/ StructureResponseBody(protocol, upstream, a) = Reply(S, v, a.calls)
      \/ StructureResponseBody(protocol, upstream, a) = Reply(R, v, a.calls)
  <2>1. CASE protocol # upstream
    <3>1. StructureResponseBody(protocol, upstream, a) = ChatResponseToMessages(a)
      BY <2>1 DEF StructureResponseBody
    <3>2. CASE r # <<>>
      BY <3>1, <3>2 DEF ChatResponseToMessages, Reply
    <3>3. CASE r = <<>>
      BY <3>1, <3>3 DEF ChatResponseToMessages, Reply
    <3> QED
      BY <3>2, <3>3
  <2>2. CASE protocol = upstream /\ protocol = "chat"
    <3>1. CASE s # <<>>
      BY <1>6, <2>2, <3>1 DEF StructureResponseBody
    <3>2. CASE s = <<>>
      BY <1>6, <2>2, <3>2 DEF StructureResponseBody
    <3> QED
      BY <3>1, <3>2
  <2>3. CASE protocol = upstream /\ protocol = "messages"
    BY <1>6, <2>3 DEF StructureResponseBody
  <2>4. CASE protocol = upstream /\ protocol # "chat" /\ protocol # "messages"
    <3>1. CASE r # <<>>
      BY <1>6, <2>4, <3>1 DEF StructureResponseBody
    <3>2. CASE r = <<>>
      BY <1>6, <2>4, <3>2 DEF StructureResponseBody
    <3> QED
      BY <3>1, <3>2
  <2> QED
    BY <2>1, <2>2, <2>3, <2>4
<1> HIDE DEF R, S, v, s, r
<1> QED
  BY <1>2, <1>3, <1>4, <1>5, <1>7

(* A reply that is not streamed, likewise.                                 *)
LEMMA BridgeJsonIs ==
  ASSUME NEW a, IsAnswer(a), request.bridged, ~given.stream, NEW protocol, NEW upstream,
         NEW ids \in Seq(STRING)
  PROVE  \E th \in Seq(ThinkingParts), v \in Seq(AnswerSegs) :
           /\ BridgeJson(protocol, upstream, a, ids)
                = Reply(th, v, IF OfSeg(a.text, "call") # <<>>
                               THEN Calls(OfSeg(a.text, "call"), ids) ELSE a.calls)
           /\ TextIs(a, v)
<1>1. CASE OfSeg(a.text, "call") = <<>>
  <2>1. BridgeJson(protocol, upstream, a, ids) = StructureResponseBody(protocol, upstream, a)
    BY <1>1 DEF BridgeJson
  <2> QED
    BY <1>1, <2>1, StructuredIs
<1>2. CASE OfSeg(a.text, "call") # <<>>
  <2> DEFINE t == a.text
             w == WithoutSeg(t, "call")
             v == SplitText(w)
             s == SplitThinking(w)
             th == NonEmptyThinking(s)
             c == Calls(OfSeg(t, "call"), ids)
  <2>1. t \in Seq(AnswerSegs) /\ TextRead(a) = t
    BY DEF IsAnswer, TextRead, Streamed
  <2>2. w \in Seq(AnswerSegs)
    BY <2>1, SegmentsOfKind
  <2>3. v \in Seq(AnswerSegs) /\ s \in Seq(AnswerSegs)
    BY <2>2, SplitKeeps
  <2>4. th \in Seq(ThinkingParts)
    BY <2>3, TextsArePart
  <2>5. BridgeJson(protocol, upstream, a, ids) = Reply(th, v, c)
    BY <1>2 DEF BridgeJson, NativeToolCallsResponse, Reply
  <2>6. OfSeg(v, "word") = OfSeg(w, "word") /\ OfSeg(v, "call") = OfSeg(w, "call")
    BY <2>2, SplitLeaves
  <2>7. Words(w) = Words(t) /\ OfSeg(w, "call") = <<>>
    BY <2>1, WordsStay
  <2>8. TextIs(a, v)
    BY <2>1, <2>6, <2>7 DEF TextIs, Words
  <2> HIDE DEF th, v
  <2> QED
    BY <1>2, <2>3, <2>4, <2>5, <2>8
<1> QED
  BY <1>1, <1>2

(* What a reply is made of, on every path.                                 *)
LEMMA ReplyIs ==
  ASSUME NEW a, IsAnswer(a), NEW ids \in Seq(STRING), Len(OfSeg(TextRead(a), "call")) <= Len(ids)
  PROVE  \E th \in Seq(ThinkingParts), v \in Seq(AnswerSegs) :
           ReplyTo(a, ids) = Reply(th, v, CallsToClient(a, ids)) /\ TextIs(a, v)
<1>1. CASE ~request.bridged
  BY <1>1, PassthroughIs DEF ReplyTo, CallsToClient
<1>2. CASE request.bridged /\ given.stream
  BY <1>2, BridgeStreamIs DEF ReplyTo, CallsToClient
<1>3. CASE request.bridged /\ ~given.stream
  <2>1. TextRead(a) = a.text
    BY <1>3 DEF TextRead, Streamed
  <2> QED
    BY <1>3, <2>1, BridgeJsonIs DEF ReplyTo, CallsToClient
<1> QED
  BY <1>1, <1>2, <1>3

-----------------------------------------------------------------------------
(* What a history is made of.                                              *)
ImageParts == [type : {"image"}, source : {"url", "base64", "file"}]
ResultParts ==
  [type : {"result"}, id : STRING, content : {o.content : o \in Outcomes},
   objects : {o.objects : o \in Outcomes}]
(* What a client returns of a reply: its parts, whose texts may be content. *)
ContentParts == [type : {"content"}, text : Seq(AnswerSegs)]
ReturnParts == ReplyParts \cup ContentParts
Parts == ReturnParts \cup ImageParts \cup ResultParts
Messages == [role : Roles, parts : Seq(Parts)]

(* A message has a role and parts.                                         *)
LEMMA MessageIs ==
  ASSUME NEW role \in Roles, NEW parts \in Seq(Parts)
  PROVE  Message(role, parts) \in Messages /\ Message(role, parts).parts = parts
<1> DEFINE P == Seq(Parts)
<1> HIDE DEF P
<1>1. parts \in P
  BY DEF P
<1>2. Message(role, parts) \in [role : Roles, parts : P]
  BY <1>1 DEF Message
<1> QED
  BY <1>2 DEF Message, Messages, P

(* The parts of messages.                                                  *)
LEMMA PartsOfMessages ==
  ASSUME NEW ms \in Seq(Messages), NEW ns \in Seq(Messages)
  PROVE  /\ PartsOf(ms) \in Seq(Parts)
         /\ PartsOf(ms \o ns) = PartsOf(ms) \o PartsOf(ns)
<1> DEFINE P == Seq(Parts)
           all(s) == [i \in DOMAIN s |-> s[i].parts]
<1>1. \A m \in Messages : m.parts \in P
  BY DEF Messages
<1> HIDE DEF P
<1>2. all(ms) \in Seq(P) /\ all(ns) \in Seq(P) /\ all(ms \o ns) = all(ms) \o all(ns)
  <2>1. all(ms) \in Seq(P) /\ Len(all(ms)) = Len(ms)
    BY <1>1
  <2>2. all(ns) \in Seq(P) /\ Len(all(ns)) = Len(ns)
    BY <1>1
  <2>3. all(ms \o ns) \in Seq(P) /\ Len(all(ms \o ns)) = Len(ms) + Len(ns)
    <3>1. ms \o ns \in Seq(Messages) /\ Len(ms \o ns) = Len(ms) + Len(ns)
      OBVIOUS
    <3> QED
      BY <1>1, <3>1
  <2>4. all(ms) \o all(ns) \in Seq(P) /\ Len(all(ms) \o all(ns)) = Len(ms) + Len(ns)
    <3> DEFINE x == all(ms)
               y == all(ns)
    <3>1. x \in Seq(P) /\ y \in Seq(P) /\ Len(x) = Len(ms) /\ Len(y) = Len(ns)
      BY <2>1, <2>2
    <3> HIDE DEF x, y
    <3>2. x \o y \in Seq(P) /\ Len(x \o y) = Len(x) + Len(y)
      BY <3>1, ConcatShape
    <3> QED
      BY <3>1, <3>2 DEF x, y
  <2>5. \A i \in 1..(Len(ms) + Len(ns)) : all(ms \o ns)[i] = (all(ms) \o all(ns))[i]
    BY <2>1, <2>2, <2>3
  <2> DEFINE u == all(ms \o ns)
             v == all(ms) \o all(ns)
  <2>6. u \in Seq(P) /\ v \in Seq(P) /\ Len(u) = Len(v) /\ \A i \in 1..Len(u) : u[i] = v[i]
    BY <2>3, <2>4, <2>5
  <2> HIDE DEF u, v
  <2>7. u = v
    BY <2>6
  <2> QED
    BY <2>1, <2>2, <2>7 DEF u, v
<1>3. \A s : PartsOf(s) = FlattenSeq(all(s))
  BY DEF PartsOf
<1> DEFINE x == all(ms)
           y == all(ns)
<1>4. PartsOf(ms) = FlattenSeq(x) /\ PartsOf(ns) = FlattenSeq(y) /\ PartsOf(ms \o ns) = FlattenSeq(x \o y)
  BY <1>2, <1>3
<1>5. x \in Seq(Seq(Parts)) /\ y \in Seq(Seq(Parts))
  BY <1>2 DEF P
<1> HIDE DEF x, y
<1>6. FlattenSeq(x) \in Seq(Parts)
  BY <1>5, FlattenType
<1>7. FlattenSeq(x \o y) = FlattenSeq(x) \o FlattenSeq(y)
  BY <1>5, FlattenConcat
<1> QED
  BY <1>4, <1>6, <1>7

(* However a client writes its parts down, they are the parts it writes.   *)
LEMMA WrittenIs ==
  ASSUME NEW role \in Roles, NEW parts \in Seq(Parts)
  PROVE  Written(role, parts) \in Seq(Messages) /\ PartsOf(Written(role, parts)) = parts
<1>0. DOMAIN parts = 1..Len(parts) /\ Len(parts) \in Nat
  OBVIOUS
<1>1. CASE Written(role, parts) = [i \in DOMAIN parts |-> Message(role, <<parts[i]>>)]
  <2> DEFINE w == [i \in DOMAIN parts |-> Message(role, <<parts[i]>>)]
  <2>1. \A i \in DOMAIN parts : <<parts[i]>> \in Seq(Parts)
    BY OneType
  <2>2. \A i \in DOMAIN parts : Message(role, <<parts[i]>>) \in Messages
                               /\ Message(role, <<parts[i]>>).parts = <<parts[i]>>
    BY <2>1, MessageIs
  <2>3. w \in Seq(Messages)
    BY <1>0, <2>2
  <2>4. [i \in DOMAIN w |-> w[i].parts] = [i \in DOMAIN parts |-> <<parts[i]>>]
    BY <2>2
  <2>5. PartsOf(w) = FlattenSeq([i \in DOMAIN parts |-> <<parts[i]>>])
    BY <2>4 DEF PartsOf
  <2> HIDE DEF w
  <2> QED
    BY <1>1, <2>3, <2>5, FlattenSingles DEF w
<1>2. CASE Written(role, parts) = <<Message(role, parts)>>
  <2> DEFINE m == Message(role, parts)
  <2>1. m \in Messages /\ m.parts = parts
    BY MessageIs
  <2> HIDE DEF m
  <2>2. <<m>> \in Seq(Messages)
    BY <2>1, OneType
  <2>3. [i \in DOMAIN <<m>> |-> <<m>>[i].parts] = <<parts>>
    BY <2>1
  <2>4. PartsOf(<<m>>) = FlattenSeq(<<parts>>)
    BY <2>3 DEF PartsOf
  <2> QED
    BY <1>2, <2>2, <2>4, FlattenOne DEF m
<1> QED
  BY <1>1, <1>2 DEF Written

(* What a client returns of a reply has all of its parts but thinking.     *)
LEMMA EchoedIs ==
  ASSUME NEW parts \in Seq(ReplyParts)
  PROVE  /\ Echoed(parts) \in Seq(ReplyParts)
         /\ \A x : x # "thinking" => OfType(Echoed(parts), x) = OfType(parts, x)
<1> DEFINE A == ReplyParts
           S == {p \in Range(parts) : p.type # "thinking"}
<1> HIDE DEF A
<1>0. parts \in Seq(A)
  BY DEF A
<1>1. Kept(parts, S) \in Seq(A)
  BY <1>0, KeptType
<1>2. ASSUME NEW x, x # "thinking"
      PROVE  OfType(Kept(parts, S), x) = OfType(parts, x)
  <2>1. OfType(Kept(parts, S), x) = Kept(Kept(parts, S), Typed(A, x))
    BY <1>1, OfTypeIs
  <2>2. Kept(Kept(parts, S), Typed(A, x)) = Kept(parts, S \cap Typed(A, x))
    BY <1>0, KeptKept
  <2>3. \A i \in 1..Len(parts) : parts[i] \in S \cap Typed(A, x) <=> parts[i] \in Typed(A, x)
    BY <1>0, <1>2 DEF Range, Typed
  <2>4. Kept(parts, S \cap Typed(A, x)) = Kept(parts, Typed(A, x))
    BY <1>0, <2>3, KeptSame
  <2> QED
    BY <1>0, <2>1, <2>2, <2>4, OfTypeIs
<1>3. Echoed(parts) = parts \/ Echoed(parts) = Kept(parts, S)
  BY DEF Echoed
<1> QED
  BY <1>0, <1>1, <1>2, <1>3 DEF A

(* A client's spelling turns texts into content and leaves the rest.       *)
LEMMA SpelledIs ==
  ASSUME NEW parts \in Seq(ReplyParts)
  PROVE  /\ Spelled(parts) \in Seq(ReturnParts) /\ Len(Spelled(parts)) = Len(parts)
         /\ \A i \in 1..Len(parts) :
              \/ Spelled(parts)[i] = parts[i]
              \/ /\ InParts(parts) /\ parts[i] \in TextParts
                 /\ Spelled(parts)[i] = ContentPart(parts[i].text)
         /\ \A x : x \notin {"text", "content"} => OfType(Spelled(parts), x) = OfType(parts, x)
<1> DEFINE t == Spelled(parts)
           R == ReturnParts
<1>1. Len(parts) \in Nat /\ DOMAIN parts = 1..Len(parts) /\ \A i \in 1..Len(parts) : parts[i] \in ReplyParts
  OBVIOUS
<1>2. \A p \in ReplyParts :
        /\ p \in R
        /\ p.type = "text" => p \in TextParts
        /\ p \in TextParts => ContentPart(p.text) \in R
  <2> DEFINE T == Seq(AnswerSegs)
  <2> HIDE DEF T
  <2>1. /\ TextParts = [type : {"text"}, text : T] /\ ContentParts = [type : {"content"}, text : T]
        /\ ThinkingParts = [type : {"thinking"}, text : T]
    BY DEF TextParts, ContentParts, ThinkingParts, T
  <2> QED
    BY <2>1 DEF ReturnParts, ReplyParts, CallParts, ContentPart
<1>3. t = IF InParts(parts)
          THEN [i \in 1..Len(parts) |-> IF parts[i].type = "text" THEN ContentPart(parts[i].text) ELSE parts[i]]
          ELSE parts
  BY <1>1 DEF Spelled
<1> HIDE DEF t, R
<1>a. ASSUME NEW i \in 1..Len(parts)
      PROVE  /\ parts[i] \in R
             /\ parts[i].type = "text" => parts[i] \in TextParts /\ ContentPart(parts[i].text) \in R
  <2> DEFINE p == parts[i]
  <2>1. p \in ReplyParts
    BY <1>1
  <2> HIDE DEF p
  <2>2. p \in R /\ (p.type = "text" => p \in TextParts /\ ContentPart(p.text) \in R)
    BY <1>2, <2>1
  <2> QED
    BY <2>2 DEF p
<1>4. \A i \in 1..Len(parts) :
        \/ t[i] = parts[i]
        \/ InParts(parts) /\ parts[i] \in TextParts /\ t[i] = ContentPart(parts[i].text)
  <2> SUFFICES ASSUME NEW i \in 1..Len(parts)
               PROVE  \/ t[i] = parts[i]
                      \/ InParts(parts) /\ parts[i] \in TextParts /\ t[i] = ContentPart(parts[i].text)
    OBVIOUS
  <2>1. CASE InParts(parts) /\ parts[i].type = "text"
    BY <1>a, <1>3, <2>1
  <2>2. CASE InParts(parts) /\ parts[i].type # "text"
    BY <1>1, <1>3, <2>2
  <2>3. CASE ~InParts(parts)
    BY <1>3, <2>3
  <2> QED
    BY <2>1, <2>2, <2>3
<1>5. t \in Seq(R) /\ Len(t) = Len(parts) /\ DOMAIN t = 1..Len(parts)
  <2>1. CASE InParts(parts)
    <3> DEFINE y(i) == IF parts[i].type = "text" THEN ContentPart(parts[i].text) ELSE parts[i]
    <3>1. ASSUME NEW i \in 1..Len(parts) PROVE y(i) \in R
      <4>1. parts[i] \in R /\ (parts[i].type = "text" => ContentPart(parts[i].text) \in R)
        BY <1>a
      <4> QED
        BY <4>1
    <3>2. t = [i \in 1..Len(parts) |-> y(i)]
      BY <1>3, <2>1
    <3> HIDE DEF y
    <3> QED
      BY <1>1, <3>1, <3>2
  <2>2. CASE ~InParts(parts)
    <3>1. parts \in Seq(R)
      BY <1>2, SeqOfMore DEF R, ReturnParts
    <3> QED
      BY <1>1, <1>3, <2>2, <3>1
  <2> QED
    BY <2>1, <2>2
<1>6. ASSUME NEW x, x \notin {"text", "content"} PROVE OfType(t, x) = OfType(parts, x)
  <2> DEFINE S == {p : p \in {t[i] : i \in 1..Len(parts)} \cup {parts[i] : i \in 1..Len(parts)}}
             T == Typed(S, x)
  <2>1. t \in Seq(S) /\ parts \in Seq(S)
    <3>1. \A i \in 1..Len(parts) : t[i] \in S /\ parts[i] \in S
      OBVIOUS
    <3> HIDE DEF S
    <3> QED
      BY <1>1, <1>5, <3>1
  <2> HIDE DEF S
  <2>2. OfType(t, x) = Kept(t, T) /\ OfType(parts, x) = Kept(parts, T)
    BY <2>1, OfTypeIs
  <2>3. \A i \in 1..Len(parts) : t[i] # parts[i] => t[i] \notin T /\ parts[i] \notin T
    <3>1. \A p \in TextParts : p.type = "text" /\ ContentPart(p.text).type = "content"
      BY DEF TextParts, ContentPart
    <3> QED
      BY <1>4, <1>6, <3>1 DEF Typed
  <2> HIDE DEF T
  <2>4. [i \in DOMAIN t |-> IF t[i] \in T THEN <<t[i]>> ELSE <<>>]
        = [i \in DOMAIN parts |-> IF parts[i] \in T THEN <<parts[i]>> ELSE <<>>]
    BY <1>1, <1>5, <2>3
  <2>5. Kept(t, T) = Kept(parts, T)
    BY <2>4 DEF Kept
  <2> QED
    BY <2>2, <2>5
<1> QED
  BY <1>4, <1>5, <1>6 DEF t, R

(* What a client returns of a reply, in its spelling.                      *)
Back(parts) == Spelled(Echoed(parts))

(* It has the calls of the reply and no results.                           *)
LEMMA BackIs ==
  ASSUME NEW parts \in Seq(ReplyParts)
  PROVE  /\ Back(parts) \in Seq(ReturnParts) /\ Back(parts) \in Seq(Parts)
         /\ OfType(Back(parts), "call") = OfType(parts, "call")
         /\ OfType(Back(parts), "result") = OfType(parts, "result")
<1> DEFINE e == Echoed(parts)
<1>1. e \in Seq(ReplyParts) /\ OfType(e, "call") = OfType(parts, "call")
      /\ OfType(e, "result") = OfType(parts, "result")
  BY EchoedIs
<1> HIDE DEF e
<1>2. Spelled(e) \in Seq(ReturnParts) /\ OfType(Spelled(e), "call") = OfType(e, "call")
      /\ OfType(Spelled(e), "result") = OfType(e, "result")
  BY <1>1, SpelledIs
<1>3. ReturnParts \subseteq Parts
  BY DEF Parts
<1>4. Spelled(e) \in Seq(Parts)
  BY <1>2, <1>3, SeqOfMore
<1> QED
  BY <1>1, <1>2, <1>4 DEF Back, e

-----------------------------------------------------------------------------
(* What stays between two steps.                                           *)

(* The types of what is kept between two steps.                            *)
TypesInv ==
  /\ client \in Clients
  /\ history \in Seq(Messages)
  /\ minted \in 0..Len(CallIds)
  /\ phase = "replied" => reply \in Seq(ReplyParts)

(* The results of a reply's calls, in the order in which they come.        *)
Results(order, outcome) ==
  LET calls == OfType(reply, "call")
  IN  [i \in DOMAIN order |-> ResultPart(calls[order[i]].id, outcome.content, outcome.objects)]

(* The parts a message can have.                                           *)
LEMMA PartKinds ==
  /\ ReplyParts \subseteq Parts /\ ResultParts \subseteq Parts /\ QuestionParts \subseteq Parts
  /\ \A p \in ResultParts : p.type = "result"
  /\ \A p \in ReplyParts : p.type \in {"text", "thinking", "call"}
  /\ \A p \in ReturnParts : p.type \in {"text", "content", "thinking", "call"}
  /\ \A p \in ReplyParts : p.type = "call" => p \in CallParts
  /\ \A p \in QuestionParts : p.type \in {"text", "image"}
  /\ \A t \in Seq(WordSegs) : t \in Seq(AnswerSegs) /\ TextPart(t) \in Parts
<1>1. WordSegs \subseteq AnswerSegs
  BY DEF AnswerSegs
<1>2. \A t \in Seq(WordSegs) : t \in Seq(AnswerSegs)
  BY <1>1, SeqOfMore
<1> DEFINE W == Seq(WordSegs)
           S == Seq(AnswerSegs)
<1>3. W \subseteq S
  BY <1>2
<1> HIDE DEF W, S
<1>4. QuestionParts = [type : {"text"}, text : W] \cup ImageParts
  BY DEF QuestionParts, ImageParts, W
<1>5. ReplyParts = ([type : {"text"}, text : S] \cup [type : {"thinking"}, text : S]) \cup CallParts
  BY DEF ReplyParts, TextParts, ThinkingParts, S
<1>6. ReplyParts \subseteq Parts /\ ResultParts \subseteq Parts /\ ImageParts \subseteq Parts
  BY DEF Parts, ReturnParts
<1>7. QuestionParts \subseteq Parts
  BY <1>3, <1>4, <1>5, <1>6
<1>8. \A p \in ResultParts : p.type = "result"
  BY DEF ResultParts
<1>9. /\ \A p \in ReplyParts : p.type \in {"text", "thinking", "call"}
      /\ \A p \in ReplyParts : p.type = "call" => p \in CallParts
  BY <1>5 DEF CallParts
<1>a. \A p \in ReturnParts : p.type \in {"text", "content", "thinking", "call"}
  <2>1. ContentParts = [type : {"content"}, text : S]
    BY DEF ContentParts, S
  <2> QED
    BY <1>9, <2>1 DEF ReturnParts
<1>10. \A p \in QuestionParts : p.type \in {"text", "image"}
  BY <1>4 DEF ImageParts
<1>11. \A t \in W : TextPart(t) \in Parts
  BY <1>3, <1>5, <1>6 DEF TextPart
<1> QED
  BY <1>2, <1>6, <1>7, <1>8, <1>9, <1>10, <1>11, <1>a DEF W

(* A question goes behind the history.                                     *)
LEMMA AskAdds ==
  ASSUME TypesInv, NEW parts \in Questions, NEW tools, NEW stream, Ask(parts, tools, stream)
  PROVE  /\ parts \in Seq(QuestionParts)
         /\ history' \in Seq(Messages)
         /\ PartsOf(history') = PartsOf(history) \o parts
<1> DEFINE w == Written("user", parts)
<1>1. parts \in Seq(QuestionParts)
  BY QuestionsAssumption
<1>2. parts \in Seq(Parts)
  BY <1>1, PartKinds, SeqOfMore
<1>3. "user" \in Roles
  BY DEF Roles
<1>4. w \in Seq(Messages) /\ PartsOf(w) = parts
  BY <1>2, <1>3, WrittenIs
<1>5. history' = history \o w /\ history \in Seq(Messages)
  BY DEF Ask, TypesInv
<1> HIDE DEF w
<1>6. history \o w \in Seq(Messages) /\ PartsOf(history \o w) = PartsOf(history) \o PartsOf(w)
  BY <1>4, <1>5, PartsOfMessages, ConcatShape
<1> QED
  BY <1>1, <1>4, <1>5, <1>6

(* A reply without calls goes behind the history.                          *)
LEMMA ReadAdds ==
  ASSUME TypesInv, ReadAnswer
  PROVE  /\ reply \in Seq(ReplyParts) /\ OfType(reply, "call") = <<>>
         /\ history' \in Seq(Messages)
         /\ PartsOf(history') = PartsOf(history) \o Back(reply)
<1> DEFINE e == Back(reply)
           w == Written("assistant", e)
<1>1. reply \in Seq(ReplyParts) /\ OfType(reply, "call") = <<>>
  BY DEF TypesInv, ReadAnswer
<1>2. e \in Seq(Parts)
  BY <1>1, BackIs
<1>3. "assistant" \in Roles
  BY DEF Roles
<1>4. w \in Seq(Messages) /\ PartsOf(w) = e
  BY <1>2, <1>3, WrittenIs
<1>5. history' = history \o w /\ history \in Seq(Messages)
  BY DEF ReadAnswer, TypesInv, Returned, Back
<1> HIDE DEF w
<1>6. history \o w \in Seq(Messages) /\ PartsOf(history \o w) = PartsOf(history) \o PartsOf(w)
  BY <1>4, <1>5, PartsOfMessages, ConcatShape
<1> QED
  BY <1>1, <1>4, <1>5, <1>6

(* A reply with calls goes behind the history, and the results of its      *)
(* calls behind it.                                                        *)
LEMMA RunAdds ==
  ASSUME TypesInv, NEW order, NEW outcome \in Outcomes, NEW tools, RunTools(order, outcome, tools)
  PROVE  /\ reply \in Seq(ReplyParts) /\ order \in Orders(Len(OfType(reply, "call")))
         /\ Results(order, outcome) \in Seq(ResultParts)
         /\ Len(Results(order, outcome)) = Len(OfType(reply, "call"))
         /\ \A i \in 1..Len(OfType(reply, "call")) :
              Results(order, outcome)[i].id = OfType(reply, "call")[order[i]].id
         /\ history' \in Seq(Messages)
         /\ PartsOf(history') = (PartsOf(history) \o Back(reply)) \o Results(order, outcome)
<1> DEFINE e == Back(reply)
           calls == OfType(reply, "call")
           r == Results(order, outcome)
           w == Written("assistant", e)
           z == Written(ResultRole, r)
<1>1. phase = "replied" /\ order \in Orders(Len(calls)) /\ history' = history \o w \o z
  BY DEF RunTools, Results, Returned, Back
<1>2. reply \in Seq(ReplyParts) /\ history \in Seq(Messages)
  BY <1>1 DEF TypesInv
<1>3. calls \in Seq(Typed(ReplyParts, "call"))
  BY <1>2, OfOneType
<1>4. Typed(ReplyParts, "call") \subseteq CallParts
  BY PartKinds DEF Typed
<1>5. calls \in Seq(CallParts)
  BY <1>3, <1>4, SeqOfMore
<1>6. r \in Seq(ResultParts) /\ Len(r) = Len(calls) /\ \A i \in 1..Len(calls) : r[i].id = calls[order[i]].id
  <2> HIDE DEF calls
  <2>1. order \in [1..Len(calls) -> 1..Len(calls)] /\ Len(calls) \in Nat
    BY <1>1, <1>5 DEF Orders
  <2>2. \A i \in 1..Len(calls) : calls[order[i]].id \in STRING
    <3>1. \A c \in CallParts : c.id \in STRING
      BY DEF CallParts
    <3>2. \A i \in 1..Len(calls) : order[i] \in 1..Len(calls)
      BY <2>1
    <3>3. \A k \in 1..Len(calls) : calls[k] \in CallParts
      BY <1>5
    <3> QED
      BY <3>1, <3>2, <3>3
  <2>3. \A i \in 1..Len(calls) :
          /\ ResultPart(calls[order[i]].id, outcome.content, outcome.objects) \in ResultParts
          /\ ResultPart(calls[order[i]].id, outcome.content, outcome.objects).id = calls[order[i]].id
    BY <2>2 DEF ResultPart, ResultParts
  <2>4. r = [i \in 1..Len(calls) |-> ResultPart(calls[order[i]].id, outcome.content, outcome.objects)]
    BY <2>1 DEF Results, calls
  <2> HIDE DEF r
  <2> QED
    BY <2>1, <2>3, <2>4
<1>7. e \in Seq(Parts) /\ r \in Seq(Parts)
  <2>1. e \in Seq(Parts)
    BY <1>2, BackIs
  <2> HIDE DEF e, r
  <2> QED
    BY <1>6, <2>1, PartKinds, SeqOfMore
<1>8. "assistant" \in Roles /\ ResultRole \in Roles
  BY DEF Roles, ResultRole
<1>9. w \in Seq(Messages) /\ PartsOf(w) = e
  BY <1>7, <1>8, WrittenIs
<1>10. z \in Seq(Messages) /\ PartsOf(z) = r
  BY <1>7, <1>8, WrittenIs
<1> HIDE DEF w, z, e, r, calls
<1>11. history \o w \in Seq(Messages) /\ PartsOf(history \o w) = PartsOf(history) \o PartsOf(w)
  BY <1>2, <1>9, PartsOfMessages, ConcatShape
<1> DEFINE h == history \o w
<1>12. h \in Seq(Messages)
  BY <1>11
<1> HIDE DEF h
<1>13. h \o z \in Seq(Messages) /\ PartsOf(h \o z) = PartsOf(h) \o PartsOf(z)
  BY <1>10, <1>12, PartsOfMessages, ConcatShape
<1> QED
  BY <1>1, <1>2, <1>6, <1>9, <1>10, <1>11, <1>13 DEF h, calls, e, r

(* An answer and its reply are what the lemmas about replies speak of.     *)
LEMMA AnswerArrives ==
  ASSUME TypesInv, NEW a \in Answers(From(CallIds, minted + 1)), UpstreamAnswers(a)
  PROVE  LET ids == From(CallIds, minted + Len(a.calls) + 1)
             named == OfSeg(TextRead(a), "call")
         IN  /\ IsAnswer(a) /\ ids \in Seq(STRING) /\ Len(named) \in Nat /\ Len(named) <= Len(ids)
             /\ \A i \in 1..Len(ids) : ids[i] = CallIds[minted + Len(a.calls) + i]
             /\ \A i \in 1..Len(a.calls) : a.calls[i].id = CallIds[minted + i]
             /\ reply' = ReplyTo(a, ids) /\ answer' = a
             /\ minted' = minted + Len(a.calls) + Len(named) /\ minted' \in 0..Len(CallIds)
<1> DEFINE ids == From(CallIds, minted + Len(a.calls) + 1)
           named == OfSeg(TextRead(a), "call")
           rest == From(CallIds, minted + 1)
<1>1. CallIds \in Seq(STRING) /\ Len(CallIds) \in Nat /\ minted \in 0..Len(CallIds)
  BY CallIdsAssumption DEF TypesInv
<1>2. minted + 1 \in 1..(Len(CallIds) + 1)
  BY <1>1
<1>3. /\ a.text \in Seq(AnswerSegs) /\ a.reasoning \in Seq(WordSegs) /\ a.calls \in Seq(CallParts)
      /\ Len(a.calls) <= Len(rest)
      /\ \A i \in DOMAIN a.calls : a.calls[i].id = rest[i]
      /\ IsAnswer(a)
  BY <1>2, AnswersAssumption DEF IsAnswer, LeaksLead
<1>4. Len(a.calls) \in Nat /\ DOMAIN a.calls = 1..Len(a.calls)
  BY <1>3
<1>5. Len(rest) = Len(CallIds) - minted /\ \A i \in 1..Len(rest) : rest[i] = CallIds[minted + i]
  <2>1. Len(rest) = Len(CallIds) - (minted + 1) + 1
        /\ \A k \in 1..(Len(CallIds) - (minted + 1) + 1) : rest[k] = CallIds[(minted + 1) + k - 1]
    BY <1>1, <1>2, FromRest
  <2> HIDE DEF rest
  <2> QED
    BY <1>1, <2>1
<1>6. \A i \in 1..Len(a.calls) : a.calls[i].id = CallIds[minted + i]
  <2> HIDE DEF rest
  <2>1. \A i \in 1..Len(a.calls) : i \in 1..Len(rest)
    BY <1>1, <1>3, <1>4, <1>5
  <2> QED
    BY <1>3, <1>4, <1>5, <2>1
<1>7. Len(named) \in Nat
  <2>1. named \in Seq(AnswerSegs)
    BY <1>3, TextReadIs, SegmentsOfKind
  <2> QED
    BY <2>1
<1>8. /\ minted + Len(a.calls) + Len(named) <= Len(CallIds)
      /\ reply' = ReplyTo(a, ids) /\ answer' = a /\ minted' = minted + Len(a.calls) + Len(named)
  <2>1. /\ minted + Calling(a) <= Len(CallIds)
        /\ reply' = ReplyTo(a, ids) /\ answer' = a /\ minted' = minted + Calling(a)
    BY DEF UpstreamAnswers
  <2>2. Calling(a) = Len(a.calls) + Len(named)
    BY DEF Calling
  <2> HIDE DEF ids, named
  <2> QED
    BY <1>1, <1>4, <1>7, <2>1, <2>2
<1>9. minted + Len(a.calls) + 1 \in 1..(Len(CallIds) + 1) /\ minted' \in 0..Len(CallIds)
  <2> HIDE DEF named
  <2> QED
    BY <1>1, <1>4, <1>7, <1>8
<1>10. /\ ids \in Seq(STRING) /\ Len(ids) = Len(CallIds) - (minted + Len(a.calls) + 1) + 1
       /\ \A k \in 1..(Len(CallIds) - (minted + Len(a.calls) + 1) + 1) :
            ids[k] = CallIds[(minted + Len(a.calls) + 1) + k - 1]
  BY <1>1, <1>9, FromRest
<1>11. Len(named) <= Len(ids) /\ \A i \in 1..Len(ids) : ids[i] = CallIds[minted + Len(a.calls) + i]
  <2> HIDE DEF named, ids
  <2> QED
    BY <1>1, <1>4, <1>7, <1>8, <1>10
<1> HIDE DEF named, ids
<1> QED
  BY <1>3, <1>6, <1>7, <1>8, <1>9, <1>10, <1>11 DEF named, ids

(* Initially there are the types.                                          *)
LEMMA TypesInitially == ConversationInit => TypesInv /\ PartsOf(history) \in Seq(Typed(Parts, "text"))
<1> SUFFICES ASSUME ConversationInit PROVE TypesInv /\ PartsOf(history) \in Seq(Typed(Parts, "text"))
  OBVIOUS
<1>1. client \in Clients /\ phase = "client" /\ minted = 0
  BY DEF ConversationInit
<1>2. 0 \in 0..Len(CallIds)
  BY CallIdsAssumption
<1>3. CASE history = <<>>
  <2>1. history \in Seq(Messages) /\ PartsOf(history) = <<>>
    <3>1. [i \in DOMAIN history |-> history[i].parts] = <<>>
      BY <1>3
    <3> QED
      BY <1>3, <3>1, FlattenNil DEF PartsOf
  <2> QED
    BY <1>1, <1>2, <2>1 DEF TypesInv
<1>4. CASE history = <<Message("system", <<TextPart(client.system)>>)>>
  <2> DEFINE t == TextPart(client.system)
             one == <<t>>
             m == Message("system", one)
  <2>1. client.system \in Seq(WordSegs)
    BY <1>1, ClientsAssumption
  <2>2. t \in Parts /\ t.type = "text"
    BY <2>1, PartKinds DEF TextPart
  <2> HIDE DEF t
  <2>3. one \in Seq(Parts) /\ one \in Seq(Typed(Parts, "text"))
    BY <2>2, OneType DEF Typed
  <2>4. m \in Messages /\ m.parts = one
    BY <2>3, MessageIs DEF Roles
  <2> HIDE DEF one, m
  <2>5. <<m>> \in Seq(Messages) /\ [i \in DOMAIN <<m>> |-> <<m>>[i].parts] = <<one>>
    BY <2>4, OneType
  <2>6. PartsOf(<<m>>) = one
    BY <2>3, <2>5, FlattenOne DEF PartsOf
  <2>7. history = <<m>>
    BY <1>4 DEF m, one, t
  <2> QED
    BY <1>1, <1>2, <2>3, <2>5, <2>6, <2>7 DEF TypesInv
<1> QED
  BY <1>3, <1>4 DEF ConversationInit

(* A reply's parts have their types.                                       *)
LEMMA ReplyTyped ==
  ASSUME TypesInv, NEW a \in Answers(From(CallIds, minted + 1)), UpstreamAnswers(a)
  PROVE  reply' \in Seq(ReplyParts)
<1> DEFINE ids == From(CallIds, minted + Len(a.calls) + 1)
<1>1. IsAnswer(a) /\ ids \in Seq(STRING) /\ Len(OfSeg(TextRead(a), "call")) <= Len(ids) /\ reply' = ReplyTo(a, ids)
  BY AnswerArrives
<1> HIDE DEF ids
<1>2. PICK th \in Seq(ThinkingParts), v \in Seq(AnswerSegs) : ReplyTo(a, ids) = Reply(th, v, CallsToClient(a, ids))
  BY <1>1, ReplyIs
<1>3. CallsToClient(a, ids) \in Seq(CallParts)
  BY <1>1, TextReadIs, CallsAre DEF CallsToClient, IsAnswer
<1> QED
  BY <1>1, <1>2, <1>3, ReplyShape

(* Every step keeps the types.                                             *)
LEMMA TypesStay == ASSUME TypesInv, [ConversationNext]_conversationVars PROVE TypesInv'
<1>1. ASSUME NEW parts \in Questions, NEW tools, NEW stream, Ask(parts, tools, stream) PROVE TypesInv'
  <2>1. history' \in Seq(Messages)
    BY <1>1, AskAdds
  <2>2. client' = client /\ minted' = minted /\ phase' = "sent"
    BY <1>1 DEF Ask, Sends
  <2> QED
    BY <2>1, <2>2 DEF TypesInv
<1>2. CASE AskAgain
  BY <1>2 DEF AskAgain, Sends, TypesInv
<1>3. CASE ReadAnswer
  <2>1. history' \in Seq(Messages)
    BY <1>3, ReadAdds
  <2>2. client' = client /\ minted' = minted /\ phase' = "client"
    BY <1>3 DEF ReadAnswer
  <2> QED
    BY <2>1, <2>2 DEF TypesInv
<1>4. ASSUME NEW order, NEW outcome \in Outcomes, NEW tools, RunTools(order, outcome, tools) PROVE TypesInv'
  <2>1. history' \in Seq(Messages)
    BY <1>4, RunAdds
  <2>2. client' = client /\ minted' = minted /\ phase' = "sent"
    BY <1>4 DEF RunTools, Sends
  <2> QED
    BY <2>1, <2>2 DEF TypesInv
<1>5. CASE Refuse
  BY <1>5 DEF Refuse, TypesInv
<1>6. CASE Forward
  BY <1>6 DEF Forward, TypesInv
<1>7. ASSUME NEW a \in Answers(From(CallIds, minted + 1)), UpstreamAnswers(a) PROVE TypesInv'
  <2>1. reply' \in Seq(ReplyParts) /\ minted' \in 0..Len(CallIds)
    BY <1>7, ReplyTyped, AnswerArrives
  <2>2. client' = client /\ history' = history
    BY <1>7 DEF UpstreamAnswers
  <2> QED
    BY <2>1, <2>2 DEF TypesInv
<1>8. CASE UpstreamFails
  BY <1>8 DEF UpstreamFails, TypesInv
<1>9. CASE UNCHANGED conversationVars
  BY <1>9 DEF conversationVars, TypesInv
<1> QED
  BY <1>1, <1>2, <1>3, <1>4, <1>5, <1>6, <1>7, <1>8, <1>9 DEF ConversationNext, ClientNext

(* The types hold throughout.                                              *)
LEMMA TypesHold == ConversationSpec => []TypesInv
<1>1. ConversationInit => TypesInv
  BY TypesInitially
<1>2. TypesInv /\ [ConversationNext]_conversationVars => TypesInv'
  BY TypesStay
<1> QED
  BY <1>1, <1>2, PTL DEF ConversationSpec

(* A reply comes only with an answer.                                      *)
LEMMA OnlyAnswersReply ==
  ASSUME [ConversationNext]_conversationVars
  PROVE  \/ phase' # "replied"
         \/ UNCHANGED conversationVars
         \/ \E a \in Answers(From(CallIds, minted + 1)) : UpstreamAnswers(a)
<1>1. CASE ClientNext
  BY <1>1 DEF ClientNext, Ask, AskAgain, ReadAnswer, RunTools, Sends
<1>2. CASE Refuse
  BY <1>2 DEF Refuse
<1>3. CASE Forward
  BY <1>3 DEF Forward
<1>4. CASE UpstreamFails
  BY <1>4 DEF UpstreamFails
<1> QED
  BY <1>1, <1>2, <1>3, <1>4 DEF ConversationNext

-----------------------------------------------------------------------------
(* Every reply carries its answer under new ids.                           *)

(* The ids of the calls among parts.                                       *)
IdSet(parts) == Range(IdsOf(OfType(parts, "call")))

(* The ids that were minted so far.                                        *)
Used(n) == {CallIds[i] : i \in 1..n}

(* The ids of a list, and of two.                                          *)
LEMMA IdsAre ==
  ASSUME NEW A, NEW s \in Seq(A)
  PROVE  /\ DOMAIN IdsOf(s) = 1..Len(s) /\ \A i \in 1..Len(s) : IdsOf(s)[i] = s[i].id
         /\ Range(IdsOf(s)) = {s[i].id : i \in 1..Len(s)}
<1>1. DOMAIN s = 1..Len(s)
  OBVIOUS
<1> QED
  BY <1>1 DEF IdsOf, Range

(* The ids of two lists are those of both.                                 *)
LEMMA IdsOfTwo ==
  ASSUME NEW A, NEW s \in Seq(A), NEW t \in Seq(A)
  PROVE  Range(IdsOf(s \o t)) = Range(IdsOf(s)) \cup Range(IdsOf(t))
<1>1. s \o t \in Seq(A) /\ Len(s \o t) = Len(s) + Len(t) /\ Len(s) \in Nat /\ Len(t) \in Nat
  OBVIOUS
<1>2. Range(IdsOf(s \o t)) = {(s \o t)[i].id : i \in 1..Len(s \o t)}
  BY <1>1, IdsAre
<1>3. Range(IdsOf(s)) = {s[i].id : i \in 1..Len(s)} /\ Range(IdsOf(t)) = {t[i].id : i \in 1..Len(t)}
  BY IdsAre
<1>4. \A i \in 1..Len(s) : i \in 1..Len(s \o t) /\ (s \o t)[i] = s[i]
  BY <1>1
<1>5. \A i \in 1..Len(t) : Len(s) + i \in 1..Len(s \o t) /\ (s \o t)[Len(s) + i] = t[i]
  BY <1>1
<1>6. \A i \in 1..Len(s \o t) : (i \in 1..Len(s) /\ (s \o t)[i] = s[i])
                                \/ (i - Len(s) \in 1..Len(t) /\ (s \o t)[i] = t[i - Len(s)])
  BY <1>1
<1> DEFINE u == s \o t
<1>a. /\ \A i \in 1..Len(s) : i \in 1..Len(u) /\ u[i] = s[i]
      /\ \A i \in 1..Len(t) : Len(s) + i \in 1..Len(u) /\ u[Len(s) + i] = t[i]
      /\ \A i \in 1..Len(u) : (i \in 1..Len(s) /\ u[i] = s[i])
                              \/ (i - Len(s) \in 1..Len(t) /\ u[i] = t[i - Len(s)])
  BY <1>4, <1>5, <1>6
<1> HIDE DEF u
<1>7. {u[i].id : i \in 1..Len(u)} = {s[i].id : i \in 1..Len(s)} \cup {t[i].id : i \in 1..Len(t)}
  <2>1. \A i \in 1..Len(s) : s[i].id \in {u[j].id : j \in 1..Len(u)}
    BY <1>a
  <2>2. \A i \in 1..Len(t) : t[i].id \in {u[j].id : j \in 1..Len(u)}
    BY <1>a
  <2>3. \A i \in 1..Len(u) :
          u[i].id \in {s[j].id : j \in 1..Len(s)} \cup {t[j].id : j \in 1..Len(t)}
    BY <1>a
  <2> QED
    BY <2>1, <2>2, <2>3
<1> QED
  BY <1>2, <1>3, <1>7 DEF u

(* Two lists without a common id, each without a repeated one, have none   *)
(* together.                                                               *)
LEMMA DistinctTwo ==
  ASSUME NEW A, NEW s \in Seq(A), NEW t \in Seq(A), Distinct(IdsOf(s)), Distinct(IdsOf(t)),
         Range(IdsOf(s)) \cap Range(IdsOf(t)) = {}
  PROVE  Distinct(IdsOf(s \o t))
<1>1. s \o t \in Seq(A) /\ Len(s \o t) = Len(s) + Len(t) /\ Len(s) \in Nat /\ Len(t) \in Nat
  OBVIOUS
<1>2. /\ DOMAIN IdsOf(s \o t) = 1..Len(s \o t)
      /\ \A i \in 1..Len(s \o t) : IdsOf(s \o t)[i] = (s \o t)[i].id
  BY <1>1, IdsAre
<1>3. \A i \in 1..Len(s \o t) : (i \in 1..Len(s) /\ (s \o t)[i] = s[i])
                                \/ (i - Len(s) \in 1..Len(t) /\ (s \o t)[i] = t[i - Len(s)])
  BY <1>1
<1>4. /\ \A i \in 1..Len(s) : s[i].id \in Range(IdsOf(s))
      /\ \A i \in 1..Len(t) : t[i].id \in Range(IdsOf(t))
  BY IdsAre
<1>5. /\ \A i, j \in 1..Len(s) : s[i].id = s[j].id => i = j
      /\ \A i, j \in 1..Len(t) : t[i].id = t[j].id => i = j
  BY IdsAre DEF Distinct
<1> DEFINE u == s \o t
<1>6. /\ DOMAIN IdsOf(u) = 1..Len(u) /\ \A i \in 1..Len(u) : IdsOf(u)[i] = u[i].id
      /\ \A i \in 1..Len(u) : (i \in 1..Len(s) /\ u[i] = s[i]) \/ (i - Len(s) \in 1..Len(t) /\ u[i] = t[i - Len(s)])
      /\ Len(u) \in Nat
  BY <1>1, <1>2, <1>3
<1> HIDE DEF u
<1>7. ASSUME NEW i \in 1..Len(u), NEW j \in 1..Len(u), u[i].id = u[j].id PROVE i = j
  <2>1. CASE i \in 1..Len(s) /\ u[i] = s[i] /\ j \in 1..Len(s) /\ u[j] = s[j]
    BY <1>5, <1>7, <2>1
  <2>2. CASE i - Len(s) \in 1..Len(t) /\ u[i] = t[i - Len(s)] /\ j - Len(s) \in 1..Len(t) /\ u[j] = t[j - Len(s)]
    <3>1. i - Len(s) = j - Len(s)
      BY <1>5, <1>7, <2>2
    <3> QED
      BY <1>1, <1>6, <3>1
  <2>3. CASE i \in 1..Len(s) /\ u[i] = s[i] /\ j - Len(s) \in 1..Len(t) /\ u[j] = t[j - Len(s)]
    BY <1>4, <1>7, <2>3
  <2>4. CASE i - Len(s) \in 1..Len(t) /\ u[i] = t[i - Len(s)] /\ j \in 1..Len(s) /\ u[j] = s[j]
    BY <1>4, <1>7, <2>4
  <2> QED
    BY <1>6, <2>1, <2>2, <2>3, <2>4
<1> QED
  BY <1>6, <1>7 DEF Distinct, u

(* No call means no id.                                                    *)
LEMMA NoIds ==
  ASSUME NEW parts, OfType(parts, "call") = <<>>
  PROVE  IdSet(parts) = {} /\ Distinct(IdsOf(OfType(parts, "call")))
<1>1. IdsOf(<<>>) = <<>> /\ DOMAIN <<>> = {}
  BY DEF IdsOf
<1> QED
  BY <1>1 DEF IdSet, Distinct, Range

(* The ids among two lists of parts.                                       *)
LEMMA IdSetOfTwo ==
  ASSUME NEW s \in Seq(Parts), NEW t \in Seq(Parts)
  PROVE  IdSet(s \o t) = IdSet(s) \cup IdSet(t)
<1>1. OfType(s \o t, "call") = OfType(s, "call") \o OfType(t, "call")
  BY OfTypeConcat
<1>2. OfType(s, "call") \in Seq(Parts) /\ OfType(t, "call") \in Seq(Parts)
  BY OfOneType
<1> DEFINE c == OfType(s, "call")
           d == OfType(t, "call")
<1>3. c \in Seq(Parts) /\ d \in Seq(Parts)
  BY <1>2
<1> HIDE DEF c, d
<1>4. Range(IdsOf(c \o d)) = Range(IdsOf(c)) \cup Range(IdsOf(d))
  BY <1>3, IdsOfTwo
<1> QED
  BY <1>1, <1>4 DEF IdSet, c, d

(* Results are no calls and calls no results, and a list of one of them    *)
(* has nothing else.                                                       *)
LEMMA OfResults ==
  ASSUME NEW r \in Seq(ResultParts)
  PROVE  OfType(r, "call") = <<>> /\ OfType(r, "result") = r
<1>1. \A i \in 1..Len(r) : r[i].type = "result"
  BY PartKinds
<1> QED
  BY <1>1, OfOneType

(* Neither is in a question.                                               *)
LEMMA OfQuestions ==
  ASSUME NEW q \in Seq(QuestionParts)
  PROVE  OfType(q, "call") = <<>> /\ OfType(q, "result") = <<>>
<1>1. \A i \in 1..Len(q) : q[i].type \in {"text", "image"}
  BY PartKinds
<1> QED
  BY <1>1, OfOneType

(* No result is in a reply.                                                *)
LEMMA OfReplies ==
  ASSUME NEW p \in Seq(ReplyParts)
  PROVE  OfType(p, "call") \in Seq(CallParts) /\ OfType(p, "result") = <<>>
<1>1. \A i \in 1..Len(p) : p[i].type \in {"text", "thinking", "call"}
  BY PartKinds
<1>2. OfType(p, "result") = <<>>
  BY <1>1, OfOneType
<1>3. Typed(ReplyParts, "call") \subseteq CallParts
  BY PartKinds DEF Typed
<1>4. OfType(p, "call") \in Seq(Typed(ReplyParts, "call"))
  BY OfOneType
<1> QED
  BY <1>2, <1>3, <1>4, SeqOfMore

-----------------------------------------------------------------------------
(* The calls of a reply have ids that were minted with its answer.         *)
LEMMA MintedWithAnswer ==
  ASSUME TypesInv, NEW a \in Answers(From(CallIds, minted + 1)), UpstreamAnswers(a)
  PROVE  LET ids == From(CallIds, minted + Len(a.calls) + 1)
             c == CallsToClient(a, ids)
         IN  /\ c \in Seq(CallParts) /\ Len(c) \in Nat /\ minted' \in minted..Len(CallIds)
             /\ \E k \in Nat : /\ minted <= k /\ k + Len(c) <= minted'
                               /\ \A i \in 1..Len(c) : c[i].id = CallIds[k + i]
<1> DEFINE ids == From(CallIds, minted + Len(a.calls) + 1)
           named == OfSeg(TextRead(a), "call")
           c == CallsToClient(a, ids)
<1>1. /\ IsAnswer(a) /\ ids \in Seq(STRING) /\ Len(named) \in Nat /\ Len(named) <= Len(ids)
      /\ \A i \in 1..Len(ids) : ids[i] = CallIds[minted + Len(a.calls) + i]
      /\ \A i \in 1..Len(a.calls) : a.calls[i].id = CallIds[minted + i]
      /\ minted' = minted + Len(a.calls) + Len(named) /\ minted' \in 0..Len(CallIds)
  BY AnswerArrives
<1>2. minted \in Nat /\ Len(a.calls) \in Nat /\ a.calls \in Seq(CallParts) /\ TextRead(a) \in Seq(AnswerSegs)
  BY <1>1, TextReadIs DEF TypesInv, IsAnswer
<1>3. minted' \in minted..Len(CallIds)
  <2> HIDE DEF named
  <2> QED
    BY <1>1, <1>2
<1>4. CASE c = a.calls
  <2>1. minted <= minted /\ minted + Len(c) <= minted'
    <3> HIDE DEF named, c
    <3> QED
      BY <1>1, <1>2, <1>4
  <2> HIDE DEF c
  <2> QED
    BY <1>1, <1>2, <1>3, <1>4, <2>1 DEF c
<1>5. CASE c = Calls(named, ids)
  <2> HIDE DEF ids
  <2>1. c \in Seq(CallParts) /\ Len(c) = Len(named) /\ \A i \in 1..Len(c) : c[i].id = ids[i]
    BY <1>1, <1>2, <1>5, CallsAre
  <2> HIDE DEF c, named
  <2> DEFINE k == minted + Len(a.calls)
  <2>2. k \in Nat /\ minted <= k /\ k + Len(c) <= minted' /\ \A i \in 1..Len(c) : i \in 1..Len(ids)
    <3>1. Len(ids) \in Nat
      BY <1>1
    <3> QED
      BY <1>1, <1>2, <2>1, <3>1, SMTT(20)
  <2>3. \A i \in 1..Len(c) : c[i].id = CallIds[k + i]
    BY <1>1, <2>1, <2>2
  <2> HIDE DEF k
  <2> QED
    BY <1>1, <1>3, <2>1, <2>2, <2>3 DEF c, ids
<1> QED
  BY <1>4, <1>5 DEF CallsToClient

(* No id is in use that was not minted, and those of a reply are new and   *)
(* its own.                                                                *)
FreshInv ==
  /\ IdSet(PartsOf(history)) \subseteq Used(minted)
  /\ phase = "replied" =>
       /\ IdSet(reply) \subseteq Used(minted)
       /\ IdSet(reply) \cap IdSet(PartsOf(history)) = {}
       /\ Distinct(IdsOf(OfType(reply, "call")))

(* Parts without calls bring no ids.                                       *)
LEMMA NoNewIds ==
  ASSUME NEW s \in Seq(Parts), NEW t \in Seq(Parts), IdSet(t) = {}
  PROVE  IdSet(s \o t) = IdSet(s)
<1>1. IdSet(s \o t) = IdSet(s) \cup IdSet(t)
  BY IdSetOfTwo
<1> QED
  BY <1>1

(* A list without a repeated id.                                           *)
LEMMA DistinctIs ==
  ASSUME NEW A, NEW s \in Seq(A)
  PROVE  Distinct(IdsOf(s)) <=> \A i, j \in 1..Len(s) : s[i].id = s[j].id => i = j
<1>1. DOMAIN IdsOf(s) = 1..Len(s) /\ \A i \in 1..Len(s) : IdsOf(s)[i] = s[i].id
  BY IdsAre
<1> QED
  BY <1>1 DEF Distinct

(* A history has parts.                                                    *)
LEMMA HistoryParts == ASSUME TypesInv PROVE PartsOf(history) \in Seq(Parts)
BY PartsOfMessages DEF TypesInv

(* What an answer brings is fresh.                                         *)
LEMMA AnswerIsFresh ==
  ASSUME TypesInv, IdSet(PartsOf(history)) \subseteq Used(minted),
         NEW a \in Answers(From(CallIds, minted + 1)), UpstreamAnswers(a)
  PROVE  /\ Used(minted) \subseteq Used(minted') /\ IdSet(reply)' \subseteq Used(minted')
         /\ IdSet(reply)' \cap IdSet(PartsOf(history)) = {}
         /\ Distinct(IdsOf(OfType(reply, "call")))'
<1> DEFINE ids == From(CallIds, minted + Len(a.calls) + 1)
           c == CallsToClient(a, ids)
<1>1. /\ IsAnswer(a) /\ ids \in Seq(STRING) /\ Len(OfSeg(TextRead(a), "call")) <= Len(ids)
      /\ reply' = ReplyTo(a, ids)
  BY AnswerArrives
<1>2. PICK th \in Seq(ThinkingParts), v \in Seq(AnswerSegs) : ReplyTo(a, ids) = Reply(th, v, c)
  BY <1>1, ReplyIs
<1>3. c \in Seq(CallParts) /\ Len(c) \in Nat /\ minted' \in minted..Len(CallIds)
      /\ \E k \in Nat : /\ minted <= k /\ k + Len(c) <= minted'
                        /\ \A i \in 1..Len(c) : c[i].id = CallIds[k + i]
  BY MintedWithAnswer
<1> HIDE DEF c, ids
<1>4. OfType(reply', "call") = c
  BY <1>1, <1>2, <1>3, ReplyShape
<1>5. PICK k \in Nat : /\ minted <= k /\ k + Len(c) <= minted'
                       /\ \A i \in 1..Len(c) : c[i].id = CallIds[k + i]
  BY <1>3
<1>6. minted \in Nat /\ minted' \in Nat /\ minted <= minted' /\ minted' <= Len(CallIds) /\ Len(CallIds) \in Nat
      /\ DOMAIN CallIds = 1..Len(CallIds)
  BY <1>3, CallIdsAssumption DEF TypesInv
<1>7. Used(minted) \subseteq Used(minted')
  BY <1>6 DEF Used
<1>8. \A i \in 1..Len(c) : k + i \in 1..minted' /\ ~(k + i \in 1..minted) /\ k + i \in DOMAIN CallIds
  BY <1>3, <1>5, <1>6
<1>9. \A i, j \in DOMAIN CallIds : CallIds[i] = CallIds[j] => i = j
  BY CallIdsAssumption DEF IsInjective
<1>10. IdSet(reply)' = {c[i].id : i \in 1..Len(c)}
  <2>1. IdSet(reply)' = Range(IdsOf(c))
    BY <1>4 DEF IdSet
  <2>2. Range(IdsOf(c)) = {c[i].id : i \in 1..Len(c)}
    BY <1>3, IdsAre
  <2> QED
    BY <2>1, <2>2
<1>11. \A i \in 1..Len(c) : c[i].id \in Used(minted')
  BY <1>5, <1>8 DEF Used
<1>12. \A i \in 1..Len(c) : c[i].id \notin Used(minted)
  <2> SUFFICES ASSUME NEW i \in 1..Len(c), c[i].id \in Used(minted) PROVE FALSE
    OBVIOUS
  <2>1. PICK j \in 1..minted : CallIds[k + i] = CallIds[j]
    BY <1>5 DEF Used
  <2>2. j \in DOMAIN CallIds /\ k + i \in DOMAIN CallIds
    BY <1>6, <1>8
  <2>3. k + i = j
    BY <1>9, <2>1, <2>2
  <2> QED
    BY <1>8, <2>1, <2>3
<1>13. \A i, j \in 1..Len(c) : c[i].id = c[j].id => i = j
  <2> SUFFICES ASSUME NEW i \in 1..Len(c), NEW j \in 1..Len(c), c[i].id = c[j].id PROVE i = j
    OBVIOUS
  <2>1. CallIds[k + i] = CallIds[k + j]
    BY <1>5
  <2>2. k + i = k + j
    BY <1>8, <1>9, <2>1
  <2> QED
    BY <2>2
<1>14. Distinct(IdsOf(c))
  BY <1>3, <1>13, DistinctIs
<1>15. Distinct(IdsOf(OfType(reply, "call")))'
  BY <1>4, <1>14
<1> QED
  BY <1>7, <1>10, <1>11, <1>12, <1>15

(* The ids of the calls that a client returns are those of its reply.      *)
LEMMA BackIds ==
  ASSUME NEW p \in Seq(ReplyParts)
  PROVE  /\ Back(p) \in Seq(Parts) /\ IdSet(Back(p)) = IdSet(p)
         /\ OfType(Back(p), "call") = OfType(p, "call") /\ OfType(Back(p), "result") = <<>>
<1>1. Back(p) \in Seq(Parts) /\ OfType(Back(p), "call") = OfType(p, "call")
      /\ OfType(Back(p), "result") = OfType(p, "result")
  BY BackIs
<1> QED
  BY <1>1, OfReplies DEF IdSet

(* Every step keeps ids fresh.                                             *)
LEMMA FreshStays ==
  ASSUME TypesInv, FreshInv, [ConversationNext]_conversationVars PROVE FreshInv'
<1> DEFINE h == PartsOf(history)
<1>0. h \in Seq(Parts)
  BY HistoryParts
<1>1. ASSUME NEW parts \in Questions, NEW tools, NEW stream, Ask(parts, tools, stream) PROVE FreshInv'
  <2>1. PartsOf(history') = h \o parts /\ parts \in Seq(QuestionParts)
    BY <1>1, AskAdds
  <2>2. parts \in Seq(Parts) /\ IdSet(parts) = {}
    BY <2>1, OfQuestions, NoIds, PartKinds, SeqOfMore
  <2> HIDE DEF h
  <2>3. IdSet(h \o parts) = IdSet(h)
    BY <1>0, <2>2, IdSetOfTwo
  <2>4. minted' = minted /\ phase' = "sent"
    BY <1>1 DEF Ask, Sends
  <2> QED
    BY <2>1, <2>3, <2>4 DEF FreshInv, h
<1>2. CASE AskAgain
  BY <1>2 DEF AskAgain, Sends, FreshInv
<1>3. CASE ReadAnswer
  <2>1. PartsOf(history') = h \o Back(reply) /\ reply \in Seq(ReplyParts) /\ OfType(reply, "call") = <<>>
    BY <1>3, ReadAdds
  <2>2. Back(reply) \in Seq(Parts) /\ IdSet(Back(reply)) = {}
    BY <2>1, BackIds, NoIds
  <2> DEFINE e == Back(reply)
  <2>a. e \in Seq(Parts) /\ IdSet(e) = {}
    BY <2>2
  <2> HIDE DEF h, e
  <2>b. IdSet(h \o e) = IdSet(h)
    BY <1>0, <2>a, NoNewIds
  <2>3. IdSet(h \o Back(reply)) = IdSet(h)
    BY <2>b DEF e
  <2>4. minted' = minted /\ phase' = "client"
    BY <1>3 DEF ReadAnswer
  <2> QED
    BY <2>1, <2>3, <2>4 DEF FreshInv, h
<1>4. ASSUME NEW order, NEW outcome \in Outcomes, NEW tools, RunTools(order, outcome, tools) PROVE FreshInv'
  <2> DEFINE r == Results(order, outcome)
             e == Back(reply)
  <2>1. PartsOf(history') = (h \o e) \o r /\ reply \in Seq(ReplyParts) /\ r \in Seq(ResultParts)
    BY <1>4, RunAdds
  <2>2. e \in Seq(Parts) /\ IdSet(e) = IdSet(reply)
    BY <2>1, BackIds
  <2>3. r \in Seq(Parts) /\ IdSet(r) = {}
    <3> HIDE DEF r
    <3> QED
      BY <2>1, OfResults, NoIds, PartKinds, SeqOfMore
  <2>4. minted' = minted /\ phase' = "sent" /\ phase = "replied"
    BY <1>4 DEF RunTools, Sends
  <2> HIDE DEF h, e, r
  <2>5. h \o e \in Seq(Parts) /\ IdSet(h \o e) = IdSet(h) \cup IdSet(e)
    BY <1>0, <2>2, IdSetOfTwo, ConcatShape
  <2> DEFINE he == h \o e
  <2>6. he \in Seq(Parts)
    BY <2>5
  <2> HIDE DEF he
  <2>7. IdSet(he \o r) = IdSet(he)
    BY <2>3, <2>6, NoNewIds
  <2> QED
    BY <2>1, <2>2, <2>4, <2>5, <2>7 DEF FreshInv, h, he
<1>5. CASE Refuse
  BY <1>5 DEF Refuse, FreshInv
<1>6. CASE Forward
  BY <1>6 DEF Forward, FreshInv
<1>7. ASSUME NEW a \in Answers(From(CallIds, minted + 1)), UpstreamAnswers(a) PROVE FreshInv'
  <2>1. history' = history
    BY <1>7 DEF UpstreamAnswers
  <2>2. IdSet(PartsOf(history)) \subseteq Used(minted)
    BY DEF FreshInv
  <2>3. /\ Used(minted) \subseteq Used(minted') /\ IdSet(reply)' \subseteq Used(minted')
        /\ IdSet(reply)' \cap IdSet(PartsOf(history)) = {}
        /\ Distinct(IdsOf(OfType(reply, "call")))'
    BY <1>7, <2>2, AnswerIsFresh
  <2> QED
    BY <2>1, <2>2, <2>3 DEF FreshInv
<1>8. CASE UpstreamFails
  BY <1>8 DEF UpstreamFails, FreshInv
<1>9. CASE UNCHANGED conversationVars
  BY <1>9 DEF conversationVars, FreshInv
<1> QED
  BY <1>1, <1>2, <1>3, <1>4, <1>5, <1>6, <1>7, <1>8, <1>9 DEF ConversationNext, ClientNext

(* Ids are fresh throughout.                                               *)
LEMMA FreshHolds == ConversationSpec => []FreshInv
<1>1. ConversationInit => FreshInv
  <2> SUFFICES ASSUME ConversationInit PROVE FreshInv
    OBVIOUS
  <2>1. PartsOf(history) \in Seq(Typed(Parts, "text")) /\ phase = "client"
    BY TypesInitially DEF ConversationInit
  <2>2. \A i \in 1..Len(PartsOf(history)) : PartsOf(history)[i].type = "text"
    BY <2>1 DEF Typed
  <2>3. OfType(PartsOf(history), "call") = <<>>
    BY <2>1, <2>2, OfOneType
  <2> QED
    BY <2>1, <2>3, NoIds DEF FreshInv
<1>2. TypesInv /\ FreshInv /\ [ConversationNext]_conversationVars => FreshInv'
  BY FreshStays
<1> QED
  BY <1>1, <1>2, TypesHold, PTL DEF ConversationSpec

-----------------------------------------------------------------------------
(* A bridged reply has the words and the calls of its answer and no XML,   *)
(* and nothing else unless it is a Responses upstream's stream.            *)
LEMMA BridgedReply ==
  ASSUME NEW a, IsAnswer(a), NEW ids \in Seq(STRING), Len(OfSeg(TextRead(a), "call")) <= Len(ids),
         request.bridged, request.protocol \in Protocols
  PROVE  LET r == ReplyTo(a, ids)
             x == CallsAsXml(OfType(r, "call"))
         IN  /\ Carries(Words(TextOf(r)), Words(a.text)) /\ OfSeg(TextOf(r), "call") = <<>>
             /\ Carries(x, OfSeg(a.text, "call"))
             /\ \/ /\ Words(TextOf(r)) = Words(a.text)
                   /\ Kept(x, Range(a.text)) = OfSeg(a.text, "call")
                \/ given.stream /\ request.protocol = "responses"
<1> DEFINE c == CallsToClient(a, ids)
           t == TextRead(a)
           read == OfSeg(t, "call")
           named == OfSeg(a.text, "call")
           x == CallsAsXml(c)
<1>1. PICK th \in Seq(ThinkingParts), v \in Seq(AnswerSegs) :
           ReplyTo(a, ids) = Reply(th, v, c) /\ TextIs(a, v)
  BY ReplyIs
<1>2. a.text \in Seq(AnswerSegs) /\ a.calls \in Seq(CallParts) /\ Len(a.calls) \in Nat
  BY DEF IsAnswer
<1>3. /\ t \in Seq(AnswerSegs) /\ Carries(Words(t), Words(a.text)) /\ Carries(read, named)
      /\ t = a.text \/ (given.stream /\ request.protocol = "responses")
  BY TextReadIs DEF Protocols, Words
<1> HIDE DEF t
<1>4. Calls(read, ids) \in Seq(CallParts) /\ CallsAsXml(Calls(read, ids)) = read
  BY <1>3, CallsAre DEF t
<1>5. c \in Seq(CallParts) /\ (c = Calls(read, ids) \/ (c = a.calls /\ named = <<>>))
  BY <1>2, <1>4 DEF CallsToClient, t
<1> HIDE DEF c
<1>6. OfType(ReplyTo(a, ids), "call") = c /\ TextOf(ReplyTo(a, ids)) = v
  BY <1>1, <1>5, ReplyShape
<1>7. Carries(Words(v), Words(a.text)) /\ OfSeg(v, "call") = <<>> /\ (t = a.text => Words(v) = Words(a.text))
  <2>1. CASE Words(v) = Words(t)
    BY <1>1, <1>3, <2>1 DEF TextIs
  <2>2. CASE v = <<>> /\ Words(a.text) = <<>>
    <3>1. Words(<<>>) = <<>>
      <4>1. <<>> \in Seq(AnswerSegs)
        OBVIOUS
      <4>2. Words(<<>>) = Kept(<<>>, Segs(AnswerSegs, "word"))
        BY <4>1, OfSegIs DEF Words
      <4> QED
        BY <4>2, KeptNil
    <3> QED
      BY <1>1, <2>2, <3>1 DEF TextIs, Carries
  <2> QED
    BY <1>1, <2>1, <2>2 DEF TextIs, t
<1>8. Carries(x, named)
  <2>1. CASE c = Calls(read, ids)
    BY <1>3, <1>4, <2>1
  <2>2. CASE c = a.calls /\ named = <<>>
    BY <2>2 DEF Carries
  <2> QED
    BY <1>5, <2>1, <2>2
<1>9. named \in Seq(AnswerSegs) /\ (\A i \in 1..Len(named) : named[i] \in Range(a.text))
      /\ (\A i \in 1..Len(a.text) : a.text[i].seg = "call" => a.text[i] \in Range(named))
  BY <1>2, SegmentsOfKind
<1>10. ASSUME t = a.text PROVE Kept(x, Range(a.text)) = named
  <2>1. CASE c = Calls(read, ids)
    <3>1. x = named
      BY <1>4, <1>10, <2>1
    <3> HIDE DEF x, named
    <3> QED
      BY <1>9, <3>1, KeptAll
  <2>2. CASE c = a.calls /\ named = <<>>
    <3> DEFINE X == [i \in 1..Len(a.calls) |-> CallXml(a.calls[i].name, a.calls[i].arguments)]
    <3>1. x = X
      <4>1. DOMAIN a.calls = 1..Len(a.calls)
        BY <1>2
      <4> QED
        BY <2>2, <4>1 DEF CallsAsXml
    <3>2. \A s \in Range(a.text) : s.seg # "call"
      <4> HIDE DEF named
      <4>1. \A i \in 1..Len(a.text) : a.text[i].seg # "call"
        BY <1>9, <2>2 DEF Range
      <4>2. DOMAIN a.text = 1..Len(a.text)
        BY <1>2
      <4> QED
        BY <4>1, <4>2 DEF Range
    <3>3. \A i \in 1..Len(a.calls) : X[i] \notin Range(a.text)
      BY <3>2 DEF CallXml
    <3> DEFINE T == {X[i] : i \in 1..Len(a.calls)}
    <3>a. \A i \in 1..Len(a.calls) : CallXml(a.calls[i].name, a.calls[i].arguments) \in T
      OBVIOUS
    <3>4. X \in Seq(T) /\ Len(X) = Len(a.calls)
      <4> HIDE DEF T
      <4> QED
        BY <1>2, <3>a
    <3> HIDE DEF X, x, named
    <3>5. Kept(X, Range(a.text)) = <<>>
      BY <3>3, <3>4, KeptNone
    <3> QED
      BY <2>2, <3>1, <3>5
  <2> HIDE DEF x, named, read
  <2> QED
    BY <1>5, <2>1, <2>2
<1> HIDE DEF named
<1> QED
  BY <1>3, <1>6, <1>7, <1>8, <1>10 DEF named

(* A listed provider's upstream speaks one of the protocols.               *)
LEMMA ListedUpstream == \A x \in Listed : x[1].upstream \in Protocols
<1>1. \A p \in Range(Providers) : p \in ProviderType
  BY ProvidersAssumption DEF Range
<1>2. \A p \in Range(Providers) : p.upstream \in Protocols
  BY <1>1 DEF ProviderType
<1> QED
  BY <1>2 DEF Listed

(* Whatever the upstream answers, a bridged reply carries the words of its *)
(* text and every call in it, under ids that no call before had, and       *)
(* nothing else; only a Responses upstream's stream brings more            *)
(* (extract_stream_delta, native_tool_calls_response,                      *)
(* structure_response_body).                                               *)
THEOREM RepliesCarryAnswers == ConversationSpec => []ReplyCarriesAnswer
<1>1. ConversationInit => ReplyCarriesAnswer
  BY DEF ConversationInit, ReplyCarriesAnswer
<1>2. /\ TypesInv /\ FreshInv /\ FreshInv' /\ RoutedAsListed
      /\ ReplyCarriesAnswer /\ [ConversationNext]_conversationVars
      => ReplyCarriesAnswer'
  <2> SUFFICES ASSUME TypesInv, FreshInv, FreshInv', RoutedAsListed, ReplyCarriesAnswer,
                      [ConversationNext]_conversationVars
               PROVE  ReplyCarriesAnswer'
    OBVIOUS
  <2>1. CASE phase' # "replied"
    BY <2>1 DEF ReplyCarriesAnswer
  <2>2. CASE UNCHANGED conversationVars
    BY <2>2 DEF ReplyCarriesAnswer, ReplyIsAnswer, conversationVars
  <2>3. ASSUME NEW a \in Answers(From(CallIds, minted + 1)), UpstreamAnswers(a) PROVE ReplyCarriesAnswer'
    <3> DEFINE ids == From(CallIds, minted + Len(a.calls) + 1)
    <3>1. /\ IsAnswer(a) /\ ids \in Seq(STRING) /\ Len(OfSeg(TextRead(a), "call")) <= Len(ids)
          /\ reply' = ReplyTo(a, ids) /\ answer' = a
      BY <2>3, AnswerArrives
    <3>2. phase' = "replied" /\ request' = request /\ given' = given /\ phase = "upstream"
      BY <2>3 DEF UpstreamAnswers
    <3>3. request.protocol \in Protocols
      BY <3>2, ListedUpstream DEF RoutedAsListed
    <3> HIDE DEF ids
    <3>4. request.bridged =>
            LET x == CallsAsXml(OfType(reply', "call"))
            IN  /\ Carries(Words(TextOf(reply')), Words(a.text)) /\ OfSeg(TextOf(reply'), "call") = <<>>
                /\ Carries(x, OfSeg(a.text, "call"))
                /\ \/ /\ Words(TextOf(reply')) = Words(a.text)
                      /\ Kept(x, Range(a.text)) = OfSeg(a.text, "call")
                   \/ given.stream /\ request.protocol = "responses"
      BY <3>1, <3>3, BridgedReply
    <3>5. IdSet(reply)' \cap IdSet(PartsOf(history))' = {} /\ Distinct(IdsOf(OfType(reply, "call")))'
      BY <3>2 DEF FreshInv
    <3> QED
      BY <3>1, <3>2, <3>4, <3>5 DEF ReplyCarriesAnswer, ReplyIsAnswer, IdSet
  <2> QED
    BY <2>1, <2>2, <2>3, OnlyAnswersReply
<1> QED
  BY <1>1, <1>2, TypesHold, FreshHolds, RequestsAreRoutedAsListed, PTL DEF ConversationSpec

-----------------------------------------------------------------------------
(* Calls and results are paired.                                           *)

(* An order in which every call is run once runs none twice.               *)
LEMMA OrderIsInjective ==
  ASSUME NEW n \in Nat, NEW order \in Orders(n)
  PROVE  order \in [1..n -> 1..n] /\ \A i, j \in 1..n : order[i] = order[j] => i = j
<1> DEFINE S == 1..n
<1>1. order \in [S -> S] /\ Range(order) = S
  BY DEF Orders
<1>2. order \in Surjection(S, S)
  BY <1>1 DEF Surjection, Range
<1>3. IsFiniteSet(S)
  BY FS_Interval
<1> HIDE DEF S
<1>4. order \in Injection(S, S)
  BY <1>2, <1>3, FS_SurjSameCardinalityImpliesInj
<1>5. \A i, j \in S : order[i] = order[j] => i = j
  BY <1>4 DEF Injection, IsInjective
<1> QED
  BY <1>1, <1>5 DEF S

(* The ids of the parts of one type.                                       *)
LEMMA IdsOfType ==
  ASSUME NEW p \in Seq(Parts), NEW x
  PROVE  Range(IdsOf(OfType(p, x))) = {p[j].id : j \in {k \in 1..Len(p) : p[k].type = x}}
<1> DEFINE o == OfType(p, x)
           I == {p[j].id : j \in {k \in 1..Len(p) : p[k].type = x}}
<1>1. o = Kept(p, Typed(Parts, x)) /\ o \in Seq(Parts)
  BY OfTypeIs, OfOneType
<1>2. \A k \in 1..Len(o) : o[k] \in Range(p) /\ o[k] \in Typed(Parts, x)
  BY <1>1, KeptAreItems
<1>3. \A k \in 1..Len(p) : p[k] \in Typed(Parts, x) => p[k] \in Range(o)
  BY <1>1, KeptHas
<1> HIDE DEF o
<1>4. Range(IdsOf(o)) = {o[k].id : k \in 1..Len(o)}
  BY <1>1, IdsAre
<1>5. ASSUME NEW k \in 1..Len(o) PROVE o[k].id \in I
  <2>1. PICK j \in 1..Len(p) : p[j] = o[k]
    BY <1>2 DEF Range
  <2>2. p[j].type = x
    BY <1>2, <2>1 DEF Typed
  <2> QED
    BY <2>1, <2>2
<1>6. ASSUME NEW j \in 1..Len(p), p[j].type = x PROVE p[j].id \in {o[k].id : k \in 1..Len(o)}
  <2>1. p[j] \in Typed(Parts, x)
    BY <1>6 DEF Typed
  <2>2. PICK k \in 1..Len(o) : o[k] = p[j]
    BY <1>1, <1>3, <2>1 DEF Range
  <2> QED
    BY <2>2
<1> HIDE DEF I
<1>7. {o[k].id : k \in 1..Len(o)} \subseteq I
  BY <1>5
<1>8. I \subseteq {o[k].id : k \in 1..Len(o)}
  BY <1>6 DEF I
<1> QED
  BY <1>4, <1>7, <1>8 DEF o, I

-----------------------------------------------------------------------------
(* Every call has an id of its own, and every result answers an earlier    *)
(* call that no other result answers.                                      *)
Answered(p) ==
  \A i \in DOMAIN p : p[i].type = "result" => \E j \in 1..(i - 1) : p[j].type = "call" /\ p[j].id = p[i].id
Paired(p) ==
  /\ Distinct(IdsOf(OfType(p, "call"))) /\ Distinct(IdsOf(OfType(p, "result")))
  /\ Answered(p)

(* The ids of results are ids of calls.                                    *)
LEMMA ResultsOfCalls ==
  ASSUME NEW p \in Seq(Parts), Answered(p)
  PROVE  Range(IdsOf(OfType(p, "result"))) \subseteq IdSet(p)
<1>1. DOMAIN p = 1..Len(p)
  OBVIOUS
<1>2. ASSUME NEW i \in 1..Len(p), p[i].type = "result"
      PROVE  p[i].id \in {p[j].id : j \in {k \in 1..Len(p) : p[k].type = "call"}}
  <2>1. PICK j \in 1..(i - 1) : p[j].type = "call" /\ p[j].id = p[i].id
    BY <1>1, <1>2 DEF Answered
  <2>2. j \in 1..Len(p)
    OBVIOUS
  <2> QED
    BY <2>1, <2>2
<1>3. {p[j].id : j \in {k \in 1..Len(p) : p[k].type = "result"}}
        \subseteq {p[j].id : j \in {k \in 1..Len(p) : p[k].type = "call"}}
  BY <1>2
<1>4. /\ Range(IdsOf(OfType(p, "result"))) = {p[j].id : j \in {k \in 1..Len(p) : p[k].type = "result"}}
      /\ IdSet(p) = {p[j].id : j \in {k \in 1..Len(p) : p[k].type = "call"}}
  BY IdsOfType DEF IdSet
<1> QED
  BY <1>3, <1>4

(* More parts whose results, if any, answer calls of the parts before them *)
(* leave every result answered.                                            *)
LEMMA AnsweredGrows ==
  ASSUME NEW p \in Seq(Parts), NEW t \in Seq(Parts), Answered(p),
         \A i \in 1..Len(t) : t[i].type = "result" => t[i].id \in IdSet(p)
  PROVE  Answered(p \o t)
<1> DEFINE u == p \o t
<1>1. /\ u \in Seq(Parts) /\ Len(u) = Len(p) + Len(t) /\ DOMAIN u = 1..Len(u) /\ DOMAIN p = 1..Len(p)
      /\ Len(p) \in Nat /\ Len(t) \in Nat
      /\ \A i \in 1..Len(p) : u[i] = p[i]
      /\ \A i \in 1..Len(u) : i \in 1..Len(p) \/ (i - Len(p) \in 1..Len(t) /\ u[i] = t[i - Len(p)])
  OBVIOUS
<1>2. IdSet(p) = {p[j].id : j \in {k \in 1..Len(p) : p[k].type = "call"}}
  BY IdsOfType DEF IdSet
<1> HIDE DEF u
<1>3. ASSUME NEW i \in 1..Len(u), u[i].type = "result"
      PROVE  \E j \in 1..(i - 1) : u[j].type = "call" /\ u[j].id = u[i].id
  <2>1. CASE i \in 1..Len(p)
    <3>1. PICK j \in 1..(i - 1) : p[j].type = "call" /\ p[j].id = p[i].id
      BY <1>1, <1>3, <2>1 DEF Answered
    <3>2. j \in 1..Len(p)
      BY <1>1, <2>1
    <3> QED
      BY <1>1, <2>1, <3>1, <3>2
  <2>2. CASE i - Len(p) \in 1..Len(t) /\ u[i] = t[i - Len(p)]
    <3>1. u[i].id \in IdSet(p)
      BY <1>3, <2>2
    <3>2. PICK j \in 1..Len(p) : p[j].type = "call" /\ p[j].id = u[i].id
      BY <1>2, <3>1
    <3>3. j \in 1..(i - 1) /\ u[j] = p[j]
      BY <1>1, <2>2, <3>2
    <3> QED
      BY <3>2, <3>3
  <2> QED
    BY <1>1, <2>1, <2>2
<1> QED
  BY <1>1, <1>3 DEF Answered, u

(* The calls and the results among two lists of parts.                     *)
LEMMA CallsAndResultsOfTwo ==
  ASSUME NEW p \in Seq(Parts), NEW t \in Seq(Parts)
  PROVE  /\ OfType(p \o t, "call") = OfType(p, "call") \o OfType(t, "call")
         /\ OfType(p \o t, "result") = OfType(p, "result") \o OfType(t, "result")
BY OfTypeConcat

(* Parts without results whose calls are new keep all paired.              *)
LEMMA PairedWithCalls ==
  ASSUME NEW p \in Seq(Parts), NEW t \in Seq(Parts), Paired(p), OfType(t, "result") = <<>>,
         Distinct(IdsOf(OfType(t, "call"))), IdSet(t) \cap IdSet(p) = {}
  PROVE  Paired(p \o t)
<1> DEFINE c == OfType(p, "call")
           d == OfType(t, "call")
           r == OfType(p, "result")
<1>1. c \in Seq(Parts) /\ d \in Seq(Parts) /\ r \in Seq(Parts)
  BY OfOneType
<1>2. OfType(p \o t, "call") = c \o d /\ OfType(p \o t, "result") = r
  <2>1. OfType(p \o t, "call") = c \o d
    BY OfTypeConcat
  <2>2. OfType(p \o t, "result") = r \o <<>>
    <3>1. OfType(p \o t, "result") = OfType(p, "result") \o OfType(t, "result")
      BY OfTypeConcat
    <3> QED
      BY <3>1
  <2> HIDE DEF r, c, d
  <2>3. r \o <<>> = r
    BY <1>1
  <2> QED
    BY <2>1, <2>2, <2>3
<1>3. Distinct(IdsOf(c)) /\ Distinct(IdsOf(d)) /\ Distinct(IdsOf(r)) /\ Range(IdsOf(c)) \cap Range(IdsOf(d)) = {}
      /\ Answered(p)
  BY DEF Paired, IdSet
<1>4. Answered(p \o t)
  <2>1. \A i \in 1..Len(t) : t[i].type # "result"
    <3> SUFFICES ASSUME NEW i \in 1..Len(t), t[i].type = "result" PROVE FALSE
      OBVIOUS
    <3>1. t[i] \in Typed(Parts, "result")
      BY DEF Typed
    <3>2. t[i] \in Range(Kept(t, Typed(Parts, "result")))
      BY <3>1, KeptHas
    <3>3. OfType(t, "result") = Kept(t, Typed(Parts, "result"))
      BY OfTypeIs
    <3> QED
      BY <3>2, <3>3 DEF Range
  <2> QED
    BY <1>3, <2>1, AnsweredGrows
<1> HIDE DEF c, d, r
<1>5. Distinct(IdsOf(c \o d))
  BY <1>1, <1>3, DistinctTwo
<1> QED
  BY <1>2, <1>3, <1>4, <1>5 DEF Paired

(* So do results, one for each of some calls that have none.               *)
LEMMA PairedWithResults ==
  ASSUME NEW p \in Seq(Parts), NEW t \in Seq(Parts), OfType(t, "call") = <<>>, OfType(t, "result") = t,
         Paired(p), Distinct(IdsOf(t)),
         Range(IdsOf(t)) \subseteq IdSet(p), Range(IdsOf(t)) \cap Range(IdsOf(OfType(p, "result"))) = {}
  PROVE  Paired(p \o t)
<1> DEFINE c == OfType(p, "call")
           r == OfType(p, "result")
<1>1. c \in Seq(Parts) /\ r \in Seq(Parts) /\ t \in Seq(Parts)
  BY OfOneType
<1>2. OfType(p \o t, "call") = c /\ OfType(p \o t, "result") = r \o t
  <2>2. OfType(p \o t, "call") = c \o <<>>
    BY CallsAndResultsOfTwo
  <2>3. OfType(p \o t, "result") = r \o t
    BY CallsAndResultsOfTwo
  <2> HIDE DEF r, c
  <2>4. c \o <<>> = c
    BY <1>1
  <2> QED
    BY <2>2, <2>3, <2>4
<1>3. Distinct(IdsOf(c)) /\ Distinct(IdsOf(r)) /\ Range(IdsOf(r)) \cap Range(IdsOf(t)) = {} /\ Answered(p)
  BY DEF Paired
<1> HIDE DEF c, r
<1>4. Answered(p \o t)
  <2>1. \A i \in 1..Len(t) : t[i].id \in Range(IdsOf(t))
    BY IdsAre
  <2> QED
    BY <1>1, <1>3, <2>1, AnsweredGrows
<1>5. Distinct(IdsOf(r \o t))
  BY <1>1, <1>3, DistinctTwo
<1> QED
  BY <1>2, <1>3, <1>4, <1>5 DEF Paired

(* What is said in a conversation.                                         *)
ImageSegs == [seg : {"image"}, source : {"url", "base64", "file"}]
ResultSegs ==
  [seg : {"result"}, name : STRING, ok : BOOLEAN \cup {~o.failed : o \in Outcomes},
   content : {o.content : o \in Outcomes}]
AsideSegs == [seg : {"aside"}, of : AnswerSegs]
LogSegs == AnswerSegs \cup ImageSegs \cup ResultSegs \cup AsideSegs
Entries == Roles \X LogSegs

(* What is said in one role.                                               *)
LEMMA SaysType ==
  ASSUME NEW role \in Roles, NEW s \in Seq(LogSegs)
  PROVE  Says(role, s) \in Seq(Entries)
<1>1. DOMAIN s = 1..Len(s) /\ Len(s) \in Nat
  OBVIOUS
<1>2. \A i \in 1..Len(s) : <<role, s[i]>> \in Entries
  BY DEF Entries
<1> QED
  BY <1>1, <1>2 DEF Says

(* A part of a question as segments.                                       *)
LEMMA QuestionSegments == \A p \in QuestionParts : Segments(p) \in Seq(LogSegs)
<1> DEFINE L == Seq(LogSegs)
<1>1. \A t \in Seq(WordSegs) : t \in Seq(LogSegs)
  <2>1. WordSegs \subseteq LogSegs
    BY DEF LogSegs, AnswerSegs
  <2> QED
    BY <2>1, SeqOfMore
<1> HIDE DEF L
<1>2. \A p \in QuestionParts : Segments(p) \in L
  <2> TAKE p \in QuestionParts
  <2>1. CASE p.type = "text"
    <3>1. p.text \in Seq(WordSegs)
      BY <2>1 DEF QuestionParts
    <3> QED
      BY <1>1, <2>1, <3>1 DEF Segments, L
  <2>2. CASE p.type = "image"
    <3>1. p.source \in {"url", "base64", "file"}
      BY <2>2 DEF QuestionParts
    <3>2. ImageSeg(p.source) \in LogSegs
      BY <3>1 DEF ImageSeg, ImageSegs, LogSegs
    <3>3. <<ImageSeg(p.source)>> \in L
      BY <3>2, OneType DEF L
    <3> QED
      BY <2>2, <3>3 DEF Segments
  <2> QED
    BY <2>1, <2>2, PartKinds
<1> QED
  BY <1>2 DEF L

(* A question as segments.                                                 *)
LEMMA QuestionSays ==
  ASSUME NEW q \in Seq(QuestionParts)
  PROVE  SegmentsOf(q) \in Seq(LogSegs)
<1> DEFINE L == Seq(LogSegs)
           x == [i \in DOMAIN q |-> Segments(q[i])]
<1>1. \A p \in QuestionParts : Segments(p) \in L
  BY QuestionSegments
<1> HIDE DEF L
<1>2. x \in Seq(L)
  <2>1. DOMAIN q = 1..Len(q) /\ Len(q) \in Nat /\ \A i \in 1..Len(q) : q[i] \in QuestionParts
    OBVIOUS
  <2> QED
    BY <1>1, <2>1
<1>3. x \in Seq(Seq(LogSegs))
  BY <1>2 DEF L
<1> HIDE DEF x
<1>4. FlattenSeq(x) \in Seq(LogSegs)
  BY <1>3, FlattenType
<1> QED
  BY <1>4 DEF SegmentsOf, x

(* What a model says in a part of a reply, as its client holds it.         *)
LEMMA SayingIs == \A p \in ReturnParts : Saying(p) \in Seq(LogSegs)
<1> DEFINE A == Seq(AnswerSegs)
           L == Seq(LogSegs)
<1>1. \A t \in Seq(AnswerSegs) : t \in Seq(LogSegs)
  <2>1. AnswerSegs \subseteq LogSegs
    BY DEF LogSegs
  <2> QED
    BY <2>1, SeqOfMore
<1>2. \A t \in Seq(AnswerSegs) : [i \in DOMAIN t |-> Aside(t[i])] \in Seq(LogSegs)
  <2> SUFFICES ASSUME NEW t \in Seq(AnswerSegs) PROVE [i \in DOMAIN t |-> Aside(t[i])] \in Seq(LogSegs)
    OBVIOUS
  <2>1. \A s \in AnswerSegs : Aside(s) \in LogSegs
    BY DEF Aside, AsideSegs, LogSegs
  <2>2. DOMAIN t = 1..Len(t) /\ Len(t) \in Nat /\ \A i \in 1..Len(t) : t[i] \in AnswerSegs
    OBVIOUS
  <2> QED
    BY <2>1, <2>2
<1>3. <<>> \in Seq(LogSegs)
  OBVIOUS
<1>4. \A p \in CallParts : CallXml(p.name, p.arguments) \in LogSegs
  BY DEF CallParts, CallXml, CallSegs, AnswerSegs, LogSegs
<1>5. \A p \in CallParts : p.type = "call" /\ <<CallXml(p.name, p.arguments)>> \in Seq(LogSegs)
  BY <1>4, OneType DEF CallParts
<1>6. /\ ReturnParts = (([type : {"text"}, text : A] \cup [type : {"thinking"}, text : A]) \cup CallParts)
                         \cup [type : {"content"}, text : A]
      /\ \A t \in A : t \in L /\ [i \in DOMAIN t |-> Aside(t[i])] \in L
      /\ <<>> \in L /\ \A p \in CallParts : p.type = "call" /\ <<CallXml(p.name, p.arguments)>> \in L
  BY <1>1, <1>2, <1>3, <1>5 DEF ReturnParts, ReplyParts, TextParts, ThinkingParts, ContentParts
<1> HIDE DEF A, L
<1>7. \A p \in ReturnParts : Saying(p) \in L
  <2> SUFFICES ASSUME NEW p \in ReturnParts PROVE Saying(p) \in L
    OBVIOUS
  <2>1. CASE p.type = "call"
    <3>1. p \in CallParts
      BY <1>6, <2>1
    <3> QED
      BY <1>6, <2>1, <3>1 DEF Saying
  <2>2. CASE p.type = "content"
    <3>1. p.text \in A
      BY <1>6, <2>2
    <3> QED
      BY <1>6, <2>2, <3>1 DEF Saying
  <2>3. CASE p.type = "text"
    <3>1. p.text \in A
      BY <1>6, <2>3
    <3> QED
      BY <1>6, <2>3, <3>1 DEF Saying, Segments
  <2>4. CASE p.type = "thinking"
    BY <1>6, <2>4 DEF Saying, Segments
  <2> QED
    BY <2>1, <2>2, <2>3, <2>4, PartKinds
<1> QED
  BY <1>7 DEF L

(* What a model says in a reply, as its client returns it.                 *)
LEMMA BackSays ==
  ASSUME NEW parts \in Seq(ReplyParts)
  PROVE  SayingOf(Back(parts)) \in Seq(LogSegs)
<1> DEFINE b == Back(parts)
           x == [i \in DOMAIN b |-> Saying(b[i])]
           L == Seq(LogSegs)
<1>1. b \in Seq(ReturnParts)
  BY BackIs
<1>2. \A p \in ReturnParts : Saying(p) \in L
  BY SayingIs
<1> HIDE DEF b, L
<1>3. x \in Seq(L)
  <2>1. DOMAIN b = 1..Len(b) /\ Len(b) \in Nat /\ \A i \in 1..Len(b) : b[i] \in ReturnParts
    BY <1>1
  <2> QED
    BY <1>2, <2>1
<1>4. x \in Seq(Seq(LogSegs))
  BY <1>3 DEF L
<1> HIDE DEF x
<1>5. FlattenSeq(x) \in Seq(LogSegs)
  BY <1>4, FlattenType
<1> QED
  BY <1>5 DEF SayingOf, x, b

(* The results of the calls of a reply, as segments.                       *)
LEMMA ResultsSay ==
  ASSUME NEW calls \in Seq(CallParts), NEW order \in [1..Len(calls) -> 1..Len(calls)],
         NEW outcome \in Outcomes
  PROVE  [i \in DOMAIN order |-> ResultXml(calls[order[i]].name, ~outcome.failed, outcome.content)]
           \in Seq(LogSegs)
<1>1. DOMAIN order = 1..Len(calls) /\ Len(calls) \in Nat
  OBVIOUS
<1>2. \A i \in 1..Len(calls) : calls[order[i]].name \in STRING
  <2>1. \A c \in CallParts : c.name \in STRING
    BY DEF CallParts
  <2>2. \A i \in 1..Len(calls) : calls[order[i]] \in CallParts
    OBVIOUS
  <2> QED
    BY <2>1, <2>2
<1>3. \A i \in 1..Len(calls) :
        ResultXml(calls[order[i]].name, ~outcome.failed, outcome.content) \in ResultSegs
  BY <1>2 DEF ResultXml, ResultSegs
<1>4. \A i \in 1..Len(calls) :
        ResultXml(calls[order[i]].name, ~outcome.failed, outcome.content) \in LogSegs
  BY <1>3 DEF LogSegs
<1> QED
  BY <1>1, <1>4

(* What is said in a step.                                                 *)
LogInv == log \in Seq(Entries)

(* Every step keeps the log.                                               *)
LEMMA LogStays ==
  ASSUME TypesInv, LogInv, [ConversationNext]_conversationVars PROVE LogInv'
<1>0. "user" \in Roles /\ "assistant" \in Roles
  BY DEF Roles
<1>1. ASSUME NEW parts \in Questions, NEW tools, NEW stream, Ask(parts, tools, stream) PROVE LogInv'
  <2> DEFINE s == Says("user", SegmentsOf(parts))
  <2>1. s \in Seq(Entries)
    BY <1>0, QuestionsAssumption, QuestionSays, SaysType
  <2>2. log' = log \o s
    BY <1>1 DEF Ask
  <2> HIDE DEF s
  <2> QED
    BY <2>1, <2>2, ConcatShape DEF LogInv
<1>2. ASSUME NEW order, NEW outcome \in Outcomes, NEW tools, RunTools(order, outcome, tools) PROVE LogInv'
  <2> DEFINE calls == OfType(reply, "call")
             r == [i \in DOMAIN order |-> ResultXml(calls[order[i]].name, ~outcome.failed, outcome.content)]
             s == Says("user", r)
             b == Says("assistant", SayingOf(Back(reply)))
  <2>1. reply \in Seq(ReplyParts) /\ order \in Orders(Len(calls))
    BY <1>2, RunAdds
  <2>2. calls \in Seq(CallParts)
    BY <2>1, OfReplies
  <2>3. log' = log \o b \o s
    BY <1>2 DEF RunTools, Returned, Back
  <2>4. order \in [1..Len(calls) -> 1..Len(calls)]
    BY <2>1 DEF Orders
  <2>5. b \in Seq(Entries)
    BY <1>0, <2>1, BackSays, SaysType
  <2> HIDE DEF calls, b
  <2>6. r \in Seq(LogSegs)
    BY <2>2, <2>4, ResultsSay
  <2> HIDE DEF r
  <2>7. s \in Seq(Entries)
    BY <1>0, <2>6, SaysType
  <2> HIDE DEF s
  <2>8. log \o b \in Seq(Entries)
    BY <2>5, ConcatShape DEF LogInv
  <2>9. (log \o b) \o s \in Seq(Entries)
    BY <2>7, <2>8, ConcatShape
  <2> QED
    BY <2>3, <2>9 DEF LogInv
<1>3. CASE ReadAnswer
  <2> DEFINE s == Says("assistant", SayingOf(Back(reply)))
  <2>1. reply \in Seq(ReplyParts)
    BY <1>3, ReadAdds
  <2>2. s \in Seq(Entries)
    BY <1>0, <2>1, BackSays, SaysType
  <2>3. log' = log \o s
    BY <1>3 DEF ReadAnswer, Returned, Back
  <2> HIDE DEF s
  <2> QED
    BY <2>2, <2>3, ConcatShape DEF LogInv
<1>4. CASE AskAgain \/ Refuse \/ Forward \/ UpstreamFails \/ UNCHANGED conversationVars
  BY <1>4 DEF AskAgain, Refuse, Forward, UpstreamFails, conversationVars, LogInv
<1>5. ASSUME NEW a, UpstreamAnswers(a) PROVE LogInv'
  BY <1>5 DEF UpstreamAnswers, LogInv
<1> QED
  BY <1>1, <1>2, <1>3, <1>4, <1>5 DEF ConversationNext, ClientNext

(* Calls and results are paired.                                           *)
PairedInv == Paired(PartsOf(history))

(* Every step keeps calls and results paired.                              *)
LEMMA PairedStays ==
  ASSUME TypesInv, FreshInv, PairedInv, [ConversationNext]_conversationVars PROVE PairedInv'
<1> DEFINE h == PartsOf(history)
<1>0. h \in Seq(Parts) /\ Paired(h)
  BY HistoryParts DEF PairedInv
<1>1. ASSUME NEW parts \in Questions, NEW tools, NEW stream, Ask(parts, tools, stream) PROVE PairedInv'
  <2>1. PartsOf(history') = h \o parts /\ parts \in Seq(QuestionParts)
    BY <1>1, AskAdds
  <2>2. parts \in Seq(Parts)
    BY <2>1, PartKinds, SeqOfMore
  <2>3. OfType(parts, "call") = <<>> /\ OfType(parts, "result") = <<>>
    BY <2>1, OfQuestions
  <2>4. IdSet(parts) = {} /\ Distinct(IdsOf(OfType(parts, "call")))
    BY <2>3, NoIds
  <2> HIDE DEF h
  <2>5. Paired(h \o parts)
    BY <1>0, <2>2, <2>3, <2>4, PairedWithCalls
  <2> QED
    BY <2>1, <2>5 DEF PairedInv
<1>2. CASE ReadAnswer
  <2> DEFINE e == Back(reply)
  <2>1. PartsOf(history') = h \o e /\ reply \in Seq(ReplyParts) /\ OfType(reply, "call") = <<>>
    BY <1>2, ReadAdds
  <2>2. e \in Seq(Parts) /\ OfType(e, "call") = <<>> /\ OfType(e, "result") = <<>>
    BY <2>1, BackIds
  <2> HIDE DEF h, e
  <2>3. IdSet(e) = {} /\ Distinct(IdsOf(OfType(e, "call")))
    BY <2>2, NoIds
  <2>4. Paired(h \o e)
    BY <1>0, <2>2, <2>3, PairedWithCalls
  <2> QED
    BY <2>1, <2>4 DEF PairedInv
<1>3. ASSUME NEW order, NEW outcome \in Outcomes, NEW tools, RunTools(order, outcome, tools) PROVE PairedInv'
  <2> DEFINE c == OfType(reply, "call")
             e == Back(reply)
             r == Results(order, outcome)
  <2>1. /\ reply \in Seq(ReplyParts) /\ order \in Orders(Len(c)) /\ r \in Seq(ResultParts) /\ Len(r) = Len(c)
        /\ \A i \in 1..Len(c) : r[i].id = c[order[i]].id
        /\ PartsOf(history') = (h \o e) \o r
    BY <1>3, RunAdds
  <2>2. e \in Seq(Parts) /\ OfType(e, "call") = c /\ OfType(e, "result") = <<>> /\ IdSet(e) = IdSet(reply)
    BY <2>1, BackIds
  <2>3. c \in Seq(CallParts) /\ Len(c) \in Nat
    BY <2>1, OfReplies
  <2>4. phase = "replied"
    BY <1>3 DEF RunTools
  <2>5. IdSet(e) \cap IdSet(h) = {} /\ Distinct(IdsOf(c))
    BY <2>2, <2>4 DEF FreshInv
  <2>6. OfType(r, "call") = <<>> /\ OfType(r, "result") = r /\ r \in Seq(Parts)
    <3> HIDE DEF r
    <3> QED
      BY <2>1, OfResults, PartKinds, SeqOfMore
  <2>7. Range(IdsOf(c)) = IdSet(e)
    BY <2>2 DEF IdSet
  <2> HIDE DEF h, e, r, c
  <2>8. Paired(h \o e)
    BY <1>0, <2>2, <2>5, PairedWithCalls
  <2>9. h \o e \in Seq(Parts) /\ IdSet(h \o e) = IdSet(h) \cup IdSet(e)
    BY <1>0, <2>2, IdSetOfTwo, ConcatShape
  <2>10. OfType(h \o e, "result") = OfType(h, "result")
    <3>1. OfType(h \o e, "result") = OfType(h, "result") \o OfType(e, "result")
      BY <1>0, <2>2, CallsAndResultsOfTwo
    <3>2. OfType(h, "result") \in Seq(Parts)
      BY <1>0, OfOneType
    <3> QED
      BY <2>2, <3>1, <3>2
  <2>11. Range(IdsOf(OfType(h, "result"))) \subseteq IdSet(h)
    BY <1>0, ResultsOfCalls DEF Paired
  <2>12. order \in [1..Len(c) -> 1..Len(c)] /\ \A i, j \in 1..Len(c) : order[i] = order[j] => i = j
    BY <2>1, <2>3, OrderIsInjective
  <2>13. \A i \in 1..Len(c) : r[i].id \in Range(IdsOf(c))
    <3>1. \A i \in 1..Len(c) : c[i].id \in Range(IdsOf(c))
      BY <2>3, IdsAre
    <3> QED
      BY <2>1, <2>12, <3>1
  <2>14. Range(IdsOf(r)) \subseteq IdSet(e)
    <3>1. Range(IdsOf(r)) = {r[i].id : i \in 1..Len(r)}
      BY <2>6, IdsAre
    <3> QED
      BY <2>1, <2>7, <2>13, <3>1
  <2>15. Distinct(IdsOf(r))
    <3>1. \A i, j \in 1..Len(c) : c[i].id = c[j].id => i = j
      BY <2>3, <2>5, DistinctIs
    <3>2. ASSUME NEW i \in 1..Len(c), NEW j \in 1..Len(c), r[i].id = r[j].id
          PROVE  i = j
      <4>1. order[i] \in 1..Len(c) /\ order[j] \in 1..Len(c)
        BY <2>12
      <4>2. c[order[i]].id = c[order[j]].id
        BY <2>1, <3>2
      <4>3. order[i] = order[j]
        BY <3>1, <4>1, <4>2
      <4> QED
        BY <2>12, <4>3
    <3>3. \A i, j \in 1..Len(r) : r[i].id = r[j].id => i = j
      BY <2>1, <3>2
    <3> QED
      BY <2>6, <3>3, DistinctIs
  <2> DEFINE he == h \o e
  <2>16. /\ he \in Seq(Parts) /\ Paired(he) /\ Range(IdsOf(r)) \subseteq IdSet(he)
         /\ Range(IdsOf(r)) \cap Range(IdsOf(OfType(he, "result"))) = {}
    BY <2>5, <2>8, <2>9, <2>10, <2>11, <2>14
  <2> HIDE DEF he
  <2>17. Paired(he \o r)
    BY <2>6, <2>15, <2>16, PairedWithResults
  <2> QED
    BY <2>1, <2>17 DEF PairedInv, he
<1>4. CASE AskAgain \/ Refuse \/ Forward \/ UpstreamFails \/ UNCHANGED conversationVars
  BY <1>4 DEF AskAgain, Refuse, Forward, UpstreamFails, conversationVars, PairedInv
<1>5. ASSUME NEW a, UpstreamAnswers(a) PROVE PairedInv'
  BY <1>5 DEF UpstreamAnswers, PairedInv
<1> QED
  BY <1>1, <1>2, <1>3, <1>4, <1>5 DEF ConversationNext, ClientNext

(* Of whose turn it is, and how many requests were sent.                   *)
CountInv ==
  /\ phase \in {"client", "sent", "upstream", "replied", "failed", "refused"}
  /\ requests \in 0..MaxRequests

(* Every step keeps the count.                                             *)
LEMMA CountStays ==
  ASSUME CountInv, [ConversationNext]_conversationVars PROVE CountInv'
<1>1. ASSUME NEW tools, NEW stream, Sends(tools, stream) PROVE CountInv'
  BY <1>1, MaxRequestsAssumption DEF Sends, CountInv
<1>2. CASE ClientNext
  BY <1>1, <1>2 DEF ClientNext, Ask, AskAgain, RunTools, ReadAnswer, CountInv
<1>3. CASE Refuse \/ Forward \/ UpstreamFails \/ UNCHANGED conversationVars
  BY <1>3 DEF Refuse, Forward, UpstreamFails, conversationVars, CountInv
<1>4. ASSUME NEW a, UpstreamAnswers(a) PROVE CountInv'
  BY <1>4 DEF UpstreamAnswers, CountInv
<1> QED
  BY <1>2, <1>3, <1>4 DEF ConversationNext

(* All of it at the beginning.                                             *)
LEMMA AllInitially ==
  ASSUME ConversationInit PROVE LogInv /\ PairedInv /\ CountInv
<1>1. PartsOf(history) \in Seq(Typed(Parts, "text")) /\ TypesInv
  BY TypesInitially
<1> DEFINE h == PartsOf(history)
<1>2. \A i \in 1..Len(h) : h[i].type = "text"
  BY <1>1 DEF Typed
<1> HIDE DEF h
<1>3. h \in Seq(Parts) /\ DOMAIN h = 1..Len(h)
  BY <1>1, HistoryParts DEF h
<1>4. OfType(h, "call") = <<>> /\ OfType(h, "result") = <<>>
  BY <1>2, <1>3, OfOneType
<1>5. Distinct(IdsOf(<<>>))
  BY <1>4, NoIds
<1>6. Answered(h)
  BY <1>2, <1>3 DEF Answered
<1>7. PairedInv
  BY <1>4, <1>5, <1>6 DEF PairedInv, Paired, h
<1>8. LogInv
  <2>1. client.system \in Seq(WordSegs)
    BY ClientsAssumption DEF ConversationInit
  <2>2. WordSegs \subseteq LogSegs /\ "system" \in Roles
    BY DEF LogSegs, AnswerSegs, Roles
  <2>3. client.system \in Seq(LogSegs)
    BY <2>1, <2>2, SeqOfMore
  <2>4. log = Says("system", client.system)
    BY DEF ConversationInit
  <2> QED
    BY <2>2, <2>3, <2>4, SaysType DEF LogInv
<1>9. CountInv
  BY MaxRequestsAssumption DEF ConversationInit, CountInv
<1> QED
  BY <1>7, <1>8, <1>9

(* The types of a conversation; and in every history, whatever the         *)
(* protocol it is written in, every call has an id of its own and every    *)
(* result answers an earlier call, which no other result does: the names   *)
(* of results (collect_tool_names) rely on it.                             *)
THEOREM ConversationInvariant == ConversationSpec => []ConversationInv
<1>1. ConversationInit => LogInv /\ PairedInv /\ CountInv
  BY AllInitially
<1>2. TypesInv /\ FreshInv /\ (LogInv /\ PairedInv /\ CountInv) /\ [ConversationNext]_conversationVars
      => (LogInv /\ PairedInv /\ CountInv)'
  BY LogStays, PairedStays, CountStays
<1>3. TypesInv /\ (LogInv /\ PairedInv /\ CountInv) => ConversationInv
  <2> SUFFICES ASSUME TypesInv, LogInv, PairedInv, CountInv PROVE ConversationInv
    OBVIOUS
  <2>1. client \in Clients /\ minted \in Nat
    BY DEF TypesInv
  <2>2. \A i \in DOMAIN history : history[i].role \in Roles
    <3>1. \A m \in Messages : m.role \in Roles
      BY DEF Messages
    <3>2. history \in Seq(Messages)
      BY DEF TypesInv
    <3> QED
      BY <3>1, <3>2
  <2>3. \A i \in DOMAIN log : log[i][1] \in Roles /\ log[i][2].seg \in SegKinds
    <3>1. \A x \in Entries : x[1] \in Roles /\ x[2] \in LogSegs
      BY DEF Entries
    <3>2. \A s \in LogSegs : s.seg \in SegKinds
      BY DEF LogSegs, AnswerSegs, WordSegs, CallSegs, LeakSegs, ImageSegs, ResultSegs, AsideSegs, SegKinds
    <3>3. log \in Seq(Entries)
      BY DEF LogInv
    <3>4. \A i \in DOMAIN log : log[i] \in Entries
      BY <3>3
    <3> QED
      BY <3>1, <3>2, <3>4
  <2> QED
    BY <2>1, <2>2, <2>3 DEF ConversationInv, CountInv, PairedInv, Paired, Answered
<1> QED
  BY <1>1, <1>2, <1>3, TypesHold, FreshHolds, PTL DEF ConversationSpec

-----------------------------------------------------------------------------
(* Why a request is refused.                                               *)

(* A part of a message of a history is among its parts.                    *)
LEMMA PartIsAmongParts ==
  ASSUME NEW ms \in Seq(Messages), NEW i \in 1..Len(ms)
  PROVE  /\ ms[i].parts \in Seq(Parts)
         /\ \A k \in 1..Len(ms[i].parts) : ms[i].parts[k] \in Range(PartsOf(ms))
<1> DEFINE P == Seq(Parts)
           all == [j \in DOMAIN ms |-> ms[j].parts]
<1>1. \A m \in Messages : m.parts \in P
  BY DEF Messages
<1> HIDE DEF P
<1>2. all \in Seq(P) /\ Len(all) = Len(ms) /\ all[i] = ms[i].parts /\ ms[i].parts \in P
  BY <1>1
<1>3. all \in Seq(Seq(Parts)) /\ ms[i].parts \in Seq(Parts)
  BY <1>2 DEF P
<1>4. PartsOf(ms) = FlattenSeq(all)
  BY DEF PartsOf
<1> HIDE DEF all
<1>5. \A k \in 1..Len(all[i]) : all[i][k] \in Range(FlattenSeq(all))
  BY <1>2, <1>3, FlattenHas
<1> QED
  BY <1>2, <1>3, <1>4, <1>5

(* The parts that every upstream understands, once the calls and the       *)
(* results among them are text; whether they are to be translated; and     *)
(* whether the client has shown a file.                                    *)
Sendable ==
  {p \in Parts : p.type \notin {"thinking", "content"} /\ (p.type = "image" => p.source # "file")}
Sending == client.protocol = "messages" /\ Translated
FileShown == \E i \in DOMAIN log : log[i][2] = ImageSeg("file")

(* What a client says of a question shows the files in it.                 *)
LEMMA FilesAreSaid ==
  ASSUME NEW q \in Seq(QuestionParts), NEW k \in 1..Len(q), q[k].type = "image", q[k].source = "file"
  PROVE  \E i \in 1..Len(SegmentsOf(q)) : SegmentsOf(q)[i] = ImageSeg("file")
<1> DEFINE L == Seq(LogSegs)
           x == [i \in DOMAIN q |-> Segments(q[i])]
           one == ImageSeg("file")
<1>1. DOMAIN q = 1..Len(q) /\ Len(q) \in Nat /\ \A i \in 1..Len(q) : q[i] \in QuestionParts
  OBVIOUS
<1>2. \A p \in QuestionParts : Segments(p) \in L
  BY QuestionSegments
<1> HIDE DEF L
<1>3. x \in Seq(L) /\ Len(x) = Len(q) /\ x[k] = Segments(q[k])
  BY <1>1, <1>2
<1>4. Segments(q[k]) = <<one>>
  BY DEF Segments
<1>5. x \in Seq(Seq(LogSegs)) /\ x[k] = <<one>> /\ k \in 1..Len(x)
  BY <1>3, <1>4 DEF L
<1>6. SegmentsOf(q) = FlattenSeq(x)
  BY DEF SegmentsOf
<1> HIDE DEF x, one
<1>7. 1 \in 1..Len(x[k]) /\ x[k][1] = one
  BY <1>5
<1>8. one \in Range(FlattenSeq(x)) /\ FlattenSeq(x) \in Seq(LogSegs)
  <2>1. \A i \in 1..Len(x[k]) : x[k][i] \in Range(FlattenSeq(x))
    BY <1>5, FlattenHas
  <2> QED
    BY <1>5, <1>7, <2>1, FlattenType
<1> DEFINE f == FlattenSeq(x)
<1>9. one \in Range(f) /\ f \in Seq(LogSegs)
  BY <1>8
<1> HIDE DEF f
<1>10. \E i \in 1..Len(f) : f[i] = one
  BY <1>9 DEF Range
<1> QED
  BY <1>6, <1>10 DEF f, one

(* A file that was shown stays shown, and one that is said is shown.       *)
LEMMA FilesStayShown ==
  ASSUME NEW l \in Seq(Entries), NEW role \in Roles, NEW s \in Seq(LogSegs)
  PROVE  /\ \A i \in DOMAIN l : i \in DOMAIN (l \o Says(role, s)) /\ (l \o Says(role, s))[i] = l[i]
         /\ \A i \in 1..Len(s) : \E j \in DOMAIN (l \o Says(role, s)) :
              (l \o Says(role, s))[j][2] = s[i]
<1> DEFINE t == Says(role, s)
<1>1. t \in Seq(Entries) /\ Len(t) = Len(s) /\ \A i \in 1..Len(s) : t[i][2] = s[i]
  <2>1. t \in Seq(Entries)
    BY SaysType
  <2>2. Len(t) = Len(s) /\ \A i \in 1..Len(s) : t[i] = <<role, s[i]>>
    BY DEF Says
  <2> QED
    BY <2>1, <2>2
<1> HIDE DEF t
<1>2. \A i \in DOMAIN l : i \in DOMAIN (l \o t) /\ (l \o t)[i] = l[i]
  OBVIOUS
<1>3. \A i \in 1..Len(s) : Len(l) + i \in DOMAIN (l \o t) /\ (l \o t)[Len(l) + i] = t[i]
  BY <1>1
<1>4. \A i \in 1..Len(s) : \E j \in DOMAIN (l \o t) : (l \o t)[j][2] = s[i]
  BY <1>1, <1>3
<1> QED
  BY <1>2, <1>4 DEF t

(* Lists of parts that have results where they have calls.                 *)
Returnable(p) == OfType(p, "call") # <<>> => OfType(p, "result") # <<>>

(* What a client that returns no thinking has written to a translated      *)
(* upstream can be sent to it unless a file was shown; and a history with  *)
(* calls has results.                                                      *)
ReturnableInv ==
  /\ Sending /\ ~FileShown => PartsOf(history) \in Seq(Sendable)
  /\ Returnable(PartsOf(history))

(* A reply without its thinking can be sent.                               *)
LEMMA EchoIsSendable ==
  ASSUME EchoThinking = FALSE, Sending, NEW parts \in Seq(ReplyParts)
  PROVE  Back(parts) \in Seq(Sendable)
<1> DEFINE S == {p \in Range(parts) : p.type # "thinking"}
           e == Kept(parts, S)
<1>1. Echoed(parts) = e
  BY DEF Echoed, Sending
<1>2. e \in Seq(ReplyParts \cap S)
  BY KeptType
<1>3. ReplyParts \cap S \subseteq Sendable
  <2>1. \A p \in ReplyParts : p \in Parts /\ p.type \notin {"image", "content"}
    BY PartKinds
  <2> QED
    BY <2>1 DEF Sendable
<1> HIDE DEF S, e
<1>4. e \in Seq(Sendable)
  BY <1>2, <1>3, SeqOfMore
<1>5. Spelled(e) = e
  BY DEF Spelled, InParts, Sending
<1> QED
  BY <1>1, <1>4, <1>5 DEF Back

(* A sequence of items of a set.                                           *)
LEMMA SeqOfItems ==
  ASSUME NEW A, NEW B, NEW s \in Seq(A), \A i \in 1..Len(s) : s[i] \in B
  PROVE  s \in Seq(B)
OBVIOUS

(* Two of them together are one.                                           *)
LEMMA ReturnableTogether ==
  ASSUME NEW p \in Seq(Parts), NEW t \in Seq(Parts), Returnable(p), Returnable(t)
  PROVE  Returnable(p \o t)
<1> DEFINE c == OfType(p, "call")
           d == OfType(t, "call")
           r == OfType(p, "result")
           q == OfType(t, "result")
<1>1. OfType(p \o t, "call") = c \o d /\ OfType(p \o t, "result") = r \o q
  BY CallsAndResultsOfTwo
<1>2. c \in Seq(Parts) /\ d \in Seq(Parts) /\ r \in Seq(Parts) /\ q \in Seq(Parts)
  BY OfOneType
<1>3. (c # <<>> => r # <<>>) /\ (d # <<>> => q # <<>>)
  BY DEF Returnable
<1> HIDE DEF c, d, r, q
<1>4. c \o d # <<>> => r \o q # <<>>
  BY <1>2, <1>3
<1> QED
  BY <1>1, <1>4 DEF Returnable

(* A file is shown in what is said after one was.                          *)
LEMMA FileShownBehind ==
  ASSUME LogInv, NEW role \in Roles, NEW s \in Seq(LogSegs), log' = log \o Says(role, s)
  PROVE  /\ FileShown => FileShown'
         /\ \A i \in 1..Len(s) : s[i] = ImageSeg("file") => FileShown'
<1> DEFINE u == log \o Says(role, s)
<1>1. /\ \A i \in DOMAIN log : i \in DOMAIN u /\ u[i] = log[i]
      /\ \A i \in 1..Len(s) : \E j \in DOMAIN u : u[j][2] = s[i]
  BY FilesStayShown DEF LogInv
<1>2. log' = u
  OBVIOUS
<1> HIDE DEF u
<1>3. ASSUME FileShown PROVE FileShown'
  <2>1. PICK i \in DOMAIN log : log[i][2] = ImageSeg("file")
    BY <1>3 DEF FileShown
  <2>2. i \in DOMAIN log' /\ log'[i][2] = ImageSeg("file")
    BY <1>1, <1>2, <2>1
  <2> QED
    BY <2>2 DEF FileShown, ImageSeg
<1>4. ASSUME NEW i \in 1..Len(s), s[i] = ImageSeg("file") PROVE FileShown'
  <2>1. PICK j \in DOMAIN u : u[j][2] = s[i]
    BY <1>1
  <2>2. j \in DOMAIN log' /\ log'[j][2] = ImageSeg("file")
    BY <1>2, <1>4, <2>1
  <2> QED
    BY <2>2 DEF FileShown, ImageSeg
<1> QED
  BY <1>3, <1>4

(* Nor does it disappear when two speak.                                   *)
LEMMA FileShownTwice ==
  ASSUME LogInv, NEW s \in Seq(LogSegs), NEW t \in Seq(LogSegs),
         log' = log \o Says("assistant", s) \o Says("user", t)
  PROVE  FileShown => FileShown'
<1> DEFINE u == log \o Says("assistant", s)
           v == u \o Says("user", t)
<1>1. "user" \in Roles /\ "assistant" \in Roles
  BY DEF Roles
<1>2. \A i \in DOMAIN log : i \in DOMAIN u /\ u[i] = log[i]
  BY <1>1, FilesStayShown DEF LogInv
<1>3. u \in Seq(Entries)
  BY <1>1, SaysType, ConcatShape DEF LogInv
<1> HIDE DEF u
<1>4. \A i \in DOMAIN u : i \in DOMAIN v /\ v[i] = u[i]
  BY <1>1, <1>3, FilesStayShown
<1>5. log' = v
  BY DEF u
<1> HIDE DEF v
<1>6. \A i \in DOMAIN log : i \in DOMAIN log' /\ log'[i] = log[i]
  BY <1>2, <1>4, <1>5
<1> QED
  BY <1>6 DEF FileShown, ImageSeg

(* A question without a file can be sent.                                  *)
LEMMA QuestionIsSendable ==
  ASSUME LogInv, NEW q \in Seq(QuestionParts), log' = log \o Says("user", SegmentsOf(q)), ~FileShown'
  PROVE  q \in Seq(Sendable)
<1>1. "user" \in Roles /\ SegmentsOf(q) \in Seq(LogSegs)
  BY QuestionSays DEF Roles
<1> DEFINE s == SegmentsOf(q)
<1>2. \A i \in 1..Len(s) : s[i] # ImageSeg("file")
  <2> HIDE DEF s
  <2>1. s \in Seq(LogSegs) /\ log' = log \o Says("user", s)
    BY <1>1 DEF s
  <2> QED
    BY <1>1, <2>1, FileShownBehind
<1>3. \A k \in 1..Len(q) : ~(q[k].type = "image" /\ q[k].source = "file")
  BY <1>2, FilesAreSaid
<1>4. \A p \in QuestionParts : p \in Parts /\ p.type \notin {"thinking", "content"}
  BY PartKinds
<1>5. \A k \in 1..Len(q) : q[k] \in QuestionParts
  OBVIOUS
<1>6. \A k \in 1..Len(q) : q[k] \in Sendable
  BY <1>3, <1>4, <1>5 DEF Sendable
<1> QED
  BY <1>6, SeqOfItems

(* Every step keeps a history returnable.                                  *)
LEMMA ReturnableStays ==
  ASSUME EchoThinking = FALSE, TypesInv, LogInv, ReturnableInv, [ConversationNext]_conversationVars
  PROVE  ReturnableInv'
<1> DEFINE h == PartsOf(history)
<1>0. h \in Seq(Parts) /\ "user" \in Roles /\ "assistant" \in Roles
  BY HistoryParts DEF Roles
<1>1. ASSUME NEW parts \in Questions, NEW tools, NEW stream, Ask(parts, tools, stream) PROVE ReturnableInv'
  <2> DEFINE s == SegmentsOf(parts)
  <2>1. PartsOf(history') = h \o parts /\ parts \in Seq(QuestionParts)
    BY <1>1, AskAdds
  <2>2. parts \in Seq(Parts) /\ OfType(parts, "call") = <<>> /\ OfType(parts, "result") = <<>>
    BY <2>1, OfQuestions, PartKinds, SeqOfMore
  <2>3. log' = log \o Says("user", s) /\ client' = client
    BY <1>1 DEF Ask, Sends
  <2>4. s \in Seq(LogSegs)
    BY <2>1, QuestionSays
  <2>5. ~FileShown' => parts \in Seq(Sendable)
    BY <2>1, <2>3, QuestionIsSendable
  <2> HIDE DEF s, h
  <2>6. FileShown => FileShown'
    BY <1>0, <2>3, <2>4, FileShownBehind
  <2>7. Returnable(h) /\ Returnable(parts) /\ h \in Seq(Parts)
    BY <1>0, <2>2 DEF ReturnableInv, Returnable, h
  <2>8. Returnable(h \o parts)
    BY <2>2, <2>7, ReturnableTogether
  <2>9. Sending' /\ ~FileShown' => h \o parts \in Seq(Sendable)
    <3>1. Sending' => Sending
      BY <2>3 DEF Sending, Translated
    <3>2. Sending /\ ~FileShown => h \in Seq(Sendable)
      BY DEF ReturnableInv, h
    <3> QED
      BY <2>5, <2>6, <3>1, <3>2, ConcatShape
  <2> QED
    BY <2>1, <2>8, <2>9 DEF ReturnableInv, Returnable
<1>2. CASE ReadAnswer
  <2> DEFINE e == Back(reply)
  <2>1. PartsOf(history') = h \o e /\ reply \in Seq(ReplyParts) /\ OfType(reply, "call") = <<>>
    BY <1>2, ReadAdds
  <2>2. e \in Seq(Parts) /\ OfType(e, "call") = <<>> /\ OfType(e, "result") = <<>>
    BY <2>1, BackIds
  <2> DEFINE s == SayingOf(e)
  <2>3. log' = log \o Says("assistant", s) /\ client' = client
    BY <1>2 DEF ReadAnswer, Returned, Back
  <2>4. (Sending => e \in Seq(Sendable)) /\ s \in Seq(LogSegs)
    BY <2>1, EchoIsSendable, BackSays
  <2> HIDE DEF h, e, s
  <2>5. Returnable(h) /\ Returnable(e)
    BY <2>2 DEF ReturnableInv, Returnable, h
  <2>6. Returnable(h \o e)
    BY <1>0, <2>2, <2>5, ReturnableTogether
  <2>7. Sending' /\ ~FileShown' => h \o e \in Seq(Sendable)
    <3>1. Sending' => Sending
      BY <2>3 DEF Sending, Translated
    <3>2. FileShown => FileShown'
      BY <1>0, <2>3, <2>4, FileShownBehind
    <3>3. Sending /\ ~FileShown => h \in Seq(Sendable)
      BY DEF ReturnableInv, h
    <3> QED
      BY <2>4, <3>1, <3>2, <3>3, ConcatShape
  <2> QED
    BY <2>1, <2>6, <2>7 DEF ReturnableInv, Returnable
<1>3. ASSUME NEW order, NEW outcome \in Outcomes, NEW tools, RunTools(order, outcome, tools) PROVE ReturnableInv'
  <2> DEFINE c == OfType(reply, "call")
             e == Back(reply)
             r == Results(order, outcome)
             s == SayingOf(e)
             x == [i \in DOMAIN order |-> ResultXml(c[order[i]].name, ~outcome.failed, outcome.content)]
  <2>1. /\ reply \in Seq(ReplyParts) /\ order \in Orders(Len(c)) /\ r \in Seq(ResultParts) /\ Len(r) = Len(c)
        /\ PartsOf(history') = (h \o e) \o r
    BY <1>3, RunAdds
  <2>2. e \in Seq(Parts)
    BY <2>1, BackIds
  <2>3. c \in Seq(CallParts) /\ Len(c) \in Nat /\ c # <<>>
    BY <1>3, <2>1, OfReplies DEF RunTools
  <2>4. log' = log \o Says("assistant", s) \o Says("user", x) /\ client' = client
    BY <1>3 DEF RunTools, Returned, Back
  <2>5. order \in [1..Len(c) -> 1..Len(c)]
    BY <2>1 DEF Orders
  <2>6. (Sending => e \in Seq(Sendable)) /\ s \in Seq(LogSegs)
    BY <2>1, EchoIsSendable, BackSays
  <2>7. r \in Seq(Parts) /\ r \in Seq(Sendable) /\ OfType(r, "result") = r /\ r # <<>>
    <3> HIDE DEF r, c
    <3>1. OfType(r, "result") = r /\ r \in Seq(Parts)
      BY <2>1, OfResults, PartKinds, SeqOfMore
    <3>2. ResultParts \subseteq Sendable
      BY PartKinds DEF Sendable
    <3>3. r \in Seq(Sendable)
      BY <2>1, <3>2, SeqOfMore
    <3>4. Len(c) # 0
      BY <2>3
    <3> QED
      BY <2>1, <3>1, <3>3, <3>4
  <2> HIDE DEF h, e, r, c, s
  <2>8. x \in Seq(LogSegs)
    BY <2>3, <2>5, ResultsSay
  <2> HIDE DEF x
  <2>9. FileShown => FileShown'
    BY <1>0, <2>4, <2>6, <2>8, FileShownTwice
  <2> DEFINE he == h \o e
  <2>10. he \in Seq(Parts)
    BY <1>0, <2>2, ConcatShape
  <2>11. OfType(he, "result") \in Seq(Parts)
    BY <2>10, OfOneType
  <2> HIDE DEF he
  <2>12. OfType(he \o r, "result") # <<>>
    <3>1. OfType(he \o r, "result") = OfType(he, "result") \o r
      BY <2>7, <2>10, CallsAndResultsOfTwo
    <3> DEFINE g == OfType(he, "result")
    <3>2. g \in Seq(Parts) /\ r \in Seq(Parts) /\ r # <<>>
      BY <2>7, <2>11
    <3> HIDE DEF g
    <3>3. g \o r # <<>>
      BY <3>2
    <3> QED
      BY <3>1, <3>3 DEF g
  <2>13. Sending' /\ ~FileShown' => he \o r \in Seq(Sendable)
    <3>1. Sending' => Sending
      BY <2>4 DEF Sending, Translated
    <3>2. Sending /\ ~FileShown => h \in Seq(Sendable)
      BY DEF ReturnableInv, h
    <3>3. Sending /\ ~FileShown => he \in Seq(Sendable)
      BY <2>6, <3>2, ConcatShape DEF he
    <3> QED
      BY <2>7, <2>9, <3>1, <3>3, ConcatShape
  <2>14. PartsOf(history') = he \o r
    BY <2>1 DEF he
  <2> QED
    BY <2>12, <2>13, <2>14 DEF ReturnableInv, Returnable
<1>4. ASSUME NEW a, UpstreamAnswers(a) PROVE ReturnableInv'
  <2>1. history' = history /\ log' = log /\ client' = client
    BY <1>4 DEF UpstreamAnswers
  <2>2. (Sending' => Sending) /\ (FileShown => FileShown')
    BY <2>1 DEF Sending, Translated, FileShown, ImageSeg
  <2> QED
    BY <2>1, <2>2 DEF ReturnableInv
<1>5. CASE AskAgain \/ Refuse \/ Forward \/ UpstreamFails \/ UNCHANGED conversationVars
  <2>1. history' = history /\ log' = log /\ client' = client
    BY <1>5 DEF AskAgain, Refuse, Forward, UpstreamFails, conversationVars
  <2>2. (Sending' => Sending) /\ (FileShown => FileShown')
    BY <2>1 DEF Sending, Translated, FileShown, ImageSeg
  <2> QED
    BY <2>1, <2>2 DEF ReturnableInv
<1> QED
  BY <1>1, <1>2, <1>3, <1>4, <1>5 DEF ConversationNext, ClientNext

(* Parts that were rewritten have a translation.                           *)
LEMMA RewrittenTranslates ==
  ASSUME NEW p \in Sendable, NEW calls
  PROVE  /\ HasChatPart(BlockRewritten(p, calls))
         /\ p.type \notin {"call", "result"} => HasChatPart(p)
<1>1. p.type \in {"text", "call", "result"} \/ (p.type = "image" /\ p.source \in {"url", "base64"})
  <2>1. p \in Parts /\ p.type \notin {"thinking", "content"} /\ (p.type = "image" => p.source # "file")
    BY DEF Sendable
  <2>2. CASE p \in ReturnParts
    BY <2>1, <2>2, PartKinds
  <2>3. CASE p \in ImageParts
    BY <2>1, <2>3 DEF ImageParts
  <2>4. CASE p \in ResultParts
    BY <2>4, PartKinds
  <2> QED
    BY <2>1, <2>2, <2>3, <2>4 DEF Parts
<1>2. \A t : HasChatPart(TextPart(t))
  BY DEF HasChatPart, TextPart
<1> QED
  BY <1>1, <1>2 DEF BlockRewritten, HasChatPart

(* The parts of rewritten messages.                                        *)
LEMMA RewrittenParts ==
  ASSUME NEW ms \in Seq(Messages), PartsOf(ms) \in Seq(Sendable)
  PROVE  \A p \in Range(PartsOf(RewriteMessagesToolResults(ms))) : HasChatPart(p)
<1> DEFINE calls == OfType(PartsOf(ms), "call")
           T == {BlockRewritten(p, calls) : p \in Sendable}
           S == Seq(T)
           rewritten == RewriteMessagesToolResults(ms)
           each == [i \in DOMAIN rewritten |-> rewritten[i].parts]
<1> HIDE DEF calls, S
<1>1. ASSUME NEW i \in 1..Len(ms)
      PROVE  BlocksRewritten(ms[i].parts, calls) \in S
  <2> DEFINE q == ms[i].parts
  <2>1. q \in Seq(Parts) /\ \A k \in 1..Len(q) : q[k] \in Range(PartsOf(ms))
    BY PartIsAmongParts
  <2>2. \A k \in 1..Len(q) : q[k] \in Sendable
    BY <2>1 DEF Range
  <2> HIDE DEF q
  <2>3. BlocksRewritten(q, calls) = [k \in 1..Len(q) |-> BlockRewritten(q[k], calls)]
    BY <2>1 DEF BlocksRewritten
  <2>4. \A k \in 1..Len(q) : BlockRewritten(q[k], calls) \in T
    BY <2>2
  <2>5. [k \in 1..Len(q) |-> BlockRewritten(q[k], calls)] \in Seq(T)
    <3> HIDE DEF T
    <3> QED
      BY <2>1, <2>4
  <2> QED
    BY <2>3, <2>5 DEF S, q
<1>2. each \in Seq(S)
  <2>1. rewritten = [i \in 1..Len(ms) |-> [ms[i] EXCEPT !.parts = BlocksRewritten(ms[i].parts, calls)]]
    BY DEF RewriteMessagesToolResults, calls
  <2>2. \A i \in 1..Len(ms) : ms[i] \in Messages
    OBVIOUS
  <2>3. \A i \in 1..Len(ms) :
          [ms[i] EXCEPT !.parts = BlocksRewritten(ms[i].parts, calls)].parts = BlocksRewritten(ms[i].parts, calls)
    BY <2>2 DEF Messages
  <2> HIDE DEF rewritten
  <2>4. each = [i \in 1..Len(ms) |-> BlocksRewritten(ms[i].parts, calls)]
    BY <2>1, <2>3
  <2> HIDE DEF each
  <2> QED
    BY <1>1, <2>4
<1>3. PartsOf(rewritten) = FlattenSeq(each)
  BY DEF PartsOf
<1>4. each \in Seq(Seq(T))
  BY <1>2 DEF S
<1> HIDE DEF each, rewritten, T
<1>5. FlattenSeq(each) \in Seq(T)
  BY <1>4, FlattenType
<1>6. \A p \in Range(PartsOf(rewritten)) : p \in T
  BY <1>3, <1>5 DEF Range
<1>7. \A p \in T : HasChatPart(p)
  BY RewrittenTranslates DEF T
<1> QED
  BY <1>6, <1>7 DEF rewritten

(* A list of parts of which none is a call or a result.                    *)
LEMMA NoneOfType ==
  ASSUME NEW p \in Seq(Parts), OfType(p, "call") = <<>>, OfType(p, "result") = <<>>
  PROVE  \A i \in 1..Len(p) : p[i].type \notin {"call", "result"}
<1>1. ASSUME NEW x, OfType(p, x) = <<>>, NEW i \in 1..Len(p), p[i].type = x PROVE FALSE
  <2>1. p[i] \in Typed(Parts, x) /\ OfType(p, x) = Kept(p, Typed(Parts, x))
    BY <1>1, OfTypeIs DEF Typed
  <2>2. p[i] \in Range(Kept(p, Typed(Parts, x)))
    BY <2>1, KeptHas
  <2>3. Range(<<>>) = {}
    BY DEF Range
  <2> QED
    BY <1>1, <2>1, <2>2, <2>3
<1> QED
  BY <1>1

(* A history that can be sent has a translation, whether its calls and     *)
(* results were rewritten or it has none.                                  *)
LEMMA SendableTranslates ==
  ASSUME TypesInv, ReturnableInv, Sending, ~FileShown
  PROVE  \A p \in Range(PartsOf(Prepared.messages)) : HasChatPart(p)
<1> DEFINE h == PartsOf(history)
<1>1. h \in Seq(Sendable) /\ h \in Seq(Parts) /\ history \in Seq(Messages) /\ Returnable(h)
  BY HistoryParts DEF ReturnableInv, TypesInv
<1>2. CASE Bridged
  <2>1. Prepared.messages = RewriteMessagesToolResults(history)
    BY <1>2 DEF Prepared, PrepareToolRequest, InjectSystemPrompt, Body, Sent, RewriteToolResults, Sending
  <2> QED
    BY <1>1, <2>1, RewrittenParts
<1>3. CASE ~Bridged
  <2>1. Prepared.messages = history
    BY <1>3 DEF Prepared, Sent, Body
  <2>2. OfType(h, "result") = <<>>
    BY <1>3 DEF Bridged, NeedsToolBridge, HasResult
  <2>3. OfType(h, "call") = <<>>
    BY <1>1, <2>2 DEF Returnable
  <2> HIDE DEF h
  <2>4. ASSUME NEW i \in 1..Len(h) PROVE HasChatPart(h[i])
    <3>1. h[i] \in Sendable
      BY <1>1
    <3>2. h[i].type \notin {"call", "result"}
      BY <1>1, <2>2, <2>3, NoneOfType
    <3> QED
      BY <3>1, <3>2, RewrittenTranslates
  <2>5. \A p \in Range(h) : HasChatPart(p)
    BY <1>1, <2>4 DEF Range
  <2> QED
    BY <2>1, <2>5 DEF h
<1> QED
  BY <1>2, <1>3

(* At the beginning there are texts only.                                  *)
LEMMA ReturnableInitially == ASSUME ConversationInit PROVE ReturnableInv
<1> DEFINE h == PartsOf(history)
<1>1. h \in Seq(Typed(Parts, "text")) /\ TypesInv
  BY TypesInitially
<1> HIDE DEF h
<1>2. \A i \in 1..Len(h) : h[i].type = "text"
  BY <1>1 DEF Typed
<1>3. h \in Seq(Parts)
  BY <1>1, HistoryParts DEF h
<1>4. OfType(h, "call") = <<>>
  BY <1>2, <1>3, OfOneType
<1>5. Typed(Parts, "text") \subseteq Sendable
  BY DEF Typed, Sendable
<1>6. h \in Seq(Sendable)
  BY <1>1, <1>5, SeqOfMore
<1> QED
  BY <1>4, <1>6 DEF ReturnableInv, Returnable, h

(* Only a refusal refuses.                                                 *)
LEMMA OnlyRefuseRefuses ==
  ASSUME [ConversationNext]_conversationVars
  PROVE  phase' # "refused" \/ Refuse \/ UNCHANGED conversationVars
<1>1. CASE ClientNext
  BY <1>1 DEF ClientNext, Ask, AskAgain, ReadAnswer, RunTools, Sends
<1>2. CASE Forward
  BY <1>2 DEF Forward
<1>3. CASE UpstreamFails
  BY <1>3 DEF UpstreamFails
<1>4. ASSUME NEW a, UpstreamAnswers(a) PROVE phase' # "refused"
  BY <1>4 DEF UpstreamAnswers
<1> QED
  BY <1>1, <1>2, <1>3, <1>4 DEF ConversationNext

(* A client that returns no thinking is refused only for a reason that is  *)
(* not the bridge's own: where no provider's name has a slash, an id that  *)
(* is listed resolves (resolve), and what the bridge has answered has a    *)
(* translation when it comes back (messages_content_part_to_chat_part).    *)
THEOREM RefusalsHaveReasons ==
  ASSUME EchoThinking = FALSE,
         \A p \in Range(Providers) : \A i \in DOMAIN p.name : p.name[i] # "/"
  PROVE  ConversationSpec => []RefusedForAReason
<1>1. ConversationInit => LogInv /\ ReturnableInv /\ RefusedForAReason
  BY AllInitially, ReturnableInitially DEF ConversationInit, RefusedForAReason
<1>2. TypesInv /\ (LogInv /\ ReturnableInv /\ RefusedForAReason) /\ [ConversationNext]_conversationVars
      => (LogInv /\ ReturnableInv /\ RefusedForAReason)'
  <2> SUFFICES ASSUME TypesInv, LogInv, ReturnableInv, RefusedForAReason, [ConversationNext]_conversationVars
               PROVE  LogInv' /\ ReturnableInv' /\ RefusedForAReason'
    OBVIOUS
  <2>1. LogInv' /\ ReturnableInv'
    BY LogStays, ReturnableStays
  <2> SUFFICES RefusedForAReason'
    BY <2>1
  <2>2. CASE Refuse
    <3>1. phase' = "refused" /\ client' = client /\ log' = log
      BY <2>2 DEF Refuse
    <3>2. CASE ~Resolves(client.protocol, client.id)
      <4>1. ASSUME NEW x \in Listed, Id(x[1], x[2]) = client.id, x[1].protocol = client.protocol
            PROVE  FALSE
        <5>1. PICK p \in Range(Providers) : \E m \in Range(p.models) : x = <<p, m>>
          BY DEF Listed
        <5>2. PICK m \in Range(p.models) : x = <<p, m>>
          BY <5>1
        <5>3. Resolves(p.protocol, Id(p, m))
          BY ListedIsResolved
        <5> QED
          BY <3>2, <4>1, <5>2, <5>3
      <4> QED
        BY <3>1, <4>1 DEF RefusedForAReason
    <3>3. CASE ~Translates(client.protocol, Route.upstream, Prepared)
      <4>1. Route.upstream # client.protocol
        BY <3>3 DEF Translates
      <4>2. CASE <<client.protocol, Route.upstream>> # <<"messages", "chat">>
        BY <3>1, <4>1, <4>2 DEF RefusedForAReason, Route
      <4>3. CASE client.protocol = "messages" /\ Route.upstream = "chat"
        <5>1. Sending
          BY <4>1, <4>3 DEF Sending, Translated, Route
        <5>2. \E p \in Range(PartsOf(Prepared.messages)) : ~HasChatPart(p)
          BY <3>3, <4>3 DEF Translates
        <5>3. FileShown
          BY <5>1, <5>2, SendableTranslates
        <5> QED
          BY <3>1, <5>3 DEF RefusedForAReason, FileShown, ImageSeg
      <4> QED
        BY <4>2, <4>3
    <3> QED
      BY <2>2, <3>2, <3>3 DEF Refuse
  <2>3. CASE phase' # "refused"
    BY <2>3 DEF RefusedForAReason
  <2>4. CASE UNCHANGED conversationVars
    BY <2>4 DEF RefusedForAReason, Route, conversationVars
  <2> QED
    BY <2>2, <2>3, <2>4, OnlyRefuseRefuses
<1> QED
  BY <1>1, <1>2, TypesHold, PTL DEF ConversationSpec

-----------------------------------------------------------------------------
(* What the parts of a message tell an upstream, once they are text; what  *)
(* stands in parts beside calls is lost.                                   *)
Telling(calls) ==
  [p \in Parts |-> IF p.type = "content" THEN <<>> ELSE Segments(BlockRewritten(p, calls))]

(* Part by part.                                                           *)
LEMMA TellingIs ==
  ASSUME NEW p \in Parts, NEW calls
  PROVE  /\ p.type = "text" => Telling(calls)[p] = p.text
         /\ p.type \in {"thinking", "content"} => Telling(calls)[p] = <<>>
         /\ p.type = "image" => Telling(calls)[p] = <<ImageSeg(p.source)>>
         /\ p.type = "call" => Telling(calls)[p] = <<CallXml(p.name, p.arguments)>>
         /\ p.type = "result" => Telling(calls)[p] = <<ResultOf(p, calls)>>
<1>1. Telling(calls)[p] = IF p.type = "content" THEN <<>> ELSE Segments(BlockRewritten(p, calls))
  BY DEF Telling
<1>2. ASSUME p.type \in {"text", "thinking", "image"} PROVE BlockRewritten(p, calls) = p
  BY <1>2 DEF BlockRewritten
<1>3. p.type = "text" => Segments(p) = p.text
  BY DEF Segments
<1>4. p.type = "thinking" => Segments(p) = <<>>
  BY DEF Segments
<1>5. p.type = "image" => Segments(p) = <<ImageSeg(p.source)>>
  BY DEF Segments
<1>6. \A t : Segments(TextPart(t)) = t
  BY DEF Segments, TextPart
<1>7. p.type = "call" => BlockRewritten(p, calls) = TextPart(<<CallXml(p.name, p.arguments)>>)
  BY DEF BlockRewritten
<1>8. p.type = "result" => BlockRewritten(p, calls) = TextPart(<<ResultOf(p, calls)>>)
  BY DEF BlockRewritten
<1> QED
  BY <1>1, <1>2, <1>3, <1>4, <1>5, <1>6, <1>7, <1>8

(* What is known of a part of each type.                                   *)
LEMMA PartOfType ==
  ASSUME NEW p \in Parts
  PROVE  /\ p.type \in {"text", "content", "thinking", "image", "call", "result"}
         /\ p.type \in {"text", "content", "thinking"} => p.text \in Seq(AnswerSegs)
         /\ p.type = "image" => p.source \in {"url", "base64", "file"}
         /\ p.type = "call" => p \in CallParts
         /\ p.type = "result" => p \in ResultParts
BY DEF Parts, ReturnParts, ReplyParts, TextParts, ThinkingParts, ContentParts, CallParts, ImageParts, ResultParts

(* The name of a result is a name or an id.                                *)
LEMMA NameIsText ==
  ASSUME NEW calls \in Seq(CallParts), NEW id \in STRING
  PROVE  NameOfCall(calls, id) \in STRING
<1> DEFINE S == {c \in Range(calls) : c.id = id}
           same == Kept(calls, S)
<1>1. same \in Seq(CallParts)
  <2> HIDE DEF S
  <2> QED
    BY KeptType
<1>2. NameOfCall(calls, id) = IF same = <<>> THEN id ELSE Last(same).name
  BY DEF NameOfCall
<1>3. \A c \in CallParts : c.name \in STRING
  BY DEF CallParts
<1> HIDE DEF same
<1>4. same # <<>> => Last(same) \in CallParts
  BY <1>1 DEF Last
<1> QED
  BY <1>2, <1>3, <1>4

(* What is told is made of what is said.                                   *)
LEMMA TellingMaps ==
  ASSUME NEW calls \in Seq(CallParts)
  PROVE  Maps(Telling(calls), Parts, Seq(LogSegs))
<1> SUFFICES ASSUME NEW p \in Parts PROVE Telling(calls)[p] \in Seq(LogSegs)
  BY DEF Maps, Telling
<1>1. CASE p.type = "text"
  <2>1. p.text \in Seq(AnswerSegs)
    BY <1>1, PartOfType
  <2>2. AnswerSegs \subseteq LogSegs
    BY DEF LogSegs
  <2>3. p.text \in Seq(LogSegs)
    <3> HIDE DEF LogSegs
    <3> QED
      BY <2>1, <2>2, SeqOfMore
  <2> QED
    BY <1>1, <2>3, TellingIs
<1>2. CASE p.type \in {"thinking", "content"}
  <2>1. Telling(calls)[p] = <<>>
    BY <1>2, TellingIs
  <2> QED
    BY <2>1
<1>3. CASE p.type = "image"
  <2>1. ImageSeg(p.source) \in LogSegs
    <3>1. p.source \in {"url", "base64", "file"}
      BY <1>3, PartOfType
    <3> QED
      BY <3>1 DEF ImageSeg, LogSegs, ImageSegs
  <2>2. Telling(calls)[p] = <<ImageSeg(p.source)>>
    BY <1>3, TellingIs
  <2> QED
    BY <2>1, <2>2, OneType
<1>4. CASE p.type = "call"
  <2>1. CallXml(p.name, p.arguments) \in LogSegs
    <3>1. p \in CallParts
      BY <1>4, PartOfType
    <3>2. CallXml(p.name, p.arguments) \in CallSegs
      BY <3>1 DEF CallXml, CallSegs, CallParts
    <3> QED
      BY <3>2 DEF LogSegs, AnswerSegs
  <2>2. Telling(calls)[p] = <<CallXml(p.name, p.arguments)>>
    BY <1>4, TellingIs
  <2> QED
    BY <2>1, <2>2, OneType
<1>5. CASE p.type = "result"
  <2>1. ResultOf(p, calls) \in LogSegs
    <3>1. p \in ResultParts
      BY <1>5, PartOfType
    <3>2. p.id \in STRING /\ p.content \in {o.content : o \in Outcomes} /\ p.objects \in {o.objects : o \in Outcomes}
      BY <3>1 DEF ResultParts
    <3> DEFINE ok == ~IndicatesError(p.objects)
               n == NameOfCall(calls, p.id)
               Oks == BOOLEAN \cup {~x.failed : x \in Outcomes}
               Contents == {x.content : x \in Outcomes}
    <3>5. ok \in Oks
      <4>1. ok \in BOOLEAN
        BY DEF IndicatesError
      <4> QED
        BY <4>1
    <3>6. NameOfCall(calls, p.id) \in STRING
      BY <3>2, NameIsText
    <3>8. ResultOf(p, calls) = [seg |-> "result", name |-> n, ok |-> ok, content |-> p.content]
      BY DEF ResultOf, ResultXml
    <3>9. n \in STRING
      BY <3>6
    <3>10. p.content \in Contents
      BY <3>2
    <3>11. ResultSegs = [seg : {"result"}, name : STRING, ok : Oks, content : Contents]
      BY DEF ResultSegs
    <3> HIDE DEF ok, n, Oks, Contents
    <3>7. ResultOf(p, calls) \in ResultSegs
      BY <3>5, <3>8, <3>9, <3>10, <3>11
    <3> QED
      BY <3>7 DEF LogSegs
  <2>2. Telling(calls)[p] = <<ResultOf(p, calls)>>
    BY <1>5, TellingIs
  <2> QED
    BY <2>1, <2>2, OneType
<1> QED
  BY <1>1, <1>2, <1>3, <1>4, <1>5, PartOfType

(* What a message tells, and a history.                                    *)
Speaker(role) == IF role = "tool" THEN "user" ELSE role
Told(calls) == [m \in Messages |-> Says(Speaker(m.role), Spread(m.parts, Telling(calls)))]
Dialogue(ms, calls) == Spread(ms, Told(calls))

(* They tell what can be said.                                             *)
LEMMA ToldMaps ==
  ASSUME NEW calls \in Seq(CallParts)
  PROVE  /\ Maps(Told(calls), Messages, Seq(Entries))
         /\ \A parts \in Seq(Parts) : Spread(parts, Telling(calls)) \in Seq(LogSegs)
<1>1. ASSUME NEW parts \in Seq(Parts) PROVE Spread(parts, Telling(calls)) \in Seq(LogSegs)
  <2>1. Maps(Telling(calls), Parts, Seq(LogSegs))
    BY TellingMaps
  <2> QED
    BY <2>1, SpreadType
<1>2. ASSUME NEW m \in Messages PROVE Told(calls)[m] \in Seq(Entries)
  <2>1. m.role \in Roles /\ m.parts \in Seq(Parts)
    BY DEF Messages
  <2>2. Speaker(m.role) \in Roles
    BY <2>1 DEF Speaker, Roles
  <2>3. Told(calls)[m] = Says(Speaker(m.role), Spread(m.parts, Telling(calls)))
    BY DEF Told
  <2> QED
    BY <1>1, <2>1, <2>2, <2>3, SaysType
<1>3. Maps(Told(calls), Messages, Seq(Entries))
  BY <1>2 DEF Maps, Told
<1> QED
  BY <1>1, <1>3

(* One text as segments.                                                   *)
LEMMA TextSays ==
  ASSUME NEW A, NEW t \in Seq(A)
  PROVE  SegmentsOf(<<TextPart(t)>>) = t
<1> DEFINE x == <<TextPart(t)>>
<1>1. [i \in DOMAIN x |-> Segments(x[i])] = <<t>>
  BY DEF Segments, TextPart
<1>2. FlattenSeq(<<t>>) = t
  BY FlattenOne
<1> QED
  BY <1>1, <1>2 DEF SegmentsOf

(* Without calls and results there is nothing to rewrite.                  *)
LEMMA PlainSays ==
  ASSUME NEW parts \in Seq(Parts), NEW calls,
         \A i \in 1..Len(parts) : parts[i].type \notin {"call", "result", "content"}
  PROVE  SegmentsOf(parts) = Spread(parts, Telling(calls))
<1> DEFINE f == Telling(calls)
<1>1. DOMAIN parts = 1..Len(parts) /\ \A i \in 1..Len(parts) : parts[i] \in Parts
  OBVIOUS
<1>2. ASSUME NEW i \in 1..Len(parts) PROVE Segments(parts[i]) = f[parts[i]]
  <2>1. BlockRewritten(parts[i], calls) = parts[i]
    BY DEF BlockRewritten
  <2> QED
    BY <1>1, <2>1 DEF Telling
<1> HIDE DEF f
<1>3. [i \in DOMAIN parts |-> Segments(parts[i])] = [i \in DOMAIN parts |-> f[parts[i]]]
  BY <1>1, <1>2
<1> QED
  BY <1>3 DEF SegmentsOf, Spread, Each, f

(* The blocks of a message, each in its place.                             *)
LEMMA BlocksSay ==
  ASSUME NEW parts \in Seq(Parts), NEW calls, \A i \in 1..Len(parts) : parts[i].type # "content"
  PROVE  SegmentsOf(BlocksRewritten(parts, calls)) = Spread(parts, Telling(calls))
<1> DEFINE f == Telling(calls)
           b == BlocksRewritten(parts, calls)
<1>1. DOMAIN parts = 1..Len(parts) /\ \A i \in 1..Len(parts) : parts[i] \in Parts
  OBVIOUS
<1>2. DOMAIN b = 1..Len(parts) /\ \A i \in 1..Len(parts) : b[i] = BlockRewritten(parts[i], calls)
  BY <1>1 DEF BlocksRewritten
<1>3. \A i \in 1..Len(parts) : Segments(b[i]) = f[parts[i]]
  BY <1>1, <1>2 DEF Telling
<1> HIDE DEF f, b
<1>4. [i \in DOMAIN b |-> Segments(b[i])] = [i \in DOMAIN parts |-> f[parts[i]]]
  BY <1>1, <1>2, <1>3
<1> QED
  BY <1>4 DEF SegmentsOf, Spread, Each, f, b

(* What is told without results does not depend on the calls.              *)
LEMMA TellingSame ==
  ASSUME NEW parts \in Seq(Parts), NEW c, NEW d,
         \A i \in 1..Len(parts) : parts[i].type # "result"
  PROVE  Spread(parts, Telling(c)) = Spread(parts, Telling(d))
<1> DEFINE f == Telling(c)
           g == Telling(d)
<1>1. DOMAIN parts = 1..Len(parts) /\ Len(parts) \in Nat /\ \A i \in 1..Len(parts) : parts[i] \in Parts
  OBVIOUS
<1>2. ASSUME NEW i \in 1..Len(parts) PROVE f[parts[i]] = g[parts[i]]
  <2>1. BlockRewritten(parts[i], c) = BlockRewritten(parts[i], d)
    BY DEF BlockRewritten
  <2> QED
    BY <1>1, <2>1 DEF Telling
<1> HIDE DEF f, g
<1> QED
  BY <1>1, <1>2, SpreadSame DEF f, g

(* How the messages of a history look like, in the three protocols: of a   *)
(* chat, a result is a message of its own, and calls come behind the       *)
(* words; an item of a Responses input is one part.  There are parts of    *)
(* content only beside the calls of a chat.                                *)
NoContent(parts) == \A i \in 1..Len(parts) : parts[i].type # "content"
ChatShape(m) ==
  IF m.role = "tool" THEN Len(m.parts) = 1 /\ m.parts[1].type = "result"
  ELSE /\ \A i \in 1..Len(m.parts) : m.parts[i].type # "result"
       /\ OfType(m.parts, "call") = <<>> => NoContent(m.parts)
       /\ OfType(m.parts, "call") # <<>> =>
            Spread(m.parts, Telling(<<>>)) = TextOf(m.parts) \o CallsAsXml(OfType(m.parts, "call"))
ItemShape(m) ==
  /\ Len(m.parts) = 1 /\ (m.role = "tool" <=> m.parts[1].type = "result")
  /\ m.parts[1].type = "call" => m.role = "assistant"
  /\ m.parts[1].type # "content"
Shaped(protocol, m) ==
  IF protocol = "chat" THEN ChatShape(m)
  ELSE IF protocol = "responses" THEN ItemShape(m) ELSE m.role # "tool" /\ NoContent(m.parts)

(* A message in the words of the role that says it.                        *)
Voice(m) == Says(m.role, SegmentsOf(m.parts))

(* A message without calls and results is sent as it is.                   *)
LEMMA PlainTold ==
  ASSUME NEW m \in Messages, NEW calls, m.role # "tool",
         \A i \in 1..Len(m.parts) : m.parts[i].type \notin {"call", "result", "content"}
  PROVE  Voice(m) = Told(calls)[m]
<1>1. m.parts \in Seq(Parts)
  BY DEF Messages
<1>2. SegmentsOf(m.parts) = Spread(m.parts, Telling(calls))
  BY <1>1, PlainSays
<1> QED
  BY <1>2 DEF Voice, Told, Speaker

(* A message of Messages, rewritten.                                       *)
LEMMA BlocksTold ==
  ASSUME NEW m \in Messages, NEW calls, m.role # "tool", NoContent(m.parts)
  PROVE  Voice([m EXCEPT !.parts = BlocksRewritten(@, calls)]) = Told(calls)[m]
<1>1. m.parts \in Seq(Parts)
  BY DEF Messages
<1> DEFINE b == BlocksRewritten(m.parts, calls)
           r == [m EXCEPT !.parts = BlocksRewritten(@, calls)]
<1>2. r.role = m.role /\ r.parts = b
  <2> HIDE DEF b
  <2>1. [m EXCEPT !.parts = b].role = m.role /\ [m EXCEPT !.parts = b].parts = b
    BY DEF Messages
  <2> QED
    BY <2>1 DEF b
<1>3. SegmentsOf(b) = Spread(m.parts, Telling(calls))
  BY <1>1, BlocksSay DEF NoContent
<1>4. Told(calls)[m] = Says(m.role, Spread(m.parts, Telling(calls)))
  BY DEF Told, Speaker
<1> HIDE DEF r, b
<1>5. Voice(r) = Told(calls)[m]
  BY <1>2, <1>3, <1>4 DEF Voice
<1> QED
  BY <1>5 DEF r

(* A message of one result, told by the user.                              *)
LEMMA ResultTold ==
  ASSUME NEW m \in Messages, NEW calls \in Seq(CallParts), m.role = "tool",
         Len(m.parts) = 1, m.parts[1].type = "result"
  PROVE  Voice(Message("user", <<TextPart(<<ResultOf(m.parts[1], calls)>>)>>)) = Told(calls)[m]
<1> DEFINE p == m.parts[1]
           t == <<ResultOf(p, calls)>>
<1>1. m.parts \in Seq(Parts)
  BY DEF Messages
<1>2. p \in Parts /\ m.parts = <<p>>
  BY <1>1
<1>3. Telling(calls)[p] = t
  BY <1>2, TellingIs
<1>4. Maps(Telling(calls), Parts, Seq(LogSegs))
  BY TellingMaps
<1> HIDE DEF p, t
<1>5. Spread(<<p>>, Telling(calls)) = t /\ t \in Seq(LogSegs)
  BY <1>2, <1>3, <1>4, SpreadOne
<1>6. SegmentsOf(<<TextPart(t)>>) = t
  BY <1>5, TextSays
<1>7. Told(calls)[m] = Says("user", t)
  BY <1>2, <1>5 DEF Told, Speaker
<1>8. Voice(Message("user", <<TextPart(t)>>)) = Says("user", t)
  BY <1>6 DEF Voice, Message
<1> QED
  BY <1>7, <1>8 DEF t, p

(* An item of a Responses input, rewritten.                                *)
LEMMA ItemTold ==
  ASSUME NEW m \in Messages, NEW calls \in Seq(CallParts), ItemShape(m)
  PROVE  Voice(ItemRewritten(m, calls)) = Told(calls)[m]
<1> DEFINE p == m.parts[1]
<1>1. m.parts \in Seq(Parts)
  BY DEF Messages
<1>2. p \in Parts /\ m.parts = <<p>> /\ Len(m.parts) = 1
  BY <1>1 DEF ItemShape
<1>3. CASE p.type = "call"
  <2> DEFINE t == <<CallXml(p.name, p.arguments)>>
  <2>1. m.role = "assistant"
    BY <1>3 DEF ItemShape
  <2>2. Telling(calls)[p] = t
    BY <1>2, <1>3, TellingIs
  <2>3. ItemRewritten(m, calls) = Message("assistant", <<TextPart(t)>>)
    BY <1>3 DEF ItemRewritten
  <2>4. Maps(Telling(calls), Parts, Seq(LogSegs))
    BY TellingMaps
  <2> HIDE DEF p, t
  <2>5. Spread(<<p>>, Telling(calls)) = t /\ t \in Seq(LogSegs)
    BY <1>2, <2>2, <2>4, SpreadOne
  <2>6. SegmentsOf(<<TextPart(t)>>) = t
    BY <2>5, TextSays
  <2>7. Told(calls)[m] = Says("assistant", t)
    BY <1>2, <2>1, <2>5 DEF Told, Speaker
  <2>8. Voice(Message("assistant", <<TextPart(t)>>)) = Says("assistant", t)
    BY <2>6 DEF Voice, Message
  <2> QED
    BY <2>3, <2>7, <2>8
<1>4. CASE p.type = "result"
  <2>1. m.role = "tool"
    BY <1>4 DEF ItemShape
  <2>2. ItemRewritten(m, calls) = Message("user", <<TextPart(<<ResultOf(p, calls)>>)>>)
    BY <1>4 DEF ItemRewritten
  <2> QED
    BY <1>2, <1>4, <2>1, <2>2, ResultTold
<1>5. CASE p.type \notin {"call", "result"}
  <2>1. ItemRewritten(m, calls) = m
    BY <1>5 DEF ItemRewritten
  <2>2. m.role # "tool"
    BY <1>5 DEF ItemShape
  <2>3. \A i \in 1..Len(m.parts) : m.parts[i].type \notin {"call", "result", "content"}
    BY <1>2, <1>5 DEF ItemShape
  <2> QED
    BY <2>1, <2>2, <2>3, PlainTold
<1> QED
  BY <1>3, <1>4, <1>5

(* Items that become nothing.                                              *)
LEMMA SpreadNone ==
  ASSUME NEW A, NEW t \in Seq(A), NEW f, \A i \in 1..Len(t) : f[t[i]] = <<>>
  PROVE  Spread(t, f) = <<>>
<1>1. DOMAIN t = 1..Len(t)
  OBVIOUS
<1>2. [i \in DOMAIN t |-> f[t[i]]] = [i \in DOMAIN t |-> IF t[i] \in {} THEN <<t[i]>> ELSE <<>>]
  BY <1>1
<1>3. Kept(t, {}) = <<>>
  BY KeptNone
<1> QED
  BY <1>2, <1>3 DEF Spread, Each, Kept

(* Calls as segments.                                                      *)
LEMMA CallsAsXmlType ==
  ASSUME NEW c \in Seq(CallParts)
  PROVE  CallsAsXml(c) \in Seq(AnswerSegs)
<1>1. DOMAIN c = 1..Len(c) /\ Len(c) \in Nat
  OBVIOUS
<1>2. \A p \in CallParts : CallXml(p.name, p.arguments) \in AnswerSegs
  BY DEF CallParts, CallXml, CallSegs, AnswerSegs
<1>3. \A i \in 1..Len(c) : CallXml(c[i].name, c[i].arguments) \in AnswerSegs
  BY <1>2
<1> QED
  BY <1>1, <1>3 DEF CallsAsXml

(* The text of a message, and its calls.                                   *)
LEMMA TextOfType ==
  ASSUME NEW parts \in Seq(Parts)
  PROVE  /\ TextOf(parts) \in Seq(AnswerSegs)
         /\ OfType(parts, "call") \in Seq(CallParts)
<1> DEFINE texts == OfType(parts, "text")
           calls == OfType(parts, "call")
           L == Seq(AnswerSegs)
           x == [i \in DOMAIN texts |-> texts[i].text]
<1>1. texts \in Seq(Typed(Parts, "text"))
  BY OfOneType
<1>2. calls \in Seq(Typed(Parts, "call"))
  BY OfOneType
<1>3. Typed(Parts, "call") \subseteq CallParts
  BY PartOfType DEF Typed
<1>4. \A p \in Typed(Parts, "text") : p.text \in L
  BY PartOfType DEF Typed
<1> DEFINE T == Typed(Parts, "text")
<1> HIDE DEF texts, calls, L, T
<1>5. texts \in Seq(T)
  BY <1>1 DEF T
<1>6. x \in Seq(L)
  <2>1. DOMAIN texts = 1..Len(texts) /\ Len(texts) \in Nat /\ \A i \in 1..Len(texts) : texts[i] \in T
    BY <1>5
  <2> QED
    BY <1>4, <2>1 DEF T
<1>7. x \in Seq(Seq(AnswerSegs))
  BY <1>6 DEF L
<1> HIDE DEF x
<1>8. FlattenSeq(x) \in Seq(AnswerSegs)
  BY <1>7, FlattenType
<1>9. calls \in Seq(CallParts)
  BY <1>2, <1>3, SeqOfMore
<1> QED
  BY <1>8, <1>9 DEF TextOf, x, texts, calls

(* A chat message with calls, rewritten: the calls behind the words.       *)
LEMMA CallingTold ==
  ASSUME NEW m \in Messages, NEW calls \in Seq(CallParts), m.role # "tool",
         ChatShape(m), OfType(m.parts, "call") # <<>>
  PROVE  Voice(ChatRewritten(m, calls)) = Told(calls)[m]
<1> DEFINE own == OfType(m.parts, "call")
           th == OfType(m.parts, "thinking")
           text == TextOf(m.parts) \o CallsAsXml(own)
           p == TextPart(text)
<1>1. m.parts \in Seq(Parts)
  BY DEF Messages
<1>2. ChatText(m, calls) = text
  BY DEF ChatText, CallsAsXml
<1>3. ChatRewritten(m, calls) = Message(m.role, th \o <<p>>)
  BY <1>2 DEF ChatRewritten
<1>4. text \in Seq(AnswerSegs)
  <2>1. TextOf(m.parts) \in Seq(AnswerSegs)
    BY <1>1, TextOfType
  <2>2. CallsAsXml(own) \in Seq(AnswerSegs)
    BY <1>1, TextOfType, CallsAsXmlType
  <2> QED
    BY <2>1, <2>2, ConcatShape
<1>5. th \in Seq(Parts) /\ \A i \in 1..Len(th) : th[i].type = "thinking"
  <2>1. th \in Seq(Parts)
    BY <1>1, OfOneType
  <2>2. th \in Seq(Typed(Parts, "thinking"))
    BY <1>1, OfOneType
  <2> QED
    BY <2>1, <2>2 DEF Typed
<1>6. Spread(m.parts, Telling(<<>>)) = text
  BY DEF ChatShape
<1>7. Spread(m.parts, Telling(<<>>)) = Spread(m.parts, Telling(calls))
  BY <1>1, TellingSame DEF ChatShape
<1> HIDE DEF th, text
<1>8. p \in Parts /\ p.type = "text" /\ p.text = text
  BY <1>4 DEF TextPart, Parts, ReturnParts, ReplyParts, TextParts
<1> HIDE DEF p
<1>9. th \o <<p>> \in Seq(Parts) /\ Len(th \o <<p>>) = Len(th) + 1
      /\ \A i \in 1..Len(th \o <<p>>) : (th \o <<p>>)[i].type \notin {"call", "result", "content"}
  <2>1. <<p>> \in Seq(Parts) /\ Len(<<p>>) = 1
    BY <1>8, OneType
  <2>2. th \o <<p>> \in Seq(Parts) /\ Len(th \o <<p>>) = Len(th) + 1
    BY <1>5, <2>1, ConcatShape
  <2>3. ASSUME NEW i \in 1..(Len(th) + 1) PROVE (th \o <<p>>)[i].type \notin {"call", "result", "content"}
    <3>1. CASE i \in 1..Len(th)
      <4>1. (th \o <<p>>)[i] = th[i]
        BY <1>5, <3>1
      <4> QED
        BY <1>5, <3>1, <4>1
    <3>2. CASE i = Len(th) + 1
      <4>1. (th \o <<p>>)[i] = p
        BY <1>5, <3>2
      <4> QED
        BY <1>8, <4>1
    <3> QED
      BY <1>5, <3>1, <3>2
  <2> QED
    BY <2>2, <2>3
<1>10. SegmentsOf(th \o <<p>>) = Spread(th \o <<p>>, Telling(<<>>))
  <2> DEFINE u == th \o <<p>>
  <2>1. u \in Seq(Parts) /\ \A i \in 1..Len(u) : u[i].type \notin {"call", "result", "content"}
    BY <1>9
  <2> HIDE DEF u
  <2>2. SegmentsOf(u) = Spread(u, Telling(<<>>))
    BY <2>1, PlainSays
  <2> QED
    BY <2>2 DEF u
<1>11. Spread(th \o <<p>>, Telling(<<>>)) = text
  <2>0. <<>> \in Seq(CallParts)
    OBVIOUS
  <2>1. Maps(Telling(<<>>), Parts, Seq(LogSegs))
    BY <2>0, TellingMaps
  <2>2. <<p>> \in Seq(Parts)
    BY <1>8, OneType
  <2>3. Joins(Spread(th \o <<p>>, Telling(<<>>)), Spread(th, Telling(<<>>)), Spread(<<p>>, Telling(<<>>)))
    BY <1>5, <2>1, <2>2, SpreadConcat
  <2>4. Spread(th, Telling(<<>>)) = <<>>
    <3>1. \A i \in 1..Len(th) : th[i] \in Parts
      BY <1>5
    <3>2. \A i \in 1..Len(th) : Telling(<<>>)[th[i]] = <<>>
      BY <1>5, <3>1, TellingIs
    <3> QED
      BY <1>5, <3>2, SpreadNone
  <2>5. Telling(<<>>)[p] = text
    BY <1>8, TellingIs
  <2>6. Spread(<<p>>, Telling(<<>>)) = text
    BY <1>8, <2>1, <2>5, SpreadOne
  <2>7. <<>> \o text = text
    BY <1>4
  <2> QED
    BY <2>3, <2>4, <2>6, <2>7 DEF Joins
<1>12. Told(calls)[m] = Says(m.role, text)
  BY <1>6, <1>7 DEF Told, Speaker
<1>13. Voice(Message(m.role, th \o <<p>>)) = Says(m.role, text)
  BY <1>10, <1>11 DEF Voice, Message
<1> QED
  BY <1>3, <1>12, <1>13

(* A chat message, rewritten.                                              *)
LEMMA ChatTold ==
  ASSUME NEW m \in Messages, NEW calls \in Seq(CallParts), ChatShape(m)
  PROVE  Voice(ChatRewritten(m, calls)) = Told(calls)[m]
<1>1. m.parts \in Seq(Parts)
  BY DEF Messages
<1>2. CASE m.role = "tool"
  <2>1. Len(m.parts) = 1 /\ m.parts[1].type = "result"
    BY <1>2 DEF ChatShape
  <2>2. ChatRewritten(m, calls) = Message("user", <<TextPart(<<ResultOf(m.parts[1], calls)>>)>>)
    BY <1>2 DEF ChatRewritten, ChatText
  <2> QED
    BY <1>2, <2>1, <2>2, ResultTold
<1>3. CASE m.role # "tool" /\ OfType(m.parts, "call") = <<>>
  <2>1. ChatRewritten(m, calls) = m
    BY <1>3 DEF ChatRewritten
  <2>2. \A i \in 1..Len(m.parts) : m.parts[i].type # "result"
    BY <1>3 DEF ChatShape
  <2>3. \A i \in 1..Len(m.parts) : m.parts[i].type # "call"
    <3>1. OfType(m.parts, "call") = Kept(m.parts, Typed(Parts, "call"))
      BY <1>1, OfTypeIs
    <3> SUFFICES ASSUME NEW i \in 1..Len(m.parts), m.parts[i].type = "call" PROVE FALSE
      OBVIOUS
    <3>2. m.parts[i] \in Typed(Parts, "call")
      BY <1>1 DEF Typed
    <3>3. m.parts[i] \in Range(Kept(m.parts, Typed(Parts, "call")))
      BY <1>1, <3>2, KeptHas
    <3> QED
      BY <1>3, <3>1, <3>3 DEF Range
  <2>4. \A i \in 1..Len(m.parts) : m.parts[i].type # "content"
    BY <1>3 DEF ChatShape, NoContent
  <2> QED
    BY <1>3, <2>1, <2>2, <2>3, <2>4, PlainTold
<1> QED
  BY <1>2, <1>3, CallingTold

(* What all messages say.                                                  *)
Voices(ms) == [i \in DOMAIN ms |-> Voice(ms[i])]

(* A history that is rewritten says, message by message, what it tells.    *)
LEMMA VoicesRewritten ==
  ASSUME NEW ms \in Seq(Messages), NEW protocol \in Protocols,
         \A i \in 1..Len(ms) : Shaped(protocol, ms[i])
  PROVE  Voices(RewriteToolResults(protocol, ms)) = Each(ms, Told(OfType(PartsOf(ms), "call")))
<1> DEFINE calls == OfType(PartsOf(ms), "call")
           f == Told(calls)
<1>1. DOMAIN ms = 1..Len(ms) /\ \A i \in 1..Len(ms) : ms[i] \in Messages
  OBVIOUS
<1>2. calls \in Seq(CallParts)
  BY PartsOfMessages, TextOfType
<1>3. CASE protocol = "chat"
  <2>1. RewriteToolResults(protocol, ms) = [i \in DOMAIN ms |-> ChatRewritten(ms[i], calls)]
    BY <1>3 DEF RewriteToolResults, RewriteChatToolResults
  <2> HIDE DEF calls
  <2>2. ASSUME NEW i \in 1..Len(ms) PROVE Voice(ChatRewritten(ms[i], calls)) = f[ms[i]]
    <3>1. ChatShape(ms[i])
      BY <1>3 DEF Shaped
    <3> QED
      BY <1>1, <1>2, <3>1, ChatTold
  <2> HIDE DEF f
  <2>3. Voices(RewriteToolResults(protocol, ms)) = [i \in DOMAIN ms |-> f[ms[i]]]
    BY <1>1, <2>1, <2>2 DEF Voices
  <2> QED
    BY <2>3 DEF Each, f, calls
<1>4. CASE protocol = "responses"
  <2>1. RewriteToolResults(protocol, ms) = [i \in DOMAIN ms |-> ItemRewritten(ms[i], calls)]
    BY <1>4 DEF RewriteToolResults, RewriteResponsesToolResults
  <2> HIDE DEF calls
  <2>2. ASSUME NEW i \in 1..Len(ms) PROVE Voice(ItemRewritten(ms[i], calls)) = f[ms[i]]
    <3>1. ItemShape(ms[i])
      BY <1>4 DEF Shaped
    <3> QED
      BY <1>1, <1>2, <3>1, ItemTold
  <2> HIDE DEF f
  <2>3. Voices(RewriteToolResults(protocol, ms)) = [i \in DOMAIN ms |-> f[ms[i]]]
    BY <1>1, <2>1, <2>2 DEF Voices
  <2> QED
    BY <2>3 DEF Each, f, calls
<1>5. CASE protocol = "messages"
  <2>1. RewriteToolResults(protocol, ms) =
          [i \in DOMAIN ms |-> [ms[i] EXCEPT !.parts = BlocksRewritten(@, calls)]]
    BY <1>5 DEF RewriteToolResults, RewriteMessagesToolResults
  <2> HIDE DEF calls
  <2>2. ASSUME NEW i \in 1..Len(ms)
        PROVE  Voice([ms[i] EXCEPT !.parts = BlocksRewritten(@, calls)]) = f[ms[i]]
    <3>1. ms[i].role # "tool" /\ NoContent(ms[i].parts)
      BY <1>5 DEF Shaped
    <3> QED
      BY <1>1, <3>1, BlocksTold
  <2> HIDE DEF f
  <2>3. Voices(RewriteToolResults(protocol, ms)) = [i \in DOMAIN ms |-> f[ms[i]]]
    BY <1>1, <2>1, <2>2 DEF Voices
  <2> QED
    BY <2>3 DEF Each, f, calls
<1> QED
  BY <1>3, <1>4, <1>5 DEF Protocols

(* All messages, as they are.                                              *)
LEMMA VoicesPlain ==
  ASSUME NEW ms \in Seq(Messages), NEW protocol \in Protocols, NEW calls,
         \A i \in 1..Len(ms) : Shaped(protocol, ms[i]),
         OfType(PartsOf(ms), "call") = <<>>, OfType(PartsOf(ms), "result") = <<>>
  PROVE  Voices(ms) = Each(ms, Told(calls))
<1> DEFINE f == Told(calls)
<1>1. DOMAIN ms = 1..Len(ms) /\ \A i \in 1..Len(ms) : ms[i] \in Messages
  OBVIOUS
<1>2. PartsOf(ms) \in Seq(Parts)
  BY PartsOfMessages
<1>3. \A p \in Range(PartsOf(ms)) : p.type \notin {"call", "result"}
  BY <1>2, NoneOfType DEF Range
<1>4. ASSUME NEW i \in 1..Len(ms) PROVE Voice(ms[i]) = f[ms[i]]
  <2>1. ms[i].parts \in Seq(Parts) /\ \A k \in 1..Len(ms[i].parts) : ms[i].parts[k] \in Range(PartsOf(ms))
    BY PartIsAmongParts
  <2>2. \A k \in 1..Len(ms[i].parts) : ms[i].parts[k].type \notin {"call", "result"}
    BY <1>3, <2>1
  <2>3. ms[i].role # "tool" /\ NoContent(ms[i].parts)
    <3>0. OfType(ms[i].parts, "call") = <<>>
      <4> DEFINE q == ms[i].parts
      <4>1. q \in Seq(Parts) /\ \A k \in 1..Len(q) : q[k].type # "call"
        BY <2>1, <2>2
      <4> HIDE DEF q
      <4>2. OfType(q, "call") = <<>>
        BY <4>1, OfOneType
      <4> QED
        BY <4>2 DEF q
    <3>1. CASE protocol = "chat"
      BY <2>2, <3>0, <3>1 DEF Shaped, ChatShape
    <3>2. CASE protocol = "responses"
      BY <2>2, <3>2 DEF Shaped, ItemShape, NoContent
    <3>3. CASE protocol = "messages"
      BY <3>3 DEF Shaped
    <3> QED
      BY <3>1, <3>2, <3>3 DEF Protocols
  <2>4. \A k \in 1..Len(ms[i].parts) : ms[i].parts[k].type \notin {"call", "result", "content"}
    BY <2>2, <2>3 DEF NoContent
  <2> QED
    BY <1>1, <2>3, <2>4, PlainTold
<1> HIDE DEF f
<1>5. Voices(ms) = [i \in DOMAIN ms |-> f[ms[i]]]
  BY <1>1, <1>4 DEF Voices
<1> QED
  BY <1>5 DEF Each, f

(* The voices of two sequences of messages in a row.                       *)
LEMMA VoicesConcat ==
  ASSUME NEW A, NEW s \in Seq(A), NEW t \in Seq(A)
  PROVE  Joins(Voices(s \o t), Voices(s), Voices(t))
<1> DEFINE f == [m \in A |-> Voice(m)]
           B == {f[m] : m \in A}
<1>1. Maps(f, A, B)
  <2>1. \A m \in A : f[m] \in B
    OBVIOUS
  <2> QED
    BY <2>1 DEF Maps
<1>2. \A m \in A : f[m] = Voice(m)
  OBVIOUS
<1>3. s \o t \in Seq(A)
  BY ConcatShape
<1> HIDE DEF f, B
<1>4. Joins(Each(s \o t, f), Each(s, f), Each(t, f))
  BY <1>1, EachConcat
<1>5. ASSUME NEW u \in Seq(A) PROVE Each(u, f) = Voices(u)
  <2>1. DOMAIN u = 1..Len(u) /\ \A i \in 1..Len(u) : u[i] \in A
    OBVIOUS
  <2> QED
    BY <1>2, <2>1 DEF Each, Voices
<1>6. Each(s, f) = Voices(s) /\ Each(t, f) = Voices(t)
  BY <1>5
<1>7. Each(s \o t, f) = Voices(s \o t)
  <2> DEFINE u == s \o t
  <2>1. u \in Seq(A)
    BY <1>3
  <2> HIDE DEF u
  <2>2. Each(u, f) = Voices(u)
    BY <1>5, <2>1
  <2> QED
    BY <2>2 DEF u
<1> QED
  BY <1>4, <1>6, <1>7

(* Messages in two parts.                                                  *)
LEMMA VoicesCut ==
  ASSUME NEW A, NEW s \in Seq(A), NEW at \in 1..(Len(s) + 1), NEW B, NEW C,
         \A i \in 1..(at - 1) : Voice(s[i]) \in B, \A i \in at..Len(s) : Voice(s[i]) \in C
  PROVE  /\ SubSeq(s, 1, at - 1) \in Seq(A) /\ SubSeq(s, at, Len(s)) \in Seq(A)
         /\ s = SubSeq(s, 1, at - 1) \o SubSeq(s, at, Len(s))
         /\ Voices(SubSeq(s, 1, at - 1)) \in Seq(B) /\ Voices(SubSeq(s, at, Len(s))) \in Seq(C)
<1> DEFINE x == SubSeq(s, 1, at - 1)
           y == SubSeq(s, at, Len(s))
<1>1. x \in Seq(A) /\ Len(x) = at - 1 /\ \A i \in 1..(at - 1) : x[i] = s[i]
  OBVIOUS
<1>2. y \in Seq(A) /\ Len(y) = Len(s) - at + 1 /\ \A i \in 1..(Len(s) - at + 1) : y[i] = s[at + i - 1]
  OBVIOUS
<1> HIDE DEF x, y
<1>0. Len(s) \in Nat /\ at \in Nat /\ 1 <= at /\ at <= Len(s) + 1
  OBVIOUS
<1>3. s = x \o y
  <2>1. x \o y \in Seq(A) /\ Len(x \o y) = Len(x) + Len(y)
    BY <1>1, <1>2, ConcatShape
  <2>2. ASSUME NEW i \in 1..Len(s) PROVE s[i] = (x \o y)[i]
    <3>1. CASE i \in 1..(at - 1)
      <4>1. (x \o y)[i] = x[i]
        BY <1>1, <1>2, <3>1
      <4> QED
        BY <1>1, <3>1, <4>1
    <3>2. CASE i \in at..Len(s)
      <4>1. (x \o y)[i] = y[i - at + 1]
        BY <1>1, <1>2, <3>2
      <4>2. i - at + 1 \in 1..(Len(s) - at + 1) /\ at + (i - at + 1) - 1 = i
        BY <3>2
      <4>3. y[i - at + 1] = s[at + (i - at + 1) - 1]
        BY <1>2, <4>2
      <4> QED
        BY <4>1, <4>2, <4>3
    <3>3. i \in 1..(at - 1) \/ i \in at..Len(s)
      BY <1>0
    <3> QED
      BY <3>1, <3>2, <3>3
  <2>3. Len(x \o y) = Len(s)
    <3>1. Len(x) = at - 1 /\ Len(y) = Len(s) - at + 1
      BY <1>1, <1>2
    <3> QED
      BY <1>0, <2>1, <3>1
  <2> QED
    BY <2>1, <2>2, <2>3, SeqEqual
<1>4. Voices(x) \in Seq(B)
  <2>1. DOMAIN x = 1..(at - 1) /\ at - 1 \in Nat
    BY <1>1
  <2>2. \A i \in 1..(at - 1) : Voice(x[i]) \in B
    BY <1>1
  <2> QED
    BY <2>1, <2>2 DEF Voices
<1>5. Voices(y) \in Seq(C)
  <2>1. DOMAIN y = 1..(Len(s) - at + 1) /\ Len(s) - at + 1 \in Nat
    BY <1>2
  <2>2. \A i \in 1..(Len(s) - at + 1) : at + i - 1 \in at..Len(s) /\ y[i] = s[at + i - 1]
    BY <1>2
  <2>3. \A i \in 1..(Len(s) - at + 1) : Voice(y[i]) \in C
    BY <2>2
  <2> QED
    BY <2>1, <2>3 DEF Voices
<1> QED
  BY <1>1, <1>2, <1>3, <1>4, <1>5 DEF x, y

(* A chat body carries texts and images.                                   *)
ChatParts == [type : {"text"}, text : Seq(LogSegs)] \cup ImageParts

(* Content in which texts become one text says the same.                   *)
LEMMA ContentSays ==
  ASSUME NEW parts \in Seq(ChatParts)
  PROVE  SegmentsOf(ChatContent(parts)) = SegmentsOf(parts)
<1>1. CASE OfType(parts, "image") = <<>>
  <2>1. \A i \in 1..Len(parts) : parts[i].type # "image"
    <3>1. OfType(parts, "image") = Kept(parts, Typed(ChatParts, "image"))
      BY OfTypeIs
    <3> SUFFICES ASSUME NEW i \in 1..Len(parts), parts[i].type = "image" PROVE FALSE
      OBVIOUS
    <3>2. parts[i] \in Typed(ChatParts, "image")
      BY DEF Typed
    <3>3. parts[i] \in Range(Kept(parts, Typed(ChatParts, "image")))
      BY <3>2, KeptHas
    <3> QED
      BY <1>1, <3>1, <3>3 DEF Range
  <2> DEFINE L == Seq(LogSegs)
  <2>2. ASSUME NEW p \in ChatParts, p.type # "image" PROVE p.type = "text" /\ p.text \in L
    BY <2>2 DEF ChatParts, ImageParts
  <2> HIDE DEF L
  <2>3. \A i \in 1..Len(parts) : parts[i] \in ChatParts /\ parts[i].type = "text" /\ parts[i].text \in L
    BY <2>1, <2>2
  <2>4. OfType(parts, "text") = parts
    BY <2>3, OfOneType
  <2> DEFINE x == [i \in DOMAIN parts |-> parts[i].text]
  <2>5. DOMAIN parts = 1..Len(parts) /\ Len(parts) \in Nat
    OBVIOUS
  <2>6. x = [i \in DOMAIN parts |-> Segments(parts[i])]
    BY <2>3, <2>5 DEF Segments
  <2>7. x \in Seq(L)
    BY <2>3, <2>5
  <2>8. TextOf(parts) = FlattenSeq(x)
    BY <2>4 DEF TextOf
  <2>9. SegmentsOf(parts) = FlattenSeq(x)
    BY <2>6 DEF SegmentsOf
  <2>10. x \in Seq(Seq(LogSegs))
    BY <2>7 DEF L
  <2> HIDE DEF x
  <2>11. FlattenSeq(x) \in Seq(LogSegs)
    BY <2>10, FlattenType
  <2> DEFINE t == FlattenSeq(x)
  <2>12. t \in Seq(LogSegs)
    BY <2>11
  <2> HIDE DEF t
  <2>13. SegmentsOf(<<TextPart(t)>>) = t
    BY <2>12, TextSays
  <2>14. ChatContent(parts) = <<TextPart(t)>>
    BY <1>1, <2>8 DEF ChatContent, t
  <2> QED
    BY <2>9, <2>13, <2>14 DEF t
<1>2. CASE OfType(parts, "image") # <<>>
  BY <1>2 DEF ChatContent
<1> QED
  BY <1>1, <1>2

(* Messages on their way to a chat upstream.                               *)
SentParts == ChatParts \cup Parts
SentMessages == [role : Roles, parts : Seq(SentParts)]

(* A block that was rewritten.                                             *)
LEMMA BlockType ==
  ASSUME NEW p \in Parts, NEW calls \in Seq(CallParts)
  PROVE  BlockRewritten(p, calls) \in SentParts
<1>1. CASE p.type \in {"call", "result"}
  <2> DEFINE s == IF p.type = "call" THEN CallXml(p.name, p.arguments) ELSE ResultOf(p, calls)
  <2>1. Telling(calls)[p] = <<s>>
    BY <1>1, TellingIs
  <2>2. BlockRewritten(p, calls) = TextPart(<<s>>)
    BY <1>1 DEF BlockRewritten
  <2>3. Telling(calls)[p] \in Seq(LogSegs)
    BY TellingMaps, MapsOne
  <2> DEFINE t == <<s>>
  <2>4. t \in Seq(LogSegs)
    BY <2>1, <2>3
  <2> HIDE DEF t
  <2>5. TextPart(t) \in ChatParts
    BY <2>4 DEF TextPart, ChatParts
  <2> QED
    BY <2>2, <2>5 DEF SentParts, t
<1>2. CASE p.type \notin {"call", "result"}
  <2>1. BlockRewritten(p, calls) = p
    BY <1>2 DEF BlockRewritten
  <2> QED
    BY <2>1 DEF SentParts
<1> QED
  BY <1>1, <1>2

(* Messages, as they are and rewritten.                                    *)
LEMMA SentType ==
  ASSUME NEW ms \in Seq(Messages)
  PROVE  ms \in Seq(SentMessages) /\ RewriteMessagesToolResults(ms) \in Seq(SentMessages)
<1> DEFINE calls == OfType(PartsOf(ms), "call")
           L == Seq(SentParts)
<1>1. calls \in Seq(CallParts)
  BY PartsOfMessages, TextOfType
<1>2. \A q \in Seq(Parts) : q \in L
  <2>1. Parts \subseteq SentParts
    BY DEF SentParts
  <2> HIDE DEF SentParts
  <2> QED
    BY <2>1, SeqOfMore
<1>3. ASSUME NEW q \in Seq(Parts) PROVE BlocksRewritten(q, calls) \in L
  <2> HIDE DEF calls
  <2>1. \A k \in 1..Len(q) : q[k] \in Parts
    OBVIOUS
  <2>2. \A k \in 1..Len(q) : BlockRewritten(q[k], calls) \in SentParts
    BY <1>1, <2>1, BlockType
  <2>3. [k \in 1..Len(q) |-> BlockRewritten(q[k], calls)] \in Seq(SentParts)
    <3> HIDE DEF SentParts
    <3> QED
      BY <2>2
  <2>4. BlocksRewritten(q, calls) = [k \in 1..Len(q) |-> BlockRewritten(q[k], calls)]
    BY DEF BlocksRewritten
  <2> QED
    BY <2>3, <2>4
<1> HIDE DEF calls, L
<1>4. ASSUME NEW m \in Messages
      PROVE  m \in SentMessages /\ [m EXCEPT !.parts = BlocksRewritten(@, calls)] \in SentMessages
  <2>1. m.role \in Roles /\ m.parts \in Seq(Parts) /\ m = [role |-> m.role, parts |-> m.parts]
    BY DEF Messages
  <2>2. m.parts \in L /\ BlocksRewritten(m.parts, calls) \in L
    BY <1>2, <1>3, <2>1
  <2>3. SentMessages = [role : Roles, parts : L]
    BY DEF SentMessages, L
  <2> DEFINE b == BlocksRewritten(m.parts, calls)
  <2> HIDE DEF b
  <2>4. [m EXCEPT !.parts = b] = [role |-> m.role, parts |-> b]
    BY <2>1
  <2>5. [role |-> m.role, parts |-> b] \in SentMessages
    BY <2>1, <2>2, <2>3 DEF b
  <2>6. m \in SentMessages
    BY <2>1, <2>2, <2>3
  <2> QED
    BY <2>4, <2>5, <2>6 DEF b
<1>5. \A i \in 1..Len(ms) : ms[i] \in Messages
  OBVIOUS
<1>6. ms \in Seq(SentMessages)
  BY <1>4, <1>5, SeqOfItems
<1>7. RewriteMessagesToolResults(ms) = [i \in 1..Len(ms) |-> [ms[i] EXCEPT !.parts = BlocksRewritten(@, calls)]]
  BY DEF RewriteMessagesToolResults, calls
<1>8. RewriteMessagesToolResults(ms) \in Seq(SentMessages)
  <2>1. \A i \in 1..Len(ms) : [ms[i] EXCEPT !.parts = BlocksRewritten(@, calls)] \in SentMessages
    BY <1>4, <1>5
  <2> HIDE DEF SentMessages
  <2>2. [i \in 1..Len(ms) |-> [ms[i] EXCEPT !.parts = BlocksRewritten(@, calls)]] \in Seq(SentMessages)
    BY <2>1
  <2> QED
    BY <1>7, <2>2
<1> QED
  BY <1>6, <1>8

(* A message of a body that has a translation says the same in it.         *)
LEMMA TranslatedVoices ==
  ASSUME NEW ms \in Seq(SentMessages), \A p \in Range(PartsOf(ms)) : HasChatPart(p)
  PROVE  Voices([i \in DOMAIN ms |-> Message(ms[i].role, ChatContent(ms[i].parts))]) = Voices(ms)
<1> DEFINE L == Seq(SentParts)
           all == [j \in DOMAIN ms |-> ms[j].parts]
<1>1. \A m \in SentMessages : m.parts \in L
  BY DEF SentMessages
<1>0. DOMAIN ms = 1..Len(ms) /\ Len(ms) \in Nat /\ \A i \in 1..Len(ms) : ms[i] \in SentMessages
  OBVIOUS
<1> HIDE DEF L
<1>2. all \in Seq(L) /\ Len(all) = Len(ms) /\ \A i \in 1..Len(ms) : all[i] = ms[i].parts /\ ms[i].parts \in L
  BY <1>0, <1>1
<1>3. all \in Seq(Seq(SentParts)) /\ \A i \in 1..Len(ms) : ms[i].parts \in Seq(SentParts)
  BY <1>2 DEF L
<1>4. PartsOf(ms) = FlattenSeq(all)
  BY DEF PartsOf
<1> HIDE DEF all
<1>5. ASSUME NEW i \in 1..Len(ms) PROVE Voice(Message(ms[i].role, ChatContent(ms[i].parts))) = Voice(ms[i])
  <2> DEFINE q == ms[i].parts
  <2>1. q \in Seq(SentParts) /\ all[i] = q /\ i \in 1..Len(all)
    BY <1>2, <1>3
  <2>2. \A k \in 1..Len(q) : q[k] \in Range(FlattenSeq(all))
    BY <1>3, <2>1, FlattenHas
  <2>3. \A k \in 1..Len(q) : HasChatPart(q[k]) /\ q[k] \in SentParts
    BY <1>4, <2>1, <2>2
  <2>4. ASSUME NEW p \in SentParts, HasChatPart(p) PROVE p \in ChatParts
    <3>1. CASE p \in ChatParts
      BY <3>1
    <3>2. CASE p \in Parts
      <4>1. CASE p.type = "text"
        <5>1. p \in TextParts
          <6>1. p \in ReplyParts
            BY <3>2, <4>1 DEF Parts, ReturnParts, ContentParts, ImageParts, ResultParts
          <6> QED
            BY <4>1, <6>1 DEF ReplyParts, ThinkingParts, CallParts
        <5>2. AnswerSegs \subseteq LogSegs
          BY DEF LogSegs
        <5>3. p.text \in Seq(AnswerSegs) /\ p = [type |-> "text", text |-> p.text]
          BY <5>1 DEF TextParts
        <5>4. p.text \in Seq(LogSegs)
          BY <5>2, <5>3, SeqOfMore
        <5>5. [type |-> "text", text |-> p.text] \in ChatParts
          BY <5>4 DEF ChatParts
        <5> QED
          BY <5>3, <5>5
      <4>2. CASE p.type = "image"
        <5>1. p \in ImageParts
          BY <3>2, <4>2 DEF Parts, ReturnParts, ReplyParts, TextParts, ThinkingParts, ContentParts, CallParts, ResultParts
        <5> QED
          BY <5>1 DEF ChatParts
      <4> QED
        BY <2>4, <4>1, <4>2 DEF HasChatPart
    <3> QED
      BY <3>1, <3>2 DEF SentParts
  <2>5. \A k \in 1..Len(q) : q[k] \in ChatParts
    BY <2>3, <2>4
  <2> HIDE DEF q
  <2>6. q \in Seq(ChatParts)
    BY <2>1, <2>5, SeqOfItems
  <2>7. SegmentsOf(ChatContent(q)) = SegmentsOf(q)
    BY <2>6, ContentSays
  <2> QED
    BY <2>7 DEF Voice, Message, q
<1>6. Voices([i \in DOMAIN ms |-> Message(ms[i].role, ChatContent(ms[i].parts))])
        = [i \in DOMAIN ms |-> Voice(Message(ms[i].role, ChatContent(ms[i].parts)))]
  BY DEF Voices
<1> QED
  BY <1>0, <1>5, <1>6 DEF Voices

(* What is said in one role, whatever is said.                             *)
LEMMA SaysAny ==
  ASSUME NEW S, NEW role \in Roles, NEW s \in Seq(S)
  PROVE  Says(role, s) \in Seq(Roles \X S)
<1>1. DOMAIN s = 1..Len(s) /\ Len(s) \in Nat /\ \A i \in 1..Len(s) : <<role, s[i]>> \in Roles \X S
  OBVIOUS
<1> QED
  BY <1>1 DEF Says

(* Nothing said.                                                           *)
LEMMA SaysNothing == \A role : Says(role, <<>>) = <<>>
BY DEF Says

(* A body as segments, by its messages.                                    *)
LEMMA FlatIs ==
  ASSUME NEW system, NEW ms, NEW tools
  PROVE  Flat(Body(system, ms, tools)) = Says("system", system) \o FlattenSeq(Voices(ms))
BY DEF Flat, Body, Voices, Voice

(* A translated body says the same: its system text is its first message.  *)
LEMMA ChatSays ==
  ASSUME NEW S, NEW system \in Seq(S), NEW ms \in Seq(SentMessages), NEW tools,
         \A p \in Range(PartsOf(ms)) : HasChatPart(p), Voices(ms) \in Seq(Seq(Roles \X S))
  PROVE  Flat(Body(<<>>, ChatMessages(Body(system, ms, tools)), tools)) = Flat(Body(system, ms, tools))
<1> DEFINE E == Roles \X S
           M == [i \in DOMAIN ms |-> Message(ms[i].role, ChatContent(ms[i].parts))]
           first == Message("system", <<TextPart(system)>>)
           v == Voices(ms)
           s == Says("system", system)
<1>1. Voices(M) = v
  BY TranslatedVoices
<1>2. s \in Seq(E) /\ v \in Seq(Seq(E))
  BY SaysAny DEF Roles
<1>3. Voice(first) = s
  <2>1. SegmentsOf(<<TextPart(system)>>) = system
    BY TextSays
  <2> QED
    BY <2>1 DEF Voice, Message
<1>4. ChatMessages(Body(system, ms, tools)) = (IF system = <<>> THEN <<>> ELSE <<first>>) \o M
  BY DEF ChatMessages, Body
<1> DEFINE A == {first} \cup Range(M)
<1>5. M \in Seq(A) /\ <<first>> \in Seq(A)
  <2>1. DOMAIN M = 1..Len(ms) /\ Len(ms) \in Nat
    OBVIOUS
  <2>2. \A i \in 1..Len(ms) : M[i] \in A
    BY <2>1 DEF Range
  <2>3. M = [i \in 1..Len(ms) |-> M[i]]
    OBVIOUS
  <2> HIDE DEF M, A
  <2>4. [i \in 1..Len(ms) |-> M[i]] \in Seq(A)
    BY <2>1, <2>2
  <2>5. M \in Seq(A)
    BY <2>3, <2>4
  <2>6. first \in A
    BY DEF A
  <2> QED
    BY <2>5, <2>6, OneType
<1> HIDE DEF M, first, A, v, E
<1>6. Flat(Body(system, ms, tools)) = s \o FlattenSeq(v)
  BY FlatIs DEF v
<1>7. FlattenSeq(v) \in Seq(E)
  BY <1>2, FlattenType
<1>8. CASE system = <<>>
  <2>1. ChatMessages(Body(system, ms, tools)) = M
    <3>1. <<>> \o M = M
      BY <1>5
    <3> QED
      BY <1>4, <1>8, <3>1
  <2>2. Flat(Body(<<>>, M, tools)) = Says("system", <<>>) \o FlattenSeq(Voices(M))
    BY FlatIs
  <2> QED
    BY <1>1, <1>6, <1>8, <2>1, <2>2
<1>9. CASE system # <<>>
  <2>1. ChatMessages(Body(system, ms, tools)) = <<first>> \o M
    BY <1>4, <1>9
  <2>2. Joins(Voices(<<first>> \o M), Voices(<<first>>), Voices(M))
    BY <1>5, VoicesConcat
  <2>3. Voices(<<first>>) = <<s>>
    BY <1>3 DEF Voices
  <2>4. Voices(<<first>> \o M) = <<s>> \o v
    BY <1>1, <2>2, <2>3 DEF Joins
  <2> HIDE DEF s
  <2>5. FlattenSeq(<<s>> \o v) = FlattenSeq(<<s>>) \o FlattenSeq(v)
    <3>1. <<s>> \in Seq(Seq(E))
      BY <1>2, OneType
    <3> QED
      BY <1>2, <3>1, FlattenConcat
  <2>6. FlattenSeq(<<s>>) = s
    BY <1>2, FlattenOne
  <2>7. Flat(Body(<<>>, <<first>> \o M, tools)) = Says("system", <<>>) \o FlattenSeq(Voices(<<first>> \o M))
    BY FlatIs
  <2>8. <<>> \o (s \o FlattenSeq(v)) = s \o FlattenSeq(v)
    <3> DEFINE w == s \o FlattenSeq(v)
    <3>1. w \in Seq(E)
      BY <1>2, <1>7, ConcatShape
    <3> HIDE DEF w
    <3>2. <<>> \o w = w
      BY <3>1
    <3> QED
      BY <3>2 DEF w
  <2> QED
    BY <1>6, <2>1, <2>4, <2>5, <2>6, <2>7, <2>8, SaysNothing
<1> QED
  BY <1>8, <1>9

(* Rewritten messages are as many, and the system's stay the system's.     *)
LEMMA RewrittenRoles ==
  ASSUME NEW ms \in Seq(Messages), NEW protocol \in Protocols,
         \A i \in 1..Len(ms) : Shaped(protocol, ms[i])
  PROVE  LET r == RewriteToolResults(protocol, ms)
         IN  /\ r \in Seq(Range(r)) /\ Len(r) = Len(ms)
             /\ \A i \in 1..Len(ms) : r[i].role = "system" <=> ms[i].role = "system"
<1> DEFINE calls == OfType(PartsOf(ms), "call")
           r == RewriteToolResults(protocol, ms)
<1>1. DOMAIN ms = 1..Len(ms) /\ Len(ms) \in Nat /\ \A i \in 1..Len(ms) : ms[i] \in Messages
  OBVIOUS
<1>2. ASSUME protocol = "chat"
      PROVE  /\ DOMAIN r = 1..Len(ms) /\ r = [i \in 1..Len(ms) |-> r[i]]
             /\ \A i \in 1..Len(ms) : r[i].role = "system" <=> ms[i].role = "system"
  <2>1. r = [i \in DOMAIN ms |-> ChatRewritten(ms[i], calls)]
    BY <1>2 DEF RewriteToolResults, RewriteChatToolResults
  <2>2. \A i \in 1..Len(ms) : ChatRewritten(ms[i], calls).role = "system" <=> ms[i].role = "system"
    <3> HIDE DEF calls
    <3> QED
      BY DEF ChatRewritten, Message
  <2> HIDE DEF r, calls
  <2>4. r = [i \in 1..Len(ms) |-> r[i]]
    BY <1>1, <2>1
  <2>3. DOMAIN r = 1..Len(ms) /\ \A i \in 1..Len(ms) : r[i].role = "system" <=> ms[i].role = "system"
    BY <1>1, <2>1, <2>2
  <2> QED
    BY <2>3, <2>4 DEF r
<1>3. ASSUME protocol = "responses"
      PROVE  /\ DOMAIN r = 1..Len(ms) /\ r = [i \in 1..Len(ms) |-> r[i]]
             /\ \A i \in 1..Len(ms) : r[i].role = "system" <=> ms[i].role = "system"
  <2>1. r = [i \in DOMAIN ms |-> ItemRewritten(ms[i], calls)]
    BY <1>3 DEF RewriteToolResults, RewriteResponsesToolResults
  <2>2. ASSUME NEW i \in 1..Len(ms)
        PROVE  ItemRewritten(ms[i], calls).role = "system" <=> ms[i].role = "system"
    <3>1. ItemShape(ms[i])
      BY <1>3 DEF Shaped
    <3> HIDE DEF calls
    <3> QED
      BY <3>1 DEF ItemShape, ItemRewritten, Message
  <2> HIDE DEF r, calls
  <2>4. r = [i \in 1..Len(ms) |-> r[i]]
    BY <1>1, <2>1
  <2>3. DOMAIN r = 1..Len(ms) /\ \A i \in 1..Len(ms) : r[i].role = "system" <=> ms[i].role = "system"
    BY <1>1, <2>1, <2>2
  <2> QED
    BY <2>3, <2>4 DEF r
<1>4. ASSUME protocol = "messages"
      PROVE  /\ DOMAIN r = 1..Len(ms) /\ r = [i \in 1..Len(ms) |-> r[i]]
             /\ \A i \in 1..Len(ms) : r[i].role = "system" <=> ms[i].role = "system"
  <2>1. r = [i \in DOMAIN ms |-> [ms[i] EXCEPT !.parts = BlocksRewritten(@, calls)]]
    BY <1>4 DEF RewriteToolResults, RewriteMessagesToolResults
  <2>2. ASSUME NEW i \in 1..Len(ms)
        PROVE  [ms[i] EXCEPT !.parts = BlocksRewritten(@, calls)].role = ms[i].role
    BY <1>1 DEF Messages
  <2> HIDE DEF r, calls
  <2>4. r = [i \in 1..Len(ms) |-> r[i]]
    BY <1>1, <2>1
  <2>3. DOMAIN r = 1..Len(ms) /\ \A i \in 1..Len(ms) : r[i].role = "system" <=> ms[i].role = "system"
    BY <1>1, <2>1, <2>2
  <2> QED
    BY <2>3, <2>4 DEF r
<1>5. /\ DOMAIN r = 1..Len(ms) /\ r = [i \in 1..Len(ms) |-> r[i]]
      /\ \A i \in 1..Len(ms) : r[i].role = "system" <=> ms[i].role = "system"
  BY <1>2, <1>3, <1>4 DEF Protocols
<1> HIDE DEF r
<1>7. \A i \in 1..Len(ms) : r[i] \in Range(r)
  BY <1>5 DEF Range
<1>8. [i \in 1..Len(ms) |-> r[i]] \in Seq(Range(r))
  BY <1>1, <1>7
<1>9. r \in Seq(Range(r)) /\ Len(r) = Len(ms)
  BY <1>1, <1>5, <1>8
<1> QED
  BY <1>5, <1>9 DEF r

-----------------------------------------------------------------------------
(* The messages of a history, and which of them the system says: of a chat *)
(* the first one, if the client has a system text.                         *)
ShapeInv ==
  \A i \in 1..Len(history) :
    /\ Shaped(client.protocol, history[i])
    /\ history[i].role = "system" => client.protocol = "chat" /\ i = 1

HistoryCalls == OfType(PartsOf(history), "call")
SystemText == IF client.protocol = "chat" THEN <<>> ELSE client.system
PromptTools == CollectTools(StrippedTools)
Retold == IF Bridged THEN RewriteToolResults(client.protocol, history) ELSE history

(* The history on its way to the upstream, message by message.             *)
LEMMA RetoldSays ==
  ASSUME TypesInv, ShapeInv, Returnable(PartsOf(history))
  PROVE  /\ Retold \in Seq(Range(Retold)) /\ Len(Retold) = Len(history)
         /\ \A i \in 1..Len(history) : Retold[i].role = "system" <=> history[i].role = "system"
         /\ Voices(Retold) = Each(history, Told(HistoryCalls))
         /\ client.protocol = "messages" => Retold \in Seq(SentMessages)
         /\ client.protocol \in Protocols /\ HistoryCalls \in Seq(CallParts)
<1>1. history \in Seq(Messages) /\ client.protocol \in Protocols /\ PartsOf(history) \in Seq(Parts)
  BY HistoryParts, ClientsAssumption DEF TypesInv
<1>2. HistoryCalls \in Seq(CallParts)
  BY <1>1, TextOfType DEF HistoryCalls
<1>3. \A i \in 1..Len(history) : Shaped(client.protocol, history[i])
  BY DEF ShapeInv
<1>4. CASE Bridged
  <2> DEFINE r == RewriteToolResults(client.protocol, history)
  <2>1. Retold = r
    BY <1>4 DEF Retold
  <2>2. /\ r \in Seq(Range(r)) /\ Len(r) = Len(history)
        /\ \A i \in 1..Len(history) : r[i].role = "system" <=> history[i].role = "system"
    BY <1>1, <1>3, RewrittenRoles
  <2>3. Voices(r) = Each(history, Told(HistoryCalls))
    BY <1>1, <1>3, VoicesRewritten DEF HistoryCalls
  <2>4. client.protocol = "messages" => r \in Seq(SentMessages)
    BY <1>1, SentType DEF RewriteToolResults
  <2> HIDE DEF r
  <2> QED
    BY <1>1, <1>2, <2>1, <2>2, <2>3, <2>4
<1>5. CASE ~Bridged
  <2>1. Retold = history
    BY <1>5 DEF Retold
  <2>2. OfType(PartsOf(history), "result") = <<>>
    BY <1>5 DEF Bridged, NeedsToolBridge, HasResult
  <2>3. OfType(PartsOf(history), "call") = <<>>
    BY <2>2 DEF Returnable
  <2>4. Voices(history) = Each(history, Told(HistoryCalls))
    BY <1>1, <1>3, <2>2, <2>3, VoicesPlain
  <2>5. history \in Seq(SentMessages)
    BY <1>1, SentType
  <2>6. history \in Seq(Range(history))
    <3>1. \A i \in 1..Len(history) : history[i] \in Range(history)
      BY <1>1 DEF Range
    <3> QED
      BY <1>1, <3>1, SeqOfItems
  <2> QED
    BY <1>1, <1>2, <2>1, <2>4, <2>5, <2>6
<1> QED
  BY <1>4, <1>5

(* What the bridge makes of a request.                                     *)
LEMMA PreparedIs ==
  LET prompt == <<PromptXml(PromptTools)>>
      others == {i \in DOMAIN Retold : Retold[i].role # "system"}
      at == IF others = {} THEN Len(Retold) + 1 ELSE Min(others)
  IN  /\ PromptTools = <<>> => Prepared = Body(SystemText, Retold, <<>>)
      /\ PromptTools # <<>> /\ client.protocol # "chat" =>
           Prepared = Body(SystemText \o prompt, Retold, <<>>)
      /\ PromptTools # <<>> /\ client.protocol = "chat" =>
           Prepared = Body(SystemText, InsertAt(Retold, at, Message("system", <<TextPart(prompt)>>)), <<>>)
<1> DEFINE prompt == <<PromptXml(PromptTools)>>
<1>1. Sent = Body(SystemText, history, StrippedTools)
  BY DEF Sent, SystemText
<1>2. \A s, m, u : Body(s, m, u).system = s /\ Body(s, m, u).messages = m /\ Body(s, m, u).tools = u
  BY DEF Body
<1>3. CASE ~Bridged
  <2>1. given.tools = <<>>
    BY <1>3 DEF Bridged, NeedsToolBridge
  <2>2. StrippedTools = <<>>
    BY <2>1 DEF StrippedTools, StripTools
  <2>3. PromptTools = <<>>
    BY <2>2, KeptNil DEF PromptTools, CollectTools
  <2>4. Prepared = Sent /\ Retold = history
    BY <1>3 DEF Prepared, Retold
  <2> QED
    BY <1>1, <2>2, <2>3, <2>4
<1>4. CASE Bridged
  <2> DEFINE b == Body(SystemText, Retold, <<>>)
  <2>1. Body(Sent.system, RewriteToolResults(client.protocol, Sent.messages), <<>>) = b
    BY <1>1, <1>2, <1>4 DEF Retold
  <2>2. Prepared = IF PromptTools = <<>> THEN b ELSE InjectSystemPrompt(client.protocol, b, prompt)
    BY <1>4, <2>1 DEF Prepared, PrepareToolRequest, PromptTools
  <2>3. b = [system |-> SystemText, messages |-> Retold, tools |-> <<>>]
    BY DEF Body
  <2>4. \A x : [b EXCEPT !.system = x] = Body(x, Retold, <<>>)
    <3> HIDE DEF b
    <3> QED
      BY <2>3 DEF Body
  <2>5. \A x : [b EXCEPT !.messages = x] = Body(SystemText, x, <<>>)
    <3> HIDE DEF b
    <3> QED
      BY <2>3 DEF Body
  <2>6. b.system = SystemText /\ b.messages = Retold
    BY <1>2
  <2> HIDE DEF b, prompt
  <2>7. client.protocol # "chat" => InjectSystemPrompt(client.protocol, b, prompt) = Body(SystemText \o prompt, Retold, <<>>)
    BY <2>4, <2>6 DEF InjectSystemPrompt
  <2> DEFINE others == {i \in DOMAIN Retold : Retold[i].role # "system"}
             at == IF others = {} THEN Len(Retold) + 1 ELSE Min(others)
             more == InsertAt(Retold, at, Message("system", <<TextPart(prompt)>>))
  <2>8. client.protocol = "chat" =>
          InjectSystemPrompt(client.protocol, b, prompt) = [b EXCEPT !.messages = more]
    BY <2>6 DEF InjectSystemPrompt
  <2>9. client.protocol = "chat" => InjectSystemPrompt(client.protocol, b, prompt) = Body(SystemText, more, <<>>)
    <3> HIDE DEF more
    <3> QED
      BY <2>5, <2>8
  <2> QED
    BY <2>2, <2>7, <2>9 DEF b, prompt
<1> QED
  BY <1>3, <1>4

(* The history falls into what the system says and the rest, before which  *)
(* the prompt of a chat goes.                                              *)
LEMMA WhereSystemEnds ==
  ASSUME TypesInv, ShapeInv, Returnable(PartsOf(history))
  PROVE  \E at \in 1..(Len(Retold) + 1) :
           /\ \A i \in 1..(at - 1) : Retold[i].role = "system"
           /\ \A i \in at..Len(Retold) : Retold[i].role # "system"
           /\ client.protocol # "chat" => at = 1
           /\ LET others == {i \in DOMAIN Retold : Retold[i].role # "system"}
              IN  at = IF others = {} THEN Len(Retold) + 1 ELSE Min(others)
<1> DEFINE R == Retold
           others == {i \in DOMAIN R : R[i].role # "system"}
<1>1. R \in Seq(Range(R)) /\ Len(R) = Len(history)
      /\ \A i \in 1..Len(history) : R[i].role = "system" <=> history[i].role = "system"
  BY RetoldSays
<1>2. \A i \in 1..Len(R) : R[i].role = "system" => client.protocol = "chat" /\ i = 1
  BY <1>1 DEF ShapeInv
<1> HIDE DEF R
<1>3. DOMAIN R = 1..Len(R) /\ Len(R) \in Nat
  BY <1>1
<1>4. CASE Len(R) # 0 /\ R[1].role = "system"
  <2>1. client.protocol = "chat"
    BY <1>2, <1>3, <1>4
  <2>2. \A i \in 2..Len(R) : R[i].role # "system"
    BY <1>2, <1>3
  <2>3. others = 2..Len(R)
    BY <1>3, <1>4, <2>2
  <2>4. 2 = IF others = {} THEN Len(R) + 1 ELSE Min(others)
    <3>1. CASE others = {}
      BY <1>3, <1>4, <2>3, <3>1
    <3>2. CASE others # {}
      <4>1. 2 \in others /\ \A y \in others : 2 <= y
        BY <1>3, <2>3, <3>2
      <4>2. others \in SUBSET (Nat \ {0})
        BY <1>3
      <4> HIDE DEF others
      <4>3. FirstOf(others) = 2
        BY <4>1, <4>2, FirstOfIs
      <4> QED
        BY <3>2, <4>3 DEF FirstOf
    <3> QED
      BY <3>1, <3>2
  <2>5. 2 \in 1..(Len(R) + 1) /\ \A i \in 1..(2 - 1) : R[i].role = "system"
    BY <1>3, <1>4
  <2> HIDE DEF others
  <2> QED
    BY <2>1, <2>2, <2>4, <2>5 DEF others, R
<1>5. CASE ~(Len(R) # 0 /\ R[1].role = "system")
  <2>1. \A i \in 1..Len(R) : R[i].role # "system"
    BY <1>2, <1>3, <1>5
  <2>2. others = 1..Len(R)
    BY <1>3, <2>1
  <2>3. 1 = IF others = {} THEN Len(R) + 1 ELSE Min(others)
    <3>1. CASE others = {}
      <4>1. Len(R) = 0
        <5>1. 1 \notin 1..Len(R)
          BY <2>2, <3>1
        <5> QED
          BY <1>3, <5>1
      <4> QED
        BY <3>1, <4>1
    <3>2. CASE others # {}
      <4>1. 1 \in others /\ \A y \in others : 1 <= y
        BY <1>3, <2>2, <3>2
      <4>2. others \in SUBSET (Nat \ {0})
        BY <1>3
      <4> HIDE DEF others
      <4>3. FirstOf(others) = 1
        BY <4>1, <4>2, FirstOfIs
      <4> QED
        BY <3>2, <4>3 DEF FirstOf
    <3> QED
      BY <3>1, <3>2
  <2>4. 1 \in 1..(Len(R) + 1) /\ \A i \in 1..(1 - 1) : R[i].role = "system"
    BY <1>3
  <2> HIDE DEF others
  <2> QED
    BY <2>1, <2>3, <2>4 DEF others, R
<1> QED
  BY <1>4, <1>5

SystemEntries == {e \in Entries : e[1] = "system"}
OtherEntries == {e \in Entries : e[1] # "system"}
PromptPart ==
  IF PromptTools = <<>> THEN <<>> ELSE <<<<"system", PromptXml(PromptTools)>>>>
Dialogues == Dialogue(history, HistoryCalls)

(* What one message tells is the system's or not.                          *)
LEMMA ToldBy ==
  ASSUME NEW m \in Messages, NEW calls \in Seq(CallParts)
  PROVE  /\ m.role = "system" => Told(calls)[m] \in Seq(SystemEntries)
         /\ m.role # "system" => Told(calls)[m] \in Seq(OtherEntries)
<1> DEFINE e == Told(calls)[m]
           s == Spread(m.parts, Telling(calls))
<1>1. e \in Seq(Entries)
  BY ToldMaps, MapsOne
<1>2. e = Says(Speaker(m.role), s)
  BY DEF Told
<1>3. Speaker(m.role) = "system" <=> m.role = "system"
  BY DEF Speaker
<1>4. \A i \in DOMAIN e : e[i][1] = Speaker(m.role)
  <2> HIDE DEF s, e
  <2> QED
    BY <1>2 DEF Says
<1> HIDE DEF e
<1>5. \A i \in 1..Len(e) : e[i] \in Entries /\ e[i][1] = Speaker(m.role)
  BY <1>1, <1>4
<1>6. m.role = "system" => \A i \in 1..Len(e) : e[i] \in SystemEntries
  BY <1>3, <1>5 DEF SystemEntries
<1>7. m.role # "system" => \A i \in 1..Len(e) : e[i] \in OtherEntries
  BY <1>3, <1>5 DEF OtherEntries
<1>8. m.role = "system" => e \in Seq(SystemEntries)
  BY <1>1, <1>6, SeqOfItems
<1>9. m.role # "system" => e \in Seq(OtherEntries)
  BY <1>1, <1>7, SeqOfItems
<1> QED
  BY <1>8, <1>9 DEF e

(* What the system says, and what the others say.                          *)
LEMMA SystemSays ==
  ASSUME NEW s \in Seq(WordSegs)
  PROVE  Says("system", s) \in Seq(SystemEntries)
<1>1. WordSegs \subseteq LogSegs
  BY DEF LogSegs, AnswerSegs
<1>2. s \in Seq(LogSegs)
  <2> HIDE DEF LogSegs
  <2> QED
    BY <1>1, SeqOfMore
<1>3. DOMAIN s = 1..Len(s) /\ Len(s) \in Nat /\ \A i \in 1..Len(s) : s[i] \in LogSegs
  BY <1>2
<1>4. \A i \in 1..Len(s) : <<"system", s[i]>> \in SystemEntries
  <2>1. "system" \in Roles
    BY DEF Roles
  <2>2. \A x \in LogSegs : <<"system", x>> \in Roles \X LogSegs /\ <<"system", x>>[1] = "system"
    BY <2>1
  <2> QED
    BY <1>3, <2>2 DEF SystemEntries, Entries
<1> QED
  BY <1>3, <1>4 DEF Says

(* The history on its way in two parts, with the prompt, if any, between.  *)
Cut(x, y) ==
  /\ x \in Seq(Seq(SystemEntries)) /\ y \in Seq(Seq(OtherEntries))
  /\ Joins(Each(history, Told(HistoryCalls)), x, y)
  /\ client.protocol # "chat" => x = <<>>
  /\ PromptTools = <<>> => Joins(Voices(Prepared.messages), x, y)
  /\ PromptTools # <<>> /\ client.protocol # "chat" => Joins(Voices(Prepared.messages), x, y)
  /\ PromptTools # <<>> /\ client.protocol = "chat" =>
       Voices(Prepared.messages) = (x \o <<PromptPart>>) \o y

(* It does.                                                                *)
LEMMA PreparedCut ==
  ASSUME TypesInv, ShapeInv, Returnable(PartsOf(history))
  PROVE  \E x, y : Cut(x, y)
<1> DEFINE R == Retold
           f == Told(HistoryCalls)
           prompt == <<PromptXml(PromptTools)>>
           e == Message("system", <<TextPart(prompt)>>)
<1>1. /\ R \in Seq(Range(R)) /\ Len(R) = Len(history)
      /\ \A i \in 1..Len(history) : R[i].role = "system" <=> history[i].role = "system"
      /\ Voices(R) = Each(history, f) /\ HistoryCalls \in Seq(CallParts)
  BY RetoldSays
<1>2. PICK at \in 1..(Len(R) + 1) :
           /\ \A i \in 1..(at - 1) : R[i].role = "system"
           /\ \A i \in at..Len(R) : R[i].role # "system"
           /\ client.protocol # "chat" => at = 1
           /\ LET others == {i \in DOMAIN R : R[i].role # "system"}
              IN  at = IF others = {} THEN Len(R) + 1 ELSE Min(others)
  BY WhereSystemEnds
<1>3. history \in Seq(Messages)
  BY DEF TypesInv
<1>4. /\ PromptTools = <<>> => Prepared = Body(SystemText, R, <<>>)
      /\ PromptTools # <<>> /\ client.protocol # "chat" => Prepared = Body(SystemText \o prompt, R, <<>>)
      /\ PromptTools # <<>> /\ client.protocol = "chat" => Prepared = Body(SystemText, InsertAt(R, at, e), <<>>)
  <2> DEFINE others == {i \in DOMAIN R : R[i].role # "system"}
             pos == IF others = {} THEN Len(R) + 1 ELSE Min(others)
  <2>1. at = pos
    BY <1>2
  <2>2. PromptTools # <<>> /\ client.protocol = "chat" => Prepared = Body(SystemText, InsertAt(R, pos, e), <<>>)
    BY PreparedIs
  <2>3. PromptTools = <<>> => Prepared = Body(SystemText, R, <<>>)
    BY PreparedIs
  <2>4. PromptTools # <<>> /\ client.protocol # "chat" => Prepared = Body(SystemText \o prompt, R, <<>>)
    BY PreparedIs
  <2> HIDE DEF pos, R, e, prompt
  <2> QED
    BY <2>1, <2>2, <2>3, <2>4
<1>5. \A s, m, u : Body(s, m, u).messages = m
  BY DEF Body
<1> HIDE DEF R
<1>6. ASSUME NEW i \in 1..Len(R)
      PROVE  /\ R[i].role = "system" => Voice(R[i]) \in Seq(SystemEntries)
             /\ R[i].role # "system" => Voice(R[i]) \in Seq(OtherEntries)
  <2>1. i \in 1..Len(history) /\ history[i] \in Messages
    BY <1>1, <1>3
  <2>2. Voice(R[i]) = f[history[i]]
    <3>1. DOMAIN R = 1..Len(R) /\ DOMAIN history = 1..Len(history)
      BY <1>1, <1>3
    <3>2. Voices(R)[i] = Voice(R[i])
      BY <3>1 DEF Voices
    <3>3. Each(history, f)[i] = f[history[i]]
      BY <2>1, <3>1 DEF Each
    <3> QED
      BY <1>1, <3>2, <3>3
  <2>3. /\ history[i].role = "system" => f[history[i]] \in Seq(SystemEntries)
        /\ history[i].role # "system" => f[history[i]] \in Seq(OtherEntries)
    BY <1>1, <2>1, ToldBy
  <2> QED
    BY <1>1, <2>1, <2>2, <2>3
<1> DEFINE s == SubSeq(R, 1, at - 1)
           t == SubSeq(R, at, Len(R))
           B == Seq(SystemEntries)
           C == Seq(OtherEntries)
           x == Voices(s)
           y == Voices(t)
<1>7. /\ s \in Seq(Range(R)) /\ t \in Seq(Range(R)) /\ R = s \o t
      /\ x \in Seq(B) /\ y \in Seq(C)
  <2>1. Len(R) \in Nat /\ at \in Nat /\ 1 <= at /\ at <= Len(R) + 1
    BY <1>1, <1>2
  <2>2. \A i \in 1..(at - 1) : i \in 1..Len(R)
    BY <2>1
  <2>3. \A i \in at..Len(R) : i \in 1..Len(R)
    BY <2>1
  <2>4. \A i \in 1..(at - 1) : Voice(R[i]) \in B
    BY <1>2, <1>6, <2>2
  <2>5. \A i \in at..Len(R) : Voice(R[i]) \in C
    BY <1>2, <1>6, <2>3
  <2> HIDE DEF B, C
  <2> QED
    BY <1>1, <2>4, <2>5, VoicesCut
<1>8. x \in Seq(Seq(SystemEntries)) /\ y \in Seq(Seq(OtherEntries))
  BY <1>7
<1>9. Joins(Voices(R), x, y)
  <2> HIDE DEF s, t
  <2>1. Joins(Voices(s \o t), Voices(s), Voices(t))
    BY <1>7, VoicesConcat
  <2> QED
    BY <1>7, <2>1
<1>10. client.protocol # "chat" => x = <<>>
  <2>3. SubSeq(R, 1, 0) = <<>>
    BY <1>1
  <2>1. client.protocol # "chat" => s = <<>>
    <3>1. client.protocol # "chat" => at = 1
      BY <1>2
    <3>2. at = 1 => s = <<>>
      BY <2>3
    <3> QED
      BY <3>1, <3>2
  <2>2. Voices(<<>>) = <<>>
    BY DEF Voices
  <2> QED
    BY <2>1, <2>2
<1>11. PromptTools # <<>> => Voices(InsertAt(R, at, e)) = (x \o <<PromptPart>>) \o y
  <2> SUFFICES ASSUME PromptTools # <<>> PROVE Voices(InsertAt(R, at, e)) = (x \o <<PromptPart>>) \o y
    OBVIOUS
  <2> DEFINE A == Range(R) \cup {e}
  <2>1. InsertAt(R, at, e) = (s \o <<e>>) \o t
    BY DEF InsertAt
  <2>2. s \in Seq(A) /\ t \in Seq(A) /\ <<e>> \in Seq(A)
    <3>1. Range(R) \subseteq A /\ e \in A
      OBVIOUS
    <3> HIDE DEF A, s, t, e
    <3>2. s \in Seq(A) /\ t \in Seq(A)
      BY <1>7, <3>1, SeqOfMore
    <3> QED
      BY <3>1, <3>2, OneType
  <2>3. Voice(e) = PromptPart
    <3>1. prompt \in Seq({PromptXml(PromptTools)})
      BY OneType
    <3>2. SegmentsOf(<<TextPart(prompt)>>) = prompt
      <4> HIDE DEF prompt
      <4> QED
        BY <3>1, TextSays
    <3>3. Voice(e) = Says("system", prompt)
      <4> HIDE DEF prompt
      <4> QED
        BY <3>2 DEF Voice, Message
    <3>4. Says("system", prompt) = <<<<"system", PromptXml(PromptTools)>>>>
      BY DEF Says
    <3> QED
      BY <3>3, <3>4 DEF PromptPart
  <2> HIDE DEF A, s, t, e
  <2>4. s \o <<e>> \in Seq(A)
    BY <2>2, ConcatShape
  <2>5. Joins(Voices(s \o <<e>>), Voices(s), Voices(<<e>>))
    BY <2>2, VoicesConcat
  <2> DEFINE u == s \o <<e>>
  <2>6. u \in Seq(A)
    BY <2>4
  <2> HIDE DEF u
  <2>7. Joins(Voices(u \o t), Voices(u), Voices(t))
    BY <2>2, <2>6, VoicesConcat
  <2>8. Voices(<<e>>) = <<PromptPart>>
    BY <2>3 DEF Voices
  <2> QED
    BY <2>1, <2>5, <2>7, <2>8 DEF u, Joins
<1> DEFINE m == Prepared.messages
           i == InsertAt(R, at, e)
<1>12. /\ PromptTools = <<>> => m = R
       /\ PromptTools # <<>> /\ client.protocol # "chat" => m = R
       /\ PromptTools # <<>> /\ client.protocol = "chat" => m = i
  <2> HIDE DEF e, prompt, i
  <2> QED
    BY <1>4, <1>5 DEF i
<1> HIDE DEF x, y, e, prompt, f, i, m
<1>13. /\ PromptTools = <<>> => Joins(Voices(m), x, y)
       /\ PromptTools # <<>> /\ client.protocol # "chat" => Joins(Voices(m), x, y)
       /\ PromptTools # <<>> /\ client.protocol = "chat" => Voices(m) = (x \o <<PromptPart>>) \o y
  BY <1>9, <1>11, <1>12 DEF i
<1>14. Joins(Each(history, f), x, y)
  BY <1>1, <1>9
<1>15. Cut(x, y)
  BY <1>8, <1>10, <1>13, <1>14 DEF Cut, f, m
<1> QED
  BY <1>15

(* What a role says is taken segment by segment.                           *)
Uttered(S, role) == [x \in S |-> <<role, x>>]

(* What a role says is what it utters, segment by segment.                 *)
LEMMA SaysIs ==
  ASSUME NEW S, NEW role, NEW s \in Seq(S)
  PROVE  /\ Maps(Uttered(S, role), S, {role} \X S)
         /\ Says(role, s) = Each(s, Uttered(S, role))
<1> DEFINE f == Uttered(S, role)
           B == {role} \X S
<1>1. \A x \in S : f[x] = <<role, x>> /\ f[x] \in B
  BY DEF Uttered
<1>2. Maps(f, S, B)
  BY <1>1 DEF Maps, Uttered
<1>3. DOMAIN s = 1..Len(s) /\ \A i \in 1..Len(s) : s[i] \in S
  OBVIOUS
<1> HIDE DEF f
<1>4. Says(role, s) = Each(s, f)
  BY <1>1, <1>3 DEF Says, Each
<1> QED
  BY <1>2, <1>4 DEF f

(* Segments in a row.                                                      *)
LEMMA SaysConcat ==
  ASSUME NEW S, NEW role, NEW s \in Seq(S), NEW t \in Seq(S)
  PROVE  Joins(Says(role, s \o t), Says(role, s), Says(role, t))
<1> DEFINE f == Uttered(S, role)
           B == {role} \X S
           u == s \o t
<1>1. u \in Seq(S)
  BY ConcatShape
<1> HIDE DEF u
<1>2. Maps(f, S, B) /\ Says(role, s) = Each(s, f) /\ Says(role, t) = Each(t, f) /\ Says(role, u) = Each(u, f)
  BY <1>1, SaysIs
<1> HIDE DEF f, B
<1>3. Joins(Each(s \o t, f), Each(s, f), Each(t, f))
  BY <1>2, EachConcat
<1> QED
  BY <1>2, <1>3 DEF u

(* What reaches the upstream, prompt included.                             *)
BodySegs == LogSegs \cup {PromptXml(PromptTools)}
BodyEntries == Roles \X BodySegs

(* Sequences of entries.                                                   *)
LEMMA EntriesAre ==
  /\ \A s \in Seq(SystemEntries) : s \in Seq(Entries) /\ s \in Seq(BodyEntries)
  /\ \A s \in Seq(OtherEntries) : s \in Seq(Entries) /\ s \in Seq(BodyEntries)
  /\ \A s \in Seq(Entries) : s \in Seq(BodyEntries)
  /\ PromptPart \in Seq(BodyEntries)
<1>1. SystemEntries \subseteq Entries /\ OtherEntries \subseteq Entries
  BY DEF SystemEntries, OtherEntries
<1>2. Entries \subseteq BodyEntries
  <2> HIDE DEF LogSegs
  <2> QED
    BY DEF Entries, BodyEntries, BodySegs
<1>3. PromptPart \in Seq(BodyEntries)
  <2>1. <<"system", PromptXml(PromptTools)>> \in BodyEntries
    <3>1. "system" \in Roles
      BY DEF Roles
    <3> QED
      BY <3>1 DEF BodyEntries, BodySegs
  <2> DEFINE p == <<"system", PromptXml(PromptTools)>>
  <2>2. p \in BodyEntries
    BY <2>1
  <2> HIDE DEF p, BodyEntries
  <2>3. <<p>> \in Seq(BodyEntries)
    BY <2>2, OneType
  <2>4. PromptPart = <<>> \/ PromptPart = <<p>>
    BY DEF PromptPart, p
  <2>5. <<>> \in Seq(BodyEntries)
    OBVIOUS
  <2> QED
    BY <2>3, <2>4, <2>5
<1> HIDE DEF SystemEntries, OtherEntries, Entries, BodyEntries
<1>4. \A s \in Seq(SystemEntries) : s \in Seq(Entries)
  BY <1>1, SeqOfMore
<1>5. \A s \in Seq(OtherEntries) : s \in Seq(Entries)
  BY <1>1, SeqOfMore
<1>6. \A s \in Seq(Entries) : s \in Seq(BodyEntries)
  BY <1>2, SeqOfMore
<1> QED
  BY <1>3, <1>4, <1>5, <1>6

(* Three sequences in a row, the second in its place.                      *)
Between(z, x, p, y) == z = x \o (p \o y)

(* The request: what the system says, the prompt, if any, and what the     *)
(* others say.                                                             *)
Sends3(flat, x, y) ==
  /\ x \in Seq(SystemEntries) /\ y \in Seq(OtherEntries)
  /\ Joins(Says("system", SystemText) \o Dialogues, x, y)
  /\ Between(flat, x, PromptPart, y)

(* So is a prepared request.                                               *)
LEMMA PreparedSends ==
  ASSUME TypesInv, ShapeInv, Returnable(PartsOf(history))
  PROVE  \E x, y : Sends3(Flat(Prepared), x, y)
<1>1. PICK v, w : Cut(v, w)
  BY PreparedCut
<1> DEFINE a == Says("system", SystemText)
           x == FlattenSeq(v)
           y == FlattenSeq(w)
           p == PromptPart
           E == BodyEntries
<1>2. v \in Seq(Seq(SystemEntries)) /\ w \in Seq(Seq(OtherEntries))
  BY <1>1 DEF Cut
<1>3. x \in Seq(SystemEntries) /\ y \in Seq(OtherEntries)
  BY <1>2, FlattenType
<1>4. a \in Seq(SystemEntries)
  <2>1. SystemText \in Seq(WordSegs)
    <3>1. client.system \in Seq(WordSegs)
      BY ClientsAssumption DEF TypesInv
    <3> QED
      BY <3>1 DEF SystemText
  <2> QED
    BY <2>1, SystemSays
<1>5. v \in Seq(Seq(E)) /\ w \in Seq(Seq(E)) /\ p \in Seq(E) /\ <<p>> \in Seq(Seq(E))
  <2> DEFINE L == Seq(E)
             S == Seq(SystemEntries)
             O == Seq(OtherEntries)
  <2>1. S \subseteq L /\ O \subseteq L /\ p \in L
    BY EntriesAre
  <2>2. v \in Seq(S) /\ w \in Seq(O)
    BY <1>2
  <2> HIDE DEF L, S, O, p
  <2>3. v \in Seq(L) /\ w \in Seq(L)
    BY <2>1, <2>2, SeqOfMore
  <2>4. <<p>> \in Seq(L)
    BY <2>1, OneType
  <2> QED
    BY <2>1, <2>3, <2>4 DEF L
<1>6. x \in Seq(E) /\ y \in Seq(E) /\ a \in Seq(E)
  BY <1>3, <1>4, EntriesAre
<1>7. FlattenSeq(v \o w) = x \o y /\ FlattenSeq((v \o <<p>>) \o w) = (x \o p) \o y
  <2> HIDE DEF p, E
  <2>1. FlattenSeq(v \o w) = FlattenSeq(v) \o FlattenSeq(w)
    BY <1>5, FlattenConcat
  <2>2. FlattenSeq(v \o <<p>>) = FlattenSeq(v) \o FlattenSeq(<<p>>)
    BY <1>5, FlattenConcat
  <2>3. FlattenSeq(<<p>>) = p
    BY <1>5, FlattenOne
  <2> DEFINE u == v \o <<p>>
  <2>4. u \in Seq(Seq(E))
    BY <1>5, ConcatShape
  <2> HIDE DEF u
  <2>5. FlattenSeq(u \o w) = FlattenSeq(u) \o FlattenSeq(w)
    BY <1>5, <2>4, FlattenConcat
  <2> QED
    BY <2>1, <2>2, <2>3, <2>5 DEF u
<1> DEFINE X == a \o x
<1>8. X \in Seq(SystemEntries)
  BY <1>3, <1>4, ConcatShape
<1>9. Dialogues = x \o y
  <2>1. Joins(Each(history, Told(HistoryCalls)), v, w)
    BY <1>1 DEF Cut
  <2> QED
    BY <1>7, <2>1 DEF Joins, Dialogues, Dialogue, Spread
<1> DEFINE m == Prepared.messages
           s == Prepared.system
<1>10. Flat(Prepared) = Says("system", s) \o FlattenSeq(Voices(m))
  BY DEF Flat, Voices, Voice
<1>11. Joins(a \o Dialogues, X, y)
  <2> HIDE DEF a, x, y, E
  <2>1. a \o (x \o y) = (a \o x) \o y
    BY <1>6, ThreeJoined
  <2> QED
    BY <1>9, <2>1 DEF Joins
<1>15. Between(Flat(Prepared), X, p, y) => Sends3(Flat(Prepared), X, y)
  <2> HIDE DEF X
  <2> QED
    BY <1>3, <1>8, <1>11 DEF Sends3
<1>12. CASE PromptTools = <<>>
  <2>1. s = SystemText
    BY <1>12, PreparedIs DEF Body
  <2>2. Voices(m) = v \o w
    BY <1>1, <1>12 DEF Cut, Joins
  <2>3. p = <<>>
    BY <1>12 DEF PromptPart
  <2>4. Flat(Prepared) = a \o (x \o y)
    BY <1>7, <1>10, <2>1, <2>2
  <2> HIDE DEF a, x, y, E, p
  <2>5. a \o (x \o y) = (a \o x) \o y
    BY <1>6, ThreeJoined
  <2>6. p \o y = y
    BY <1>6, <2>3
  <2>7. Between(Flat(Prepared), X, p, y)
    BY <2>4, <2>5, <2>6 DEF Between
  <2> QED
    BY <1>15, <2>7
<1>13. CASE PromptTools # <<>> /\ client.protocol # "chat"
  <2>1. s = SystemText \o <<PromptXml(PromptTools)>>
    BY <1>13, PreparedIs DEF Body
  <2>2. Voices(m) = v \o w /\ v = <<>>
    BY <1>1, <1>13 DEF Cut, Joins
  <2>3. Says("system", s) = a \o p
    <3>1. SystemText \in Seq(WordSegs)
      BY ClientsAssumption DEF TypesInv, SystemText
    <3>2. p = <<<<"system", PromptXml(PromptTools)>>>>
      BY <1>13 DEF PromptPart
    <3> DEFINE z == PromptXml(PromptTools)
               t == SystemText
    <3>3. t \in Seq(BodySegs) /\ z \in BodySegs
      <4>1. WordSegs \subseteq BodySegs
        BY DEF BodySegs, LogSegs, AnswerSegs
      <4> HIDE DEF t
      <4>2. t \in Seq(WordSegs)
        BY <3>1 DEF t
      <4>3. t \in Seq(BodySegs)
        <5> HIDE DEF BodySegs
        <5> QED
          BY <4>1, <4>2, SeqOfMore
      <4>4. z \in BodySegs
        BY DEF BodySegs
      <4> QED
        BY <4>3, <4>4
    <3> HIDE DEF z, t, a, p, BodySegs
    <3>4. <<z>> \in Seq(BodySegs)
      BY <3>3, OneType
    <3> DEFINE o == <<z>>
    <3>6. o \in Seq(BodySegs)
      BY <3>4
    <3> HIDE DEF o
    <3>7. Joins(Says("system", t \o o), Says("system", t), Says("system", o))
      BY <3>3, <3>6, SaysConcat
    <3>8. Says("system", o) = <<<<"system", z>>>>
      BY DEF Says, o
    <3>5. Says("system", t \o <<z>>) = Says("system", t) \o <<<<"system", z>>>>
      BY <3>7, <3>8 DEF Joins, o
    <3> QED
      BY <2>1, <3>2, <3>5 DEF a, t, z
  <2>4. v \o w = w /\ x = <<>>
    <3>1. <<>> \o w = w
      BY <1>2
    <3> QED
      BY <2>2, <3>1, FlattenNil
  <2>5. Flat(Prepared) = (a \o p) \o y
    BY <1>10, <2>2, <2>3, <2>4
  <2> HIDE DEF a, x, y, E, p
  <2>6. (a \o p) \o y = a \o (p \o y) /\ X = a
    <3>1. a \o (p \o y) = (a \o p) \o y
      BY <1>5, <1>6, ThreeJoined
    <3>2. a \o <<>> = a
      BY <1>6
    <3> QED
      BY <2>4, <3>1, <3>2
  <2>7. Between(Flat(Prepared), X, p, y)
    BY <2>5, <2>6 DEF Between
  <2> QED
    BY <1>15, <2>7
<1>14. CASE PromptTools # <<>> /\ client.protocol = "chat"
  <2>1. s = SystemText
    BY <1>14, PreparedIs DEF Body
  <2>2. Voices(m) = (v \o <<p>>) \o w
    BY <1>1, <1>14 DEF Cut
  <2>3. Flat(Prepared) = a \o ((x \o p) \o y)
    BY <1>7, <1>10, <2>1, <2>2
  <2> HIDE DEF a, x, y, E, p
  <2>4. x \o (p \o y) = (x \o p) \o y
    BY <1>5, <1>6, ThreeJoined
  <2> DEFINE q == p \o y
  <2>5. q \in Seq(E)
    BY <1>5, <1>6, ConcatShape
  <2> HIDE DEF q
  <2>6. a \o (x \o q) = (a \o x) \o q
    BY <1>6, <2>5, ThreeJoined
  <2>7. Between(Flat(Prepared), X, p, y)
    BY <2>3, <2>4, <2>6 DEF Between, q
  <2> QED
    BY <1>15, <2>7
<1> QED
  BY <1>12, <1>13, <1>14

(* So is the request that is forwarded.                                    *)
LEMMA ForwardSends ==
  ASSUME TypesInv, ShapeInv, Returnable(PartsOf(history)), Forward
  PROVE  /\ \E x, y : Sends3(Flat(request'.body), x, y)
         /\ request'.body.tools = <<>>
<1>1. /\ request'.body = TranslateRequestBody(client.protocol, Route.upstream, Prepared)
      /\ Translates(client.protocol, Route.upstream, Prepared)
  <2>1. request'.body = TranslateRequestBody(client.protocol, Route.upstream, Prepared)
    BY DEF Forward
  <2> QED
    BY <2>1 DEF Forward
<1>2. PICK x, y : Sends3(Flat(Prepared), x, y)
  BY PreparedSends
<1>3. Prepared.tools = <<>>
  BY PreparedIs DEF Body
<1>4. CASE client.protocol = Route.upstream
  <2>1. request'.body = Prepared
    BY <1>1, <1>4 DEF TranslateRequestBody
  <2> QED
    BY <1>2, <1>3, <2>1
<1>5. CASE client.protocol # Route.upstream
  <2>1. client.protocol = "messages" /\ \A p \in Range(PartsOf(Prepared.messages)) : HasChatPart(p)
    BY <1>1, <1>5 DEF Translates
  <2>2. request'.body = Body(<<>>, ChatMessages(Prepared), <<>>)
    BY <1>1, <1>3, <1>5 DEF TranslateRequestBody
  <2> DEFINE t == client.system
             s == IF PromptTools = <<>> THEN t ELSE t \o <<PromptXml(PromptTools)>>
             R == Retold
  <2>3. Prepared = Body(s, R, <<>>)
    BY <2>1, PreparedIs DEF SystemText
  <2>4. s \in Seq(BodySegs)
    <3>1. t \in Seq(WordSegs)
      BY ClientsAssumption DEF TypesInv
    <3> DEFINE z == PromptXml(PromptTools)
    <3>2. WordSegs \subseteq BodySegs
      BY DEF BodySegs, LogSegs, AnswerSegs
    <3>3. z \in BodySegs
      BY DEF BodySegs
    <3> HIDE DEF t, z, BodySegs
    <3>4. t \in Seq(BodySegs) /\ <<z>> \in Seq(BodySegs)
      BY <3>1, <3>2, <3>3, SeqOfMore, OneType
    <3> DEFINE o == <<z>>
    <3>5. o \in Seq(BodySegs)
      BY <3>4
    <3> HIDE DEF o
    <3>6. t \o o \in Seq(BodySegs)
      BY <3>4, <3>5, ConcatShape
    <3> QED
      BY <3>4, <3>6 DEF o, z
  <2>5. R \in Seq(SentMessages) /\ Voices(R) = Each(history, Told(HistoryCalls)) /\ HistoryCalls \in Seq(CallParts)
    BY <2>1, RetoldSays
  <2>6. Voices(R) \in Seq(Seq(BodyEntries))
    <3> DEFINE L == Seq(BodyEntries)
               K == Seq(Entries)
               f == Told(HistoryCalls)
    <3>1. K \subseteq L
      BY EntriesAre
    <3>2. Maps(f, Messages, K)
      BY <2>5, ToldMaps
    <3>3. history \in Seq(Messages)
      BY DEF TypesInv
    <3> HIDE DEF L, K, f
    <3>4. Each(history, f) \in Seq(K)
      BY <3>2, <3>3, MapsEach
    <3>5. Each(history, f) \in Seq(L)
      BY <3>1, <3>4, SeqOfMore
    <3> QED
      BY <2>5, <3>5 DEF L, f
  <2>7. Voices(R) \in Seq(Seq(Roles \X BodySegs))
    BY <2>6 DEF BodyEntries
  <2>8. \A p \in Range(PartsOf(R)) : HasChatPart(p)
    <3>1. Prepared.messages = R
      BY <2>3 DEF Body
    <3> QED
      BY <2>1, <3>1
  <2> HIDE DEF s, R
  <2>9. Flat(Body(<<>>, ChatMessages(Body(s, R, <<>>)), <<>>)) = Flat(Body(s, R, <<>>))
    <3> HIDE DEF BodySegs
    <3> QED
      BY <2>4, <2>5, <2>7, <2>8, ChatSays
  <2>10. Flat(request'.body) = Flat(Prepared)
    BY <2>2, <2>3, <2>9
  <2>11. request'.body.tools = <<>>
    BY <2>2 DEF Body
  <2> QED
    BY <1>2, <2>10, <2>11
<1> QED
  BY <1>4, <1>5

-----------------------------------------------------------------------------
(* Calls as they are told.                                                 *)
LEMMA CallsTold ==
  ASSUME NEW c \in Seq(CallParts), NEW calls
  PROVE  Spread(c, Telling(calls)) = CallsAsXml(c)
<1> DEFINE f == Telling(calls)
           x == CallsAsXml(c)
<1>1. x \in Seq(AnswerSegs) /\ DOMAIN x = 1..Len(c) /\ DOMAIN c = 1..Len(c)
      /\ \A i \in 1..Len(c) : x[i] = CallXml(c[i].name, c[i].arguments)
  BY CallsAsXmlType DEF CallsAsXml
<1>2. ASSUME NEW i \in 1..Len(c) PROVE f[c[i]] = <<x[i]>>
  <2>1. c[i] \in CallParts
    OBVIOUS
  <2>2. c[i] \in Parts /\ c[i].type = "call"
    BY <2>1 DEF CallParts, Parts, ReturnParts, ReplyParts
  <2>3. f[c[i]] = <<CallXml(c[i].name, c[i].arguments)>>
    BY <2>2, TellingIs
  <2> QED
    BY <1>1, <2>3
<1> HIDE DEF f, x
<1>3. [i \in DOMAIN c |-> f[c[i]]] = [i \in DOMAIN x |-> <<x[i]>>]
  BY <1>1, <1>2
<1>4. FlattenSeq([i \in DOMAIN x |-> <<x[i]>>]) = x
  BY <1>1, FlattenSingles
<1> QED
  BY <1>3, <1>4 DEF Spread, Each, f, x

(* What is told of a reply: its text and then its calls.                   *)
ReplySaid(r) == Spread(r, Telling(<<>>)) = TextOf(r) \o CallsAsXml(OfType(r, "call"))

(* Every reply that the bridge can give says so.                           *)
LEMMA ReplyTold ==
  ASSUME NEW th \in Seq(ThinkingParts), NEW v \in Seq(AnswerSegs), NEW c \in Seq(CallParts)
  PROVE  ReplySaid(Reply(th, v, c))
<1> DEFINE f == Telling(<<>>)
           n == NonEmptyText(v)
<1>0. <<>> \in Seq(CallParts)
  OBVIOUS
<1>1. Maps(f, Parts, Seq(LogSegs))
  BY <1>0, TellingMaps
<1>2. th \in Seq(Parts) /\ n \in Seq(Parts) /\ c \in Seq(Parts)
  <2>1. ThinkingParts \subseteq Parts /\ TextParts \subseteq Parts /\ CallParts \subseteq Parts
    BY DEF Parts, ReturnParts, ReplyParts
  <2>2. n \in Seq(TextParts)
    BY TextsArePart
  <2> HIDE DEF n
  <2> QED
    BY <2>1, <2>2, SeqOfMore
<1>3. Spread(th, f) = <<>>
  <2>1. ASSUME NEW i \in 1..Len(th) PROVE f[th[i]] = <<>>
    <3>1. th[i] \in Parts /\ th[i].type = "thinking"
      <4>1. th[i] \in ThinkingParts /\ th[i] \in Parts
        BY <1>2
      <4>2. \A p \in ThinkingParts : p.type = "thinking"
        BY DEF ThinkingParts
      <4> QED
        BY <4>1, <4>2
    <3> QED
      BY <3>1, TellingIs
  <2> HIDE DEF f
  <2> QED
    BY <1>2, <2>1, SpreadNone
<1>4. Spread(n, f) = v
  <2>1. CASE v = <<>>
    BY <2>1, SpreadNil DEF NonEmptyText
  <2>2. CASE v # <<>>
    <3> DEFINE p == TextPart(v)
    <3>1. n = <<p>>
      BY <2>2 DEF NonEmptyText
    <3>2. p \in Parts /\ p.type = "text" /\ p.text = v
      <4>1. p \in TextParts
        BY DEF TextPart, TextParts
      <4> QED
        BY <4>1 DEF Parts, ReturnParts, ReplyParts, TextPart
    <3> HIDE DEF p
    <3>3. f[p] = v
      BY <3>2, TellingIs
    <3> HIDE DEF f
    <3>4. Spread(<<p>>, f) = f[p]
      BY <1>1, <3>2, SpreadOne
    <3> QED
      BY <3>1, <3>3, <3>4
  <2> QED
    BY <2>1, <2>2
<1>5. Spread(c, f) = CallsAsXml(c)
  BY CallsTold
<1> HIDE DEF f, n
<1>6. th \o n \in Seq(Parts)
  BY <1>2, ConcatShape
<1> DEFINE m == th \o n
<1>7. Joins(Spread(m, f), Spread(th, f), Spread(n, f))
  BY <1>1, <1>2, SpreadConcat
<1>8. Spread(m, f) = v
  BY <1>3, <1>4, <1>7 DEF Joins
<1>9. m \in Seq(Parts)
  BY <1>6
<1> HIDE DEF m
<1>10. Joins(Spread(m \o c, f), Spread(m, f), Spread(c, f))
  BY <1>1, <1>2, <1>9, SpreadConcat
<1>11. Reply(th, v, c) = m \o c
  BY DEF Reply, m, n
<1>12. OfType(Reply(th, v, c), "call") = c /\ TextOf(Reply(th, v, c)) = v
  BY ReplyShape
<1> QED
  BY <1>5, <1>8, <1>10, <1>11, <1>12 DEF ReplySaid, Joins, f

(* What a client returns of a reply has parts of content only beside the   *)
(* calls of a chat, and is told like the reply, or as its calls.           *)
LEMMA BackTold ==
  ASSUME NEW r \in Seq(ReplyParts), ReplySaid(r)
  PROVE  /\ NoContent(Back(r)) \/ (client.protocol = "chat" /\ OfType(Back(r), "call") # <<>>)
         /\ Spread(Back(r), Telling(<<>>)) = TextOf(Back(r)) \o CallsAsXml(OfType(Back(r), "call"))
<1> DEFINE f == Telling(<<>>)
           e == Echoed(r)
           b == Back(r)
<1>1. e \in Seq(ReplyParts) /\ OfType(e, "call") = OfType(r, "call") /\ OfType(e, "text") = OfType(r, "text")
  BY EchoedIs
<1>2. b \in Seq(ReturnParts) /\ b \in Seq(Parts) /\ OfType(b, "call") = OfType(r, "call")
  BY BackIs
<1>3. <<>> \in Seq(CallParts)
  OBVIOUS
<1>4. Maps(f, Parts, Seq(LogSegs))
  BY <1>3, TellingMaps
<1>5. b = Spelled(e)
  BY DEF Back
<1>6. CASE ~InParts(e)
  <2>1. b = e
    BY <1>5, <1>6 DEF Spelled
  <2>2. NoContent(b)
    <3> HIDE DEF e, b
    <3>1. \A i \in 1..Len(b) : b[i] \in ReplyParts
      BY <1>1, <2>1
    <3> QED
      BY <3>1, PartKinds DEF NoContent
  <2>3. TextOf(b) = TextOf(r)
    BY <1>1, <2>1 DEF TextOf
  <2>4. Spread(e, f) = Spread(r, f)
    <3> DEFINE S == {p \in Range(r) : p.type # "thinking"}
               T == {p \in Parts : p.type # "thinking"}
    <3>1. r \in Seq(Parts)
      BY PartKinds, SeqOfMore
    <3>2. \A p \in Parts : p \notin T => f[p] = <<>>
      BY TellingIs
    <3>3. \A i \in 1..Len(r) : r[i] \in S <=> r[i] \in T
      BY <3>1 DEF Range
    <3>4. e = r \/ e = Kept(r, S)
      BY DEF Echoed
    <3> HIDE DEF S, T, f
    <3>5. Kept(r, S) = Kept(r, T)
      BY <3>1, <3>3, KeptSame
    <3>6. Spread(Kept(r, T), f) = Spread(r, f)
      BY <1>4, <3>1, <3>2, SpreadKept
    <3> QED
      BY <3>4, <3>5, <3>6
  <2> QED
    BY <1>2, <2>1, <2>2, <2>3, <2>4 DEF ReplySaid
<1>7. CASE InParts(e)
  <2>1. client.protocol = "chat" /\ OfType(b, "call") # <<>>
    BY <1>1, <1>2, <1>7 DEF InParts
  <2>2. Len(b) = Len(e) /\ b = [i \in DOMAIN e |-> IF e[i].type = "text" THEN ContentPart(e[i].text) ELSE e[i]]
    BY <1>1, <1>5, <1>7, SpelledIs DEF Spelled
  <2>3. \A i \in 1..Len(b) : b[i].type # "text"
    <3>1. \A t : ContentPart(t).type = "content"
      BY DEF ContentPart
    <3>2. DOMAIN e = 1..Len(e)
      BY <1>1
    <3> HIDE DEF e, b
    <3> QED
      BY <2>2, <3>1, <3>2
  <2> HIDE DEF e, b, f
  <2>4. TextOf(b) = <<>>
    <3>1. OfType(b, "text") = <<>>
      BY <1>2, <2>3, OfOneType
    <3> QED
      BY <3>1, FlattenNil DEF TextOf
  <2> DEFINE T == Typed(Parts, "call")
             c == OfType(b, "call")
  <2>5. c = Kept(b, T)
    BY <1>2, OfTypeIs
  <2> DEFINE S == {p \in Parts : p.type \notin {"thinking", "content"}}
  <2>6. \A i \in 1..Len(b) : b[i] \in S <=> b[i] \in T
    <3>1. \A i \in 1..Len(b) : b[i] \in Parts /\ b[i].type \in {"content", "thinking", "call"}
      <4>1. \A i \in 1..Len(b) : b[i] \in ReturnParts /\ b[i] \in Parts
        BY <1>2
      <4> QED
        BY <2>3, <4>1, PartKinds
    <3> QED
      BY <3>1 DEF Typed
  <2>7. \A p \in Parts : p \notin S => f[p] = <<>>
    BY TellingIs DEF f
  <2> HIDE DEF S, T
  <2>12. Kept(b, S) = Kept(b, T)
    BY <1>2, <2>6, KeptSame
  <2>13. Spread(Kept(b, S), f) = Spread(b, f)
    BY <1>2, <1>4, <2>7, SpreadKept
  <2>8. Spread(Kept(b, T), f) = Spread(b, f)
    BY <2>12, <2>13
  <2>9. c \in Seq(CallParts)
    BY <1>2, TextOfType
  <2>10. Spread(c, f) = CallsAsXml(c) /\ CallsAsXml(c) \in Seq(AnswerSegs)
    BY <2>9, CallsTold, CallsAsXmlType DEF f
  <2> DEFINE z == CallsAsXml(c)
  <2>11. <<>> \o z = z
    <3> HIDE DEF z
    <3>1. z \in Seq(AnswerSegs)
      BY <2>10 DEF z
    <3> QED
      BY <3>1
  <2> QED
    BY <2>1, <2>4, <2>5, <2>8, <2>10, <2>11 DEF b, f
<1> QED
  BY <1>6, <1>7

(* A reply tells its text and its calls.                                   *)
RepliedInv == phase = "replied" => ReplySaid(reply)

(* Every answer's does.                                                    *)
LEMMA RepliedStays ==
  ASSUME TypesInv, RepliedInv, [ConversationNext]_conversationVars PROVE RepliedInv'
<1>1. ASSUME NEW a \in Answers(From(CallIds, minted + 1)), UpstreamAnswers(a) PROVE RepliedInv'
  <2> DEFINE ids == From(CallIds, minted + Len(a.calls) + 1)
  <2>1. IsAnswer(a) /\ ids \in Seq(STRING) /\ Len(OfSeg(TextRead(a), "call")) <= Len(ids) /\ reply' = ReplyTo(a, ids)
    BY <1>1, AnswerArrives
  <2> HIDE DEF ids
  <2>2. PICK th \in Seq(ThinkingParts), v \in Seq(AnswerSegs) : ReplyTo(a, ids) = Reply(th, v, CallsToClient(a, ids))
    BY <2>1, ReplyIs
  <2>3. CallsToClient(a, ids) \in Seq(CallParts)
    <3> DEFINE t == TextRead(a)
    <3>1. t \in Seq(AnswerSegs) /\ a.calls \in Seq(CallParts)
      BY <2>1, TextReadIs DEF IsAnswer
    <3> HIDE DEF t
    <3>2. Len(OfSeg(t, "call")) <= Len(ids)
      BY <2>1 DEF t
    <3>3. Calls(OfSeg(t, "call"), ids) \in Seq(CallParts)
      BY <2>1, <3>1, <3>2, CallsAre
    <3> QED
      BY <3>1, <3>3 DEF CallsToClient, t
  <2>4. ReplySaid(ReplyTo(a, ids))
    BY <2>2, <2>3, ReplyTold
  <2>5. ReplySaid(reply')
    BY <2>1, <2>4
  <2>6. ReplySaid(reply)'
    BY <2>5 DEF ReplySaid, Telling, BlockRewritten, ResultOf, Segments, Parts
  <2> QED
    BY <2>6 DEF RepliedInv
<1>2. CASE phase' # "replied"
  BY <1>2 DEF RepliedInv
<1>3. CASE UNCHANGED conversationVars
  BY <1>3 DEF conversationVars, RepliedInv, ReplySaid
<1> QED
  BY <1>1, <1>2, <1>3, OnlyAnswersReply

(* What a client writes has the shape of its protocol.                     *)
LEMMA WrittenShaped ==
  ASSUME NEW role \in Roles, NEW parts \in Seq(Parts), client.protocol \in Protocols,
         client.protocol = "messages" => role # "tool",
         NoContent(parts) \/ (client.protocol = "chat" /\ OfType(parts, "call") # <<>>),
         client.protocol # "messages" =>
           \A i \in 1..Len(parts) : /\ parts[i].type = "result" <=> role = "tool"
                                    /\ parts[i].type = "call" => role = "assistant",
         OfType(parts, "call") # <<>> =>
           Spread(parts, Telling(<<>>)) = TextOf(parts) \o CallsAsXml(OfType(parts, "call"))
  PROVE  \A i \in 1..Len(Written(role, parts)) :
           Written(role, parts)[i].role = role /\ Shaped(client.protocol, Written(role, parts)[i])
<1> DEFINE w == Written(role, parts)
<1>0. \A p : Message(role, p).role = role /\ Message(role, p).parts = p
  BY DEF Message
<1>1. CASE client.protocol = "responses"
  <2>1. w = [i \in 1..Len(parts) |-> Message(role, <<parts[i]>>)]
    BY <1>1 DEF Written
  <2>2. Len(w) = Len(parts) /\ \A i \in 1..Len(parts) : w[i] = Message(role, <<parts[i]>>)
    BY <2>1
  <2>3. ASSUME NEW i \in 1..Len(parts) PROVE ItemShape(w[i])
    <3> DEFINE p == parts[i]
    <3>1. w[i].role = role /\ w[i].parts = <<p>>
      BY <1>0, <2>2
    <3>2. (p.type = "result" <=> role = "tool") /\ (p.type = "call" => role = "assistant") /\ p.type # "content"
      BY <1>1 DEF NoContent
    <3> HIDE DEF p, w
    <3> QED
      BY <3>1, <3>2 DEF ItemShape
  <2> HIDE DEF w
  <2>4. \A m : ItemShape(m) => Shaped(client.protocol, m)
    BY <1>1 DEF Shaped
  <2>5. \A i \in 1..Len(parts) : w[i].role = role
    BY <1>0, <2>2
  <2>6. \A i \in 1..Len(w) : w[i].role = role /\ Shaped(client.protocol, w[i])
    BY <2>2, <2>3, <2>4, <2>5
  <2> QED
    BY <2>6 DEF w
<1>2. CASE client.protocol = "chat" /\ role = "tool"
  <2>1. w = [i \in 1..Len(parts) |-> Message(role, <<parts[i]>>)]
    BY <1>2 DEF Written
  <2>2. Len(w) = Len(parts) /\ \A i \in 1..Len(parts) : w[i] = Message(role, <<parts[i]>>)
    BY <2>1
  <2>3. ASSUME NEW i \in 1..Len(parts) PROVE ChatShape(w[i])
    <3> DEFINE p == parts[i]
    <3>1. w[i].role = role /\ w[i].parts = <<p>>
      BY <1>0, <2>2
    <3>2. p.type = "result"
      BY <1>2
    <3> HIDE DEF p, w
    <3> QED
      BY <1>2, <3>1, <3>2 DEF ChatShape
  <2> HIDE DEF w
  <2>4. \A m : ChatShape(m) => Shaped(client.protocol, m)
    BY <1>2 DEF Shaped
  <2>5. \A i \in 1..Len(parts) : w[i].role = role
    BY <1>0, <2>2
  <2>6. \A i \in 1..Len(w) : w[i].role = role /\ Shaped(client.protocol, w[i])
    BY <2>2, <2>3, <2>4, <2>5
  <2> QED
    BY <2>6 DEF w
<1>3. CASE client.protocol = "chat" /\ role # "tool"
  <2> DEFINE m == Message(role, parts)
  <2>1. w = <<m>>
    BY <1>3 DEF Written
  <2>2. m.role = role /\ m.parts = parts
    BY <1>0
  <2> HIDE DEF m, w
  <2>3. \A i \in 1..Len(m.parts) : m.parts[i].type # "result"
    BY <1>3, <2>2
  <2>4. ChatShape(m)
    BY <1>3, <2>2, <2>3 DEF ChatShape, NoContent
  <2>5. \A i \in 1..Len(w) : w[i] = m
    BY <2>1
  <2>6. \A i \in 1..Len(w) : w[i].role = role /\ Shaped(client.protocol, w[i])
    BY <1>3, <2>2, <2>4, <2>5 DEF Shaped
  <2> QED
    BY <2>6 DEF w
<1>4. CASE client.protocol = "messages"
  <2> DEFINE m == Message(role, parts)
  <2>1. w = <<m>>
    BY <1>4 DEF Written
  <2>2. m.role = role /\ m.parts = parts
    BY <1>0
  <2> HIDE DEF m, w
  <2>5. \A i \in 1..Len(w) : w[i] = m
    BY <2>1
  <2>6. \A i \in 1..Len(w) : w[i].role = role /\ Shaped(client.protocol, w[i])
    BY <1>4, <2>2, <2>5 DEF Shaped, NoContent
  <2> QED
    BY <2>6 DEF w
<1> QED
  BY <1>1, <1>2, <1>3, <1>4 DEF Protocols

(* A history has the shape of its protocol as long as what is written has. *)
ShapeOf(h) ==
  \A i \in 1..Len(h) :
    /\ Shaped(client.protocol, h[i])
    /\ h[i].role = "system" => client.protocol = "chat" /\ i = 1

(* More messages that have it.                                             *)
LEMMA ShapeGrows ==
  ASSUME NEW h \in Seq(Messages), NEW w \in Seq(Messages), ShapeOf(h),
         NEW role, role # "system",
         \A i \in 1..Len(w) : w[i].role = role /\ Shaped(client.protocol, w[i])
  PROVE  ShapeOf(h \o w) /\ h \o w \in Seq(Messages)
<1>1. h \o w \in Seq(Messages) /\ Len(h \o w) = Len(h) + Len(w) /\ Len(h) \in Nat /\ Len(w) \in Nat
  BY ConcatShape
<1>2. ASSUME NEW i \in 1..Len(h \o w)
      PROVE  /\ Shaped(client.protocol, (h \o w)[i])
             /\ (h \o w)[i].role = "system" => client.protocol = "chat" /\ i = 1
  <2>1. CASE i \in 1..Len(h)
    <3>1. (h \o w)[i] = h[i]
      BY <2>1
    <3> QED
      BY <2>1, <3>1 DEF ShapeOf
  <2>2. CASE i \notin 1..Len(h)
    <3>1. i - Len(h) \in 1..Len(w) /\ (h \o w)[i] = w[i - Len(h)]
      BY <1>1, <2>2
    <3> QED
      BY <3>1
  <2> QED
    BY <2>1, <2>2
<1> QED
  BY <1>1, <1>2 DEF ShapeOf

(* What a client writes of a question.                                     *)
LEMMA AskWrites ==
  ASSUME TypesInv, NEW parts \in Questions, NEW tools, NEW stream, Ask(parts, tools, stream)
  PROVE  LET w == Written("user", parts)
         IN  /\ history' = history \o w /\ w \in Seq(Messages)
             /\ \A i \in 1..Len(w) : w[i].role = "user" /\ Shaped(client.protocol, w[i])
             /\ parts \in Seq(Parts) /\ OfType(parts, "call") = <<>>
             /\ \A i \in 1..Len(parts) : parts[i].type \notin {"call", "result", "content"}
<1> DEFINE w == Written("user", parts)
<1>1. parts \in Seq(QuestionParts)
  BY QuestionsAssumption
<1>2. parts \in Seq(Parts)
  BY <1>1, PartKinds, SeqOfMore
<1>3. "user" \in Roles
  BY DEF Roles
<1>4. \A i \in 1..Len(parts) : parts[i].type \notin {"call", "result", "content"}
  <2>1. \A i \in 1..Len(parts) : parts[i] \in QuestionParts
    BY <1>1
  <2> QED
    BY <2>1, PartKinds
<1>5. OfType(parts, "call") = <<>>
  BY <1>1, OfQuestions
<1>6. client.protocol \in Protocols
  BY ClientsAssumption DEF TypesInv
<1>7. \A i \in 1..Len(w) : w[i].role = "user" /\ Shaped(client.protocol, w[i])
  BY <1>2, <1>3, <1>4, <1>5, <1>6, WrittenShaped DEF NoContent
<1>8. w \in Seq(Messages)
  BY <1>2, <1>3, WrittenIs
<1>9. history' = history \o w
  BY DEF Ask
<1> QED
  BY <1>2, <1>4, <1>5, <1>7, <1>8, <1>9

(* What it writes of a reply.                                              *)
LEMMA EchoWrites ==
  ASSUME TypesInv, RepliedInv, phase = "replied"
  PROVE  LET e == Back(reply)
             w == Written("assistant", e)
         IN  /\ w \in Seq(Messages) /\ e \in Seq(Parts) /\ OfType(e, "call") = OfType(reply, "call")
             /\ \A i \in 1..Len(w) : w[i].role = "assistant" /\ Shaped(client.protocol, w[i])
             /\ \A i \in 1..Len(e) : e[i].type # "result"
<1> DEFINE e == Back(reply)
           w == Written("assistant", e)
<1>1. reply \in Seq(ReplyParts) /\ ReplySaid(reply)
  BY DEF TypesInv, RepliedInv
<1>2. e \in Seq(ReturnParts) /\ e \in Seq(Parts) /\ OfType(e, "call") = OfType(reply, "call")
  BY <1>1, BackIs
<1>4. \A i \in 1..Len(e) : e[i].type # "result"
  <2> HIDE DEF e
  <2>1. \A i \in 1..Len(e) : e[i] \in ReturnParts
    BY <1>2
  <2> QED
    BY <2>1, PartKinds
<1>5. /\ Spread(e, Telling(<<>>)) = TextOf(e) \o CallsAsXml(OfType(e, "call"))
      /\ NoContent(e) \/ (client.protocol = "chat" /\ OfType(e, "call") # <<>>)
  BY <1>1, BackTold
<1>7. "assistant" \in Roles /\ client.protocol \in Protocols
  BY ClientsAssumption DEF TypesInv, Roles
<1> HIDE DEF e
<1>8. \A i \in 1..Len(w) : w[i].role = "assistant" /\ Shaped(client.protocol, w[i])
  BY <1>2, <1>4, <1>5, <1>7, WrittenShaped
<1>9. w \in Seq(Messages)
  BY <1>2, <1>7, WrittenIs
<1> QED
  BY <1>2, <1>4, <1>8, <1>9 DEF e

(* What it writes of results.                                              *)
LEMMA ResultsWritten ==
  ASSUME TypesInv, NEW r \in Seq(ResultParts)
  PROVE  LET z == Written(ResultRole, r)
         IN  /\ z \in Seq(Messages) /\ r \in Seq(Parts) /\ OfType(r, "call") = <<>>
             /\ \A i \in 1..Len(z) : z[i].role = ResultRole /\ Shaped(client.protocol, z[i])
             /\ ResultRole \in Roles /\ ResultRole # "system" /\ Speaker(ResultRole) = "user"
<1> DEFINE z == Written(ResultRole, r)
<1>1. r \in Seq(Parts) /\ OfType(r, "call") = <<>>
  BY OfResults, PartKinds, SeqOfMore
<1>2. \A i \in 1..Len(r) : r[i].type = "result"
  BY PartKinds
<1>3. /\ ResultRole \in Roles /\ ResultRole # "system" /\ Speaker(ResultRole) = "user"
      /\ client.protocol = "messages" => ResultRole # "tool"
      /\ client.protocol # "messages" => ResultRole = "tool"
  BY DEF Roles, ResultRole, Speaker
<1>4. client.protocol \in Protocols
  BY ClientsAssumption DEF TypesInv
<1>5. \A i \in 1..Len(z) : z[i].role = ResultRole /\ Shaped(client.protocol, z[i])
  <2> DEFINE role == ResultRole
  <2>1. /\ role \in Roles
        /\ client.protocol = "messages" => role # "tool"
        /\ client.protocol # "messages" => role = "tool"
    BY <1>3
  <2>2. client.protocol # "messages" =>
          \A i \in 1..Len(r) : /\ r[i].type = "result" <=> role = "tool"
                               /\ r[i].type = "call" => role = "assistant"
    BY <1>2, <2>1
  <2>4. OfType(r, "call") # <<>> =>
          Spread(r, Telling(<<>>)) = TextOf(r) \o CallsAsXml(OfType(r, "call"))
    BY <1>1
  <2> HIDE DEF role
  <2>3. \A i \in 1..Len(Written(role, r)) : Written(role, r)[i].role = role /\ Shaped(client.protocol, Written(role, r)[i])
    BY <1>1, <1>2, <1>4, <2>1, <2>2, <2>4, WrittenShaped DEF NoContent
  <2> QED
    BY <2>3 DEF role
<1>6. z \in Seq(Messages)
  BY <1>1, <1>3, WrittenIs
<1> QED
  BY <1>1, <1>3, <1>5, <1>6

(* Every step keeps the shape.                                             *)
LEMMA ShapeStays ==
  ASSUME TypesInv, RepliedInv, ShapeInv, [ConversationNext]_conversationVars PROVE ShapeInv'
<1>0. history \in Seq(Messages) /\ ShapeOf(history)
  BY DEF TypesInv, ShapeInv, ShapeOf
<1>1. ASSUME client' = client, ShapeOf(history') PROVE ShapeInv'
  BY <1>1 DEF ShapeInv, ShapeOf
<1>2. ASSUME NEW parts \in Questions, NEW tools, NEW stream, Ask(parts, tools, stream) PROVE ShapeInv'
  <2> DEFINE w == Written("user", parts)
  <2>1. /\ history' = history \o w /\ w \in Seq(Messages)
        /\ \A i \in 1..Len(w) : w[i].role = "user" /\ Shaped(client.protocol, w[i])
    BY <1>2, AskWrites
  <2>2. client' = client
    BY <1>2 DEF Ask
  <2> HIDE DEF w
  <2>3. ShapeOf(history \o w)
    BY <1>0, <2>1, ShapeGrows
  <2> QED
    BY <1>1, <2>1, <2>2, <2>3
<1>3. CASE ReadAnswer
  <2> DEFINE w == Written("assistant", Back(reply))
  <2>1. phase = "replied" /\ history' = history \o w /\ client' = client
    BY <1>3 DEF ReadAnswer, Returned, Back
  <2>2. w \in Seq(Messages) /\ \A i \in 1..Len(w) : w[i].role = "assistant" /\ Shaped(client.protocol, w[i])
    BY <2>1, EchoWrites
  <2> HIDE DEF w
  <2>3. ShapeOf(history \o w)
    BY <1>0, <2>2, ShapeGrows
  <2> QED
    BY <1>1, <2>1, <2>3
<1>4. ASSUME NEW order, NEW outcome \in Outcomes, NEW tools, RunTools(order, outcome, tools) PROVE ShapeInv'
  <2> DEFINE w == Written("assistant", Back(reply))
             r == Results(order, outcome)
             z == Written(ResultRole, r)
  <2>1. phase = "replied" /\ history' = (history \o w) \o z /\ client' = client
    BY <1>4 DEF RunTools, Results, Returned, Back
  <2>2. w \in Seq(Messages) /\ \A i \in 1..Len(w) : w[i].role = "assistant" /\ Shaped(client.protocol, w[i])
    BY <2>1, EchoWrites
  <2>3. r \in Seq(ResultParts)
    BY <1>4, RunAdds
  <2>4. /\ z \in Seq(Messages) /\ ResultRole # "system"
        /\ \A i \in 1..Len(z) : z[i].role = ResultRole /\ Shaped(client.protocol, z[i])
    <3> HIDE DEF r
    <3> QED
      BY <2>3, ResultsWritten
  <2> HIDE DEF w, z
  <2> DEFINE h == history \o w
             role == ResultRole
  <2>5. ShapeOf(h) /\ h \in Seq(Messages)
    BY <1>0, <2>2, ShapeGrows
  <2>6. role # "system" /\ \A i \in 1..Len(z) : z[i].role = role /\ Shaped(client.protocol, z[i])
    BY <2>4
  <2> HIDE DEF h, role
  <2>7. ShapeOf(h \o z)
    BY <2>4, <2>5, <2>6, ShapeGrows
  <2> QED
    BY <1>1, <2>1, <2>7 DEF h
<1>5. CASE AskAgain \/ Refuse \/ Forward \/ UpstreamFails \/ UNCHANGED conversationVars
  BY <1>5 DEF AskAgain, Refuse, Forward, UpstreamFails, conversationVars, ShapeInv
<1>6. ASSUME NEW a, UpstreamAnswers(a) PROVE ShapeInv'
  BY <1>6 DEF UpstreamAnswers, ShapeInv
<1> QED
  BY <1>2, <1>3, <1>4, <1>5, <1>6 DEF ConversationNext, ClientNext

(* So does the beginning.                                                  *)
LEMMA ShapeInitially ==
  ASSUME ConversationInit PROVE ShapeInv /\ RepliedInv
<1>1. RepliedInv
  BY DEF RepliedInv, ConversationInit
<1>2. CASE history = <<>>
  BY <1>1, <1>2 DEF ShapeInv
<1>3. CASE history # <<>>
  <2> DEFINE m == Message("system", <<TextPart(client.system)>>)
  <2>1. client.protocol = "chat" /\ history = <<m>>
    BY <1>3 DEF ConversationInit
  <2>2. m.role = "system" /\ m.parts = <<TextPart(client.system)>> /\ TextPart(client.system).type = "text"
    BY DEF Message, TextPart
  <2>3. OfType(m.parts, "call") = <<>> /\ NoContent(m.parts) /\ \A i \in 1..Len(m.parts) : m.parts[i].type # "result"
    <3> DEFINE p == TextPart(client.system)
           q == m.parts
    <3>1. p.type = "text" /\ q = <<p>> /\ <<p>> \in Seq({p})
      BY <2>2
    <3> HIDE DEF p, q
    <3>2. q \in Seq({p}) /\ \A i \in 1..Len(q) : q[i].type \notin {"call", "result", "content"}
      BY <3>1
    <3>3. OfType(q, "call") = <<>>
      BY <3>2, OfOneType
    <3> QED
      BY <3>2, <3>3 DEF q, NoContent
  <2> HIDE DEF m
  <2>4. ChatShape(m)
    BY <2>2, <2>3 DEF ChatShape
  <2>5. Shaped(client.protocol, m)
    BY <2>1, <2>4 DEF Shaped
  <2>6. \A i \in 1..Len(history) : i = 1 /\ history[i] = m
    BY <2>1
  <2> QED
    BY <1>1, <2>1, <2>5, <2>6 DEF ShapeInv
<1> QED
  BY <1>2, <1>3

(* Every step keeps a history with calls one with results.                 *)
LEMMA ReturnedStays ==
  ASSUME TypesInv, Returnable(PartsOf(history)), [ConversationNext]_conversationVars
  PROVE  Returnable(PartsOf(history'))
<1> DEFINE h == PartsOf(history)
<1>0. h \in Seq(Parts) /\ Returnable(h)
  BY HistoryParts
<1>1. ASSUME NEW t \in Seq(Parts), OfType(t, "call") = <<>>, PartsOf(history') = h \o t
      PROVE  Returnable(PartsOf(history'))
  <2> HIDE DEF h
  <2>1. Returnable(h \o t)
    BY <1>0, <1>1, ReturnableTogether DEF Returnable
  <2> QED
    BY <1>1, <2>1
<1>2. ASSUME NEW parts \in Questions, NEW tools, NEW stream, Ask(parts, tools, stream)
      PROVE  Returnable(PartsOf(history'))
  <2>1. PartsOf(history') = h \o parts /\ parts \in Seq(QuestionParts)
    BY <1>2, AskAdds
  <2>2. parts \in Seq(Parts) /\ OfType(parts, "call") = <<>>
    BY <2>1, OfQuestions, PartKinds, SeqOfMore
  <2> QED
    BY <1>1, <2>1, <2>2
<1>3. CASE ReadAnswer
  <2> DEFINE e == Back(reply)
  <2>1. PartsOf(history') = h \o e /\ reply \in Seq(ReplyParts) /\ OfType(reply, "call") = <<>>
    BY <1>3, ReadAdds
  <2>2. e \in Seq(Parts) /\ OfType(e, "call") = <<>>
    BY <2>1, BackIds
  <2> HIDE DEF e
  <2> QED
    BY <1>1, <2>1, <2>2
<1>4. ASSUME NEW order, NEW outcome \in Outcomes, NEW tools, RunTools(order, outcome, tools)
      PROVE  Returnable(PartsOf(history'))
  <2> DEFINE c == OfType(reply, "call")
             e == Back(reply)
             r == Results(order, outcome)
             he == h \o e
  <2>1. reply \in Seq(ReplyParts) /\ r \in Seq(ResultParts) /\ Len(r) = Len(c) /\ PartsOf(history') = he \o r
    BY <1>4, RunAdds
  <2>2. e \in Seq(Parts) /\ c \in Seq(CallParts) /\ c # <<>>
    BY <1>4, <2>1, BackIds, OfReplies DEF RunTools
  <2> HIDE DEF h, e, r, c
  <2>3. OfType(r, "result") = r /\ r \in Seq(Parts) /\ Len(c) # 0
    BY <2>1, <2>2, OfResults, PartKinds, SeqOfMore
  <2>4. he \in Seq(Parts)
    BY <1>0, <2>2, ConcatShape
  <2> HIDE DEF he
  <2> DEFINE g == OfType(he, "result")
  <2>5. g \in Seq(Parts) /\ r \in Seq(Parts) /\ r # <<>>
    BY <2>1, <2>3, <2>4, OfOneType
  <2>6. OfType(he \o r, "result") = g \o r
    BY <2>3, <2>4, CallsAndResultsOfTwo
  <2> HIDE DEF g
  <2>7. g \o r # <<>>
    BY <2>5
  <2> QED
    BY <2>1, <2>6, <2>7 DEF Returnable
<1>5. CASE AskAgain \/ Refuse \/ Forward \/ UpstreamFails \/ UNCHANGED conversationVars
  BY <1>0, <1>5 DEF AskAgain, Refuse, Forward, UpstreamFails, conversationVars
<1>6. ASSUME NEW a, UpstreamAnswers(a) PROVE Returnable(PartsOf(history'))
  BY <1>0, <1>6 DEF UpstreamAnswers
<1> QED
  BY <1>2, <1>3, <1>4, <1>5, <1>6 DEF ConversationNext, ClientNext

-----------------------------------------------------------------------------
(* The tools of a client have names, and are spelled in a way the bridge   *)
(* collects.                                                               *)
ToolRecords == [name : Seq(STRING), about : Seq(STRING), enum : Seq(Seq(STRING)), spelling : {"nested", "named"}]
ToolsCollected == \A protocol \in Protocols : Tools(protocol) \in Seq(ToolRecords)

(* A request that is on its way has no tools or the client's.              *)
GivenInv ==
  phase \in {"sent", "upstream", "replied", "failed"} =>
    given.tools = <<>> \/ given.tools = Tools(client.protocol)

(* Every step keeps it so.                                                 *)
LEMMA GivenStays ==
  ASSUME GivenInv, [ConversationNext]_conversationVars PROVE GivenInv'
<1>1. ASSUME NEW parts, NEW tools \in {<<>>, Tools(client.protocol)}, NEW stream, Ask(parts, tools, stream)
      PROVE  GivenInv'
  <2>1. given'.tools = tools /\ client' = client
    BY <1>1 DEF Ask, Sends
  <2> QED
    BY <2>1 DEF GivenInv
<1>2. CASE AskAgain
  <2>1. given'.tools = given.tools /\ client' = client /\ phase = "failed"
    BY <1>2 DEF AskAgain, Sends
  <2> QED
    BY <2>1 DEF GivenInv
<1>3. ASSUME NEW order, NEW outcome, NEW tools \in {<<>>, Tools(client.protocol)}, RunTools(order, outcome, tools)
      PROVE  GivenInv'
  <2>1. given'.tools = tools /\ client' = client
    BY <1>3 DEF RunTools, Sends
  <2> QED
    BY <2>1 DEF GivenInv
<1>4. CASE ReadAnswer
  BY <1>4 DEF ReadAnswer, GivenInv
<1>5. CASE Refuse \/ Forward \/ UpstreamFails \/ UNCHANGED conversationVars
  BY <1>5 DEF Refuse, Forward, UpstreamFails, conversationVars, GivenInv
<1>6. ASSUME NEW a, UpstreamAnswers(a) PROVE GivenInv'
  BY <1>6 DEF UpstreamAnswers, GivenInv
<1> QED
  BY <1>1, <1>2, <1>3, <1>4, <1>5, <1>6 DEF ConversationNext, ClientNext

(* The tools of the prompt are those of the request.                       *)
LEMMA PromptToolsAre ==
  ASSUME TypesInv, GivenInv, ToolsCollected, phase = "sent"
  PROVE  /\ given.tools = <<>> <=> PromptTools = <<>>
         /\ Len(PromptTools) = Len(given.tools)
         /\ PromptTools = StripTools(given.tools, UpstreamModel(client.id))
         /\ given.tools \in Seq(ToolRecords)
<1> DEFINE g == given.tools
           s == StripTools(g, UpstreamModel(client.id))
           S == {t \in Range(s) : t.spelling # "flat"}
<1>1. g \in Seq(ToolRecords)
  <2>1. client.protocol \in Protocols
    BY ClientsAssumption DEF TypesInv
  <2>2. Tools(client.protocol) \in Seq(ToolRecords)
    BY <2>1 DEF ToolsCollected
  <2>3. <<>> \in Seq(ToolRecords)
    OBVIOUS
  <2> QED
    BY <2>2, <2>3 DEF GivenInv
<1>2. PromptTools = Kept(s, S)
  BY DEF PromptTools, CollectTools, StrippedTools
<1>3. DOMAIN s = 1..Len(g) /\ Len(g) \in Nat /\ DOMAIN g = 1..Len(g)
  BY <1>1 DEF StripTools
<1>4. ASSUME NEW i \in 1..Len(g) PROVE s[i].spelling # "flat"
  <2>1. g[i] \in ToolRecords
    BY <1>1
  <2>2. DOMAIN g[i] = {"name", "about", "enum", "spelling"} /\ g[i].spelling # "flat"
    BY <2>1 DEF ToolRecords
  <2> DEFINE n == StripText(g[i].name, OtherModelTokens(UpstreamModel(client.id)))
             x == StripText(g[i].about, OtherModelTokens(UpstreamModel(client.id)))
             y == StripEnum(g[i].enum, OtherModelTokens(UpstreamModel(client.id)))
  <2>3. s[i] = [g[i] EXCEPT !.name = n, !.about = x, !.enum = y]
    BY <1>3 DEF StripTools
  <2> HIDE DEF n, x, y, s
  <2>4. s[i].spelling = g[i].spelling
    BY <2>2, <2>3
  <2> QED
    BY <2>2, <2>4
<1> HIDE DEF s, g
<1>5. s \in Seq(Range(s)) /\ Len(s) = Len(g)
  <2>1. \A i \in 1..Len(g) : s[i] \in Range(s)
    BY <1>3 DEF Range
  <2>2. s = [i \in 1..Len(g) |-> s[i]]
    BY <1>3 DEF StripTools, s
  <2> QED
    BY <1>3, <2>1, <2>2
<1>6. \A i \in 1..Len(s) : s[i] \in S
  BY <1>3, <1>4, <1>5 DEF Range
<1> HIDE DEF S
<1>7. Kept(s, S) = s
  BY <1>5, <1>6, KeptAll
<1>8. g = <<>> <=> s = <<>>
  BY <1>1, <1>5
<1> QED
  BY <1>1, <1>2, <1>5, <1>7, <1>8 DEF g, s

(* Nothing that was said is a prompt.                                      *)
LEMMA NoPromptSaid ==
  /\ \A s \in Seq(SystemEntries) : \A i \in 1..Len(s) : ~IsPrompt(s[i]) /\ s[i][1] = "system"
  /\ \A s \in Seq(OtherEntries) : \A i \in 1..Len(s) : ~IsPrompt(s[i]) /\ s[i][1] # "system"
<1>1. \A s \in LogSegs : s.seg # "prompt"
  BY DEF LogSegs, AnswerSegs, WordSegs, CallSegs, LeakSegs, ImageSegs, ResultSegs, AsideSegs
<1>2. \A e \in Entries : e[2] \in LogSegs
  BY DEF Entries
<1>3. \A e \in Entries : ~IsPrompt(e)
  BY <1>1, <1>2 DEF IsPrompt
<1>4. \A e \in SystemEntries : ~IsPrompt(e) /\ e[1] = "system"
  BY <1>3 DEF SystemEntries
<1>5. \A e \in OtherEntries : ~IsPrompt(e) /\ e[1] # "system"
  BY <1>3 DEF OtherEntries
<1> QED
  BY <1>4, <1>5

(* In what is sent the prompt, if there is one, ends what the system says. *)
LEMMA WherePromptIs ==
  ASSUME NEW flat, NEW x, NEW y, Sends3(flat, x, y)
  PROVE  LET prompts == {i \in DOMAIN flat : IsPrompt(flat[i])}
         IN  /\ PromptTools = <<>> => prompts = {}
             /\ PromptTools # <<>> =>
                  \E i \in DOMAIN flat :
                    /\ prompts = {i} /\ flat[i][2].tools = PromptTools
                    /\ \A j \in DOMAIN flat : j <= i <=> flat[j][1] = "system"
<1> DEFINE prompts == {i \in DOMAIN flat : IsPrompt(flat[i])}
<1>1. /\ x \in Seq(SystemEntries) /\ y \in Seq(OtherEntries)
      /\ flat = x \o (PromptPart \o y)
  BY DEF Sends3, Between
<1>2. /\ \A i \in 1..Len(x) : ~IsPrompt(x[i]) /\ x[i][1] = "system"
      /\ \A i \in 1..Len(y) : ~IsPrompt(y[i]) /\ y[i][1] # "system"
  BY <1>1, NoPromptSaid
<1>3. Len(x) \in Nat /\ Len(y) \in Nat
  BY <1>1
<1>4. CASE PromptTools = <<>>
  <2>1. PromptPart = <<>>
    BY <1>4 DEF PromptPart
  <2>2. <<>> \o y = y
    BY <1>1
  <2>3. flat = x \o y
    BY <1>1, <2>1, <2>2
  <2>4. /\ DOMAIN flat = 1..(Len(x) + Len(y))
        /\ \A i \in 1..Len(x) : flat[i] = x[i]
        /\ \A i \in 1..(Len(x) + Len(y)) : i > Len(x) => flat[i] = y[i - Len(x)]
    BY <1>1, <2>3
  <2>5. ASSUME NEW i \in DOMAIN flat PROVE ~IsPrompt(flat[i])
    <3>1. CASE i \in 1..Len(x)
      BY <1>2, <2>4, <3>1
    <3>2. CASE i \notin 1..Len(x)
      <4>1. i - Len(x) \in 1..Len(y) /\ flat[i] = y[i - Len(x)]
        BY <1>3, <2>4, <3>2
      <4> QED
        BY <1>2, <4>1
    <3> QED
      BY <3>1, <3>2
  <2> QED
    BY <1>4, <2>5
<1>5. CASE PromptTools # <<>>
  <2> DEFINE e == <<"system", PromptXml(PromptTools)>>
             n == Len(x) + 1
  <2>1. PromptPart = <<e>>
    BY <1>5 DEF PromptPart
  <2>2. e[1] = "system" /\ e[2].seg = "prompt" /\ e[2].tools = PromptTools
    BY DEF PromptXml
  <2>3. IsPrompt(e)
    BY <2>2 DEF IsPrompt
  <2> HIDE DEF e
  <2> DEFINE z == <<e>> \o y
  <2>4. DOMAIN z = 1..(Len(y) + 1) /\ z[1] = e /\ \A i \in 1..Len(y) : z[i + 1] = y[i]
    BY <1>1
  <2>5. Len(z) = Len(y) + 1 /\ z \in Seq({e} \cup OtherEntries)
    BY <1>1, <1>3, <2>4
  <2>6. flat = x \o z
    BY <1>1, <2>1
  <2> HIDE DEF z
  <2>7. /\ DOMAIN flat = 1..(n + Len(y)) /\ flat[n] = e
        /\ \A i \in 1..Len(x) : flat[i] = x[i]
        /\ \A i \in 1..Len(y) : flat[n + i] = y[i]
    <3>1. DOMAIN flat = 1..(Len(x) + Len(z)) /\ \A i \in 1..Len(x) : flat[i] = x[i]
      BY <1>1, <2>5, <2>6
    <3>2. \A i \in 1..Len(z) : flat[Len(x) + i] = z[i]
      BY <1>1, <2>5, <2>6
    <3>3. flat[Len(x) + 1] = z[1]
      BY <1>3, <2>5, <3>2
    <3>4. \A i \in 1..Len(y) : flat[n + i] = z[i + 1]
      <4> TAKE i \in 1..Len(y)
      <4>1. i + 1 \in 1..Len(z) /\ Len(x) + (i + 1) = n + i
        BY <1>3, <2>5
      <4> QED
        BY <3>2, <4>1
    <3> QED
      BY <1>3, <2>4, <2>5, <3>1, <3>3, <3>4
  <2>8. ASSUME NEW j \in DOMAIN flat
        PROVE  (IsPrompt(flat[j]) <=> j = n) /\ (j <= n <=> flat[j][1] = "system")
    <3>1. CASE j \in 1..Len(x)
      BY <1>2, <1>3, <2>7, <3>1
    <3>2. CASE j = n
      BY <2>2, <2>3, <2>7, <3>2
    <3>3. CASE j > n
      <4> DEFINE i == j - n
      <4>0. j \in 1..(n + Len(y))
        BY <2>7
      <4>1. i \in 1..Len(y) /\ j = n + i
        BY <1>3, <3>3, <4>0
      <4> HIDE DEF i
      <4>2. flat[j] = y[i]
        BY <2>7, <4>1
      <4> QED
        BY <1>2, <1>3, <3>3, <4>1, <4>2
    <3> QED
      BY <1>3, <2>7, <3>1, <3>2, <3>3
  <2>9. n \in DOMAIN flat
    BY <1>3, <2>7
  <2>10. prompts = {n}
    BY <2>8, <2>9
  <2>11. flat[n][2].tools = PromptTools
    BY <2>2, <2>7
  <2> QED
    BY <1>5, <2>8, <2>9, <2>10, <2>11
<1> QED
  BY <1>4, <1>5

(* What every step of a conversation keeps of a history.                   *)
HistoryInv == TypesInv /\ RepliedInv /\ ShapeInv /\ Returnable(PartsOf(history))

(* It holds at the beginning, and every step keeps it.                     *)
LEMMA HistoryStays ==
  /\ ConversationInit => HistoryInv
  /\ HistoryInv /\ [ConversationNext]_conversationVars => HistoryInv'
<1>1. ASSUME ConversationInit PROVE HistoryInv
  <2>1. TypesInv
    BY <1>1, TypesInitially
  <2>2. ShapeInv /\ RepliedInv
    BY <1>1, ShapeInitially
  <2>3. ReturnableInv
    BY <1>1, ReturnableInitially
  <2>4. Returnable(PartsOf(history))
    BY <2>3 DEF ReturnableInv
  <2> QED
    BY <2>1, <2>2, <2>4 DEF HistoryInv
<1>2. ASSUME HistoryInv, [ConversationNext]_conversationVars PROVE HistoryInv'
  <2>1. TypesInv /\ RepliedInv /\ ShapeInv /\ Returnable(PartsOf(history))
    BY <1>2 DEF HistoryInv
  <2>2. TypesInv'
    BY <1>2, <2>1, TypesStay
  <2>3. RepliedInv'
    BY <1>2, <2>1, RepliedStays
  <2>4. ShapeInv'
    BY <1>2, <2>1, ShapeStays
  <2>5. Returnable(PartsOf(history'))
    BY <1>2, <2>1, ReturnedStays
  <2>6. Returnable(PartsOf(history))'
    BY <2>5
  <2> QED
    BY <2>2, <2>3, <2>4, <2>6 DEF HistoryInv
<1> QED
  BY <1>1, <1>2

(* The model that a request is forwarded to is listed.                     *)
LEMMA ModelIsListed ==
  ASSUME TypesInv, Forward PROVE UpstreamModel(client.id) \in {x[2] : x \in Listed}
<1> DEFINE x == <<Route, UpstreamModel(client.id)>>
<1>1. client.id \in Seq(STRING) /\ Resolves(client.protocol, client.id)
  BY ClientsAssumption DEF TypesInv, Forward
<1>2. x \in Listed
  BY <1>1, ResolvedIsListed DEF Route
<1> QED
  BY <1>2

(* Each tool of the prompt is one of the request, stripped.                *)
StrippedTool(g, model) ==
  [g EXCEPT !.name = StripText(g.name, OtherModelTokens(model)),
            !.about = StripText(g.about, OtherModelTokens(model)),
            !.enum = StripEnum(g.enum, OtherModelTokens(model))]

(* Tool by tool.                                                           *)
LEMMA PromptToolIs ==
  ASSUME TypesInv, GivenInv, ToolsCollected, phase = "sent", NEW k \in DOMAIN PromptTools
  PROVE  /\ given.tools[k] \in ToolRecords
         /\ PromptTools[k] = StrippedTool(given.tools[k], UpstreamModel(client.id))
<1> DEFINE model == UpstreamModel(client.id)
           tools == given.tools
<1>1. PromptTools = StripTools(tools, model) /\ tools \in Seq(ToolRecords)
  BY PromptToolsAre
<1> HIDE DEF model, tools
<1>2. k \in DOMAIN tools
  BY <1>1 DEF StripTools
<1>3. PromptTools[k] = StrippedTool(tools[k], model)
  BY <1>1, <1>2 DEF StripTools, StrippedTool
<1> QED
  BY <1>1, <1>2, <1>3 DEF model, tools

(* Types of what is stripped.                                              *)
LEMMA StrippedToolIs ==
  ASSUME NEW g \in ToolRecords, NEW model
  PROVE  /\ g.name \in Seq(Atoms) /\ g.about \in Seq(Atoms) /\ g.enum \in Seq(Seq(STRING))
         /\ StrippedTool(g, model).name = StripText(g.name, OtherModelTokens(model))
         /\ StrippedTool(g, model).about = StripText(g.about, OtherModelTokens(model))
         /\ StrippedTool(g, model).enum = StripEnum(g.enum, OtherModelTokens(model))
<1> DEFINE n == StripText(g.name, OtherModelTokens(model))
           x == StripText(g.about, OtherModelTokens(model))
           y == StripEnum(g.enum, OtherModelTokens(model))
           t == StrippedTool(g, model)
<1>1. /\ DOMAIN g = {"name", "about", "enum", "spelling"}
      /\ g.name \in Seq(STRING) /\ g.about \in Seq(STRING) /\ g.enum \in Seq(Seq(STRING))
  BY DEF ToolRecords
<1>2. \A s \in Seq(STRING) : s \in Seq(Atoms)
  <2>1. STRING \subseteq Atoms
    BY DEF Atoms
  <2> QED
    BY <2>1, SeqMonotonic
<1>3. t = [g EXCEPT !.name = n, !.about = x, !.enum = y]
  BY DEF StrippedTool
<1> HIDE DEF n, x, y, t
<1>4. t.name = n /\ t.about = x /\ t.enum = y
  BY <1>1, <1>3
<1> QED
  BY <1>1, <1>2, <1>4 DEF n, x, y, t

(* A name is kept unless it holds another model's.                         *)
DescribedBy(tools) ==
  /\ Len(tools) = Len(given.tools)
  /\ \A k \in DOMAIN tools :
       tools[k].name = given.tools[k].name \/ MentionsOther(given.tools[k].name, UpstreamModel(client.id))

(* So the prompt describes the tools of the request.                       *)
LEMMA PromptIsDescribed ==
  ASSUME TypesInv, GivenInv, ToolsCollected, NamesArePlain, phase = "sent",
         UpstreamModel(client.id) \in {x[2] : x \in Listed}
  PROVE  DescribedBy(PromptTools)
<1> DEFINE model == UpstreamModel(client.id)
<1>1. Len(PromptTools) = Len(given.tools)
  BY PromptToolsAre
<1>2. ASSUME NEW k \in DOMAIN PromptTools, ~MentionsOther(given.tools[k].name, model)
      PROVE  PromptTools[k].name = given.tools[k].name
  <2> DEFINE g == given.tools[k]
             n == g.name
  <2>1. g \in ToolRecords /\ PromptTools[k] = StrippedTool(g, model)
    BY PromptToolIs
  <2> HIDE DEF g
  <2>2. n \in Seq(Atoms) /\ PromptTools[k].name = StripText(n, OtherModelTokens(model))
    BY <2>1, StrippedToolIs
  <2>3. \A other \in Range(OtherModelTokens(model)) : ~Mentions(n, other)
    BY <1>2 DEF MentionsOther, g
  <2>4. model \in {x[2] : x \in Listed}
    OBVIOUS
  <2> HIDE DEF n, model
  <2>5. StripText(n, OtherModelTokens(model)) = n
    BY <2>2, <2>3, <2>4, OthersAreSpared
  <2> QED
    BY <2>2, <2>5 DEF n, g
<1> QED
  BY <1>1, <1>2 DEF DescribedBy

(* A request that is forwarded has its prompt.                             *)
LEMMA ForwardPrompts ==
  ASSUME HistoryInv, GivenInv, ToolsCollected, NamesArePlain, Forward
  PROVE  PromptDescribesTools'
<1>1. TypesInv /\ ShapeInv /\ Returnable(PartsOf(history))
  BY DEF HistoryInv
<1>2. phase = "sent" /\ given' = given /\ request'.model = UpstreamModel(client.id)
  BY DEF Forward
<1>3. PICK x, y : Sends3(Flat(request'.body), x, y)
  BY <1>1, ForwardSends
<1>4. request'.body.tools = <<>>
  BY <1>1, ForwardSends
<1>5. (given.tools = <<>> <=> PromptTools = <<>>) /\ DescribedBy(PromptTools)
  BY <1>1, <1>2, PromptToolsAre, PromptIsDescribed, ModelIsListed
<1> DEFINE flat == Flat(request'.body)
           prompts == {i \in DOMAIN flat : IsPrompt(flat[i])}
<1>6. /\ PromptTools = <<>> => prompts = {}
      /\ PromptTools # <<>> =>
           \E i \in DOMAIN flat :
             /\ prompts = {i} /\ flat[i][2].tools = PromptTools
             /\ \A j \in DOMAIN flat : j <= i <=> flat[j][1] = "system"
  <2> HIDE DEF flat
  <2>1. Sends3(flat, x, y)
    BY <1>3 DEF flat
  <2> QED
    BY <2>1, WherePromptIs
<1>7. given.tools = <<>> => prompts = {}
  BY <1>5, <1>6
<1>8. ASSUME given.tools # <<>>
      PROVE  \E i \in DOMAIN flat :
               /\ prompts = {i} /\ DescribedBy(flat[i][2].tools)
               /\ \A j \in DOMAIN flat : j <= i <=> flat[j][1] = "system"
  <2> HIDE DEF flat
  <2>1. PICK i \in DOMAIN flat :
          /\ prompts = {i} /\ flat[i][2].tools = PromptTools
          /\ \A j \in DOMAIN flat : j <= i <=> flat[j][1] = "system"
    BY <1>5, <1>6, <1>8
  <2>2. DescribedBy(flat[i][2].tools)
    BY <1>5, <2>1
  <2> QED
    BY <2>1, <2>2
<1> QED
  BY <1>2, <1>4, <1>7, <1>8 DEF PromptDescribesTools, DescribedBy, MentionsOther

(* Whatever the client, its history and its tools, as long as these are    *)
(* spelled in a way that is collected and no name holds the mark that is   *)
(* put in place of a name: an upstream that is sent tools is sent them as  *)
(* one prompt behind the system text, which describes each of them in its  *)
(* place, under its own name unless this holds another model's, and        *)
(* nothing else, and never a prompt without them (prepare_tool_request,    *)
(* inject_system_prompt, strip_other_model_mentions_from_tools).           *)
THEOREM PromptsDescribeTools ==
  ASSUME ToolsCollected, NamesArePlain PROVE ConversationSpec => []PromptDescribesTools
<1>1. ConversationInit => HistoryInv /\ GivenInv /\ PromptDescribesTools
  BY HistoryStays DEF ConversationInit, GivenInv, PromptDescribesTools
<1>2. HistoryInv /\ [ConversationNext]_conversationVars => HistoryInv'
  BY HistoryStays
<1>3. GivenInv /\ [ConversationNext]_conversationVars => GivenInv'
  BY GivenStays
<1>4. ASSUME HistoryInv, GivenInv, PromptDescribesTools, [ConversationNext]_conversationVars
      PROVE  PromptDescribesTools'
  <2>1. CASE Forward
    BY <1>4, <2>1, ForwardPrompts
  <2>2. CASE phase' # "upstream"
    BY <2>2 DEF PromptDescribesTools
  <2>3. CASE UNCHANGED conversationVars
    BY <1>4, <2>3 DEF conversationVars, PromptDescribesTools
  <2> QED
    BY <1>4, <2>1, <2>2, <2>3, OnlyForwardSends
<1>5. HistoryInv /\ GivenInv /\ PromptDescribesTools /\ [ConversationNext]_conversationVars => PromptDescribesTools'
  BY <1>4
<1> QED
  BY <1>1, <1>2, <1>3, <1>5, PTL DEF ConversationSpec

(* A described tool tells what it was given, as far as models go.          *)
Tells(model, told, tool) ==
  /\ \A other \in Range(OtherModelTokens(model)) :
       ~Mentions(tool.name, other) /\ ~Mentions(tool.about, other)
  /\ Range(OtherModelTokens(model)) \cap Range(tool.enum) = {}
  /\ Names(model, told) => Names(model, tool.about)
  /\ Mentions(tool.about, model) => Mentions(told, model)

(* What is stripped of the other models' names.                            *)
LEMMA StrippedTells ==
  ASSUME NamesArePlain, NEW model \in {x[2] : x \in Listed}, NEW g \in ToolRecords
  PROVE  Tells(model, g.about, StrippedTool(g, model))
<1> DEFINE tokens == OtherModelTokens(model)
           about == StripText(g.about, tokens)
           name == StripText(g.name, tokens)
           enum == StripEnum(g.enum, tokens)
           tool == StrippedTool(g, model)
<1>1. /\ g.name \in Seq(Atoms) /\ g.about \in Seq(Atoms) /\ g.enum \in Seq(Seq(STRING))
      /\ tool.name = name /\ tool.about = about /\ tool.enum = enum
  BY StrippedToolIs
<1>2. \A other \in Range(tokens) : ~Mentions(name, other)
  BY <1>1, OthersAreCut
<1>3. /\ \A other \in Range(tokens) : ~Mentions(about, other)
      /\ Mentions(about, model) => Mentions(g.about, model)
      /\ \A i \in DOMAIN g.about :
           /\ OccursAt(model, g.about, i)
           /\ \A other \in Range(tokens), j \in DOMAIN g.about :
                OccursAt(other, g.about, j) => j + Len(other) <= i \/ i + Len(model) <= j
           => Mentions(about, model)
  BY <1>1, OthersAreCut
<1>4. \A other \in Range(tokens) : other \notin Range(enum)
  <2> DEFINE B == Seq(STRING)
  <2>1. g.enum \in Seq(B)
    BY <1>1
  <2> HIDE DEF B, tokens
  <2> QED
    BY <2>1, EnumTells
<1>5. Names(model, g.about) => Mentions(about, model)
  BY <1>3 DEF Names
<1> HIDE DEF about, enum, name, tool
<1>6. Range(tokens) \cap Range(enum) = {}
  BY <1>4
<1>7. Names(model, g.about) => Names(model, about)
  <2>1. ASSUME NEW i \in DOMAIN about, OccursAt(model, about, i) PROVE Names(model, about)
    <3>1. \A other \in Range(tokens) : \A j \in DOMAIN about : ~OccursAt(other, about, j)
      BY <1>3 DEF Mentions
    <3> QED
      BY <2>1, <3>1 DEF Names
  <2> QED
    BY <1>5, <2>1 DEF Mentions
<1>8. Tells(model, g.about, tool)
  BY <1>1, <1>2, <1>3, <1>6, <1>7 DEF Tells
<1> QED
  BY <1>8 DEF tool

(* So does every tool of the prompt.                                       *)
LEMMA PromptToolsTell ==
  ASSUME TypesInv, GivenInv, ToolsCollected, NamesArePlain, phase = "sent",
         UpstreamModel(client.id) \in {x[2] : x \in Listed},
         NEW k \in DOMAIN PromptTools
  PROVE  Tells(UpstreamModel(client.id), given.tools[k].about, PromptTools[k])
<1> DEFINE model == UpstreamModel(client.id)
           g == given.tools[k]
<1>1. g \in ToolRecords /\ PromptTools[k] = StrippedTool(g, model)
  BY PromptToolIs
<1>2. model \in {x[2] : x \in Listed}
  OBVIOUS
<1> HIDE DEF model, g
<1>3. Tells(model, g.about, StrippedTool(g, model))
  BY <1>1, <1>2, StrippedTells
<1> QED
  BY <1>1, <1>3 DEF model, g

(* A request that is forwarded names no other model.                       *)
LEMMA ForwardUnmentions ==
  ASSUME HistoryInv, GivenInv, ToolsCollected, NamesArePlain, Forward
  PROVE  ModelsUnmentioned'
<1>1. TypesInv /\ ShapeInv /\ Returnable(PartsOf(history))
  BY DEF HistoryInv
<1>2. phase = "sent" /\ given' = given /\ request'.model = UpstreamModel(client.id)
  BY DEF Forward
<1>3. UpstreamModel(client.id) \in {x[2] : x \in Listed}
  BY <1>1, ModelIsListed
<1>4. PICK x, y : Sends3(Flat(request'.body), x, y)
  BY <1>1, ForwardSends
<1> DEFINE flat == Flat(request'.body)
           prompts == {i \in DOMAIN flat : IsPrompt(flat[i])}
<1>5. /\ PromptTools = <<>> => prompts = {}
      /\ PromptTools # <<>> =>
           \E i \in DOMAIN flat :
             /\ prompts = {i} /\ flat[i][2].tools = PromptTools
             /\ \A j \in DOMAIN flat : j <= i <=> flat[j][1] = "system"
  <2> HIDE DEF flat
  <2>1. Sends3(flat, x, y)
    BY <1>4 DEF flat
  <2> QED
    BY <2>1, WherePromptIs
<1>6. ASSUME NEW z \in Range(flat), IsPrompt(z) PROVE z[2].tools = PromptTools
  <2> HIDE DEF flat
  <2>1. PICK i \in DOMAIN flat : flat[i] = z
    BY DEF Range
  <2>2. i \in prompts
    BY <1>6, <2>1
  <2> QED
    BY <1>5, <2>1, <2>2
<1>7. \A k \in DOMAIN PromptTools : Tells(UpstreamModel(client.id), given.tools[k].about, PromptTools[k])
  BY <1>1, <1>2, <1>3, PromptToolsTell
<1>8. \A z \in {z \in Range(flat) : IsPrompt(z)} :
        \A k \in DOMAIN z[2].tools : Tells(request'.model, given'.tools[k].about, z[2].tools[k])
  <2> HIDE DEF flat
  <2> QED
    BY <1>2, <1>6, <1>7
<1> QED
  BY <1>8 DEF ModelsUnmentioned, Tells, MentionsOther

(* Whatever the client, its tools and the configuration, as long as the    *)
(* tools are collected and no name holds the mark that is put in place of  *)
(* a name: no tool's name or description in the prompt names a model but   *)
(* the asked one, and no enum offers one, whatever order the names are cut *)
(* in and however they overlap, and the asked one is named where the       *)
(* client named it alone (strip_other_model_mentions_from_tools).          *)
THEOREM OthersGoUnmentioned ==
  ASSUME ToolsCollected, NamesArePlain PROVE ConversationSpec => []ModelsUnmentioned
<1>1. ConversationInit => HistoryInv /\ GivenInv /\ ModelsUnmentioned
  BY HistoryStays DEF ConversationInit, GivenInv, ModelsUnmentioned
<1>2. HistoryInv /\ [ConversationNext]_conversationVars => HistoryInv'
  BY HistoryStays
<1>3. GivenInv /\ [ConversationNext]_conversationVars => GivenInv'
  BY GivenStays
<1>4. ASSUME HistoryInv, GivenInv, ModelsUnmentioned, [ConversationNext]_conversationVars
      PROVE  ModelsUnmentioned'
  <2>1. CASE Forward
    BY <1>4, <2>1, ForwardUnmentions
  <2>2. CASE phase' # "upstream"
    BY <2>2 DEF ModelsUnmentioned
  <2>3. CASE UNCHANGED conversationVars
    BY <1>4, <2>3 DEF conversationVars, ModelsUnmentioned
  <2> QED
    BY <1>4, <2>1, <2>2, <2>3, OnlyForwardSends
<1>5. HistoryInv /\ GivenInv /\ ModelsUnmentioned /\ [ConversationNext]_conversationVars => ModelsUnmentioned'
  BY <1>4
<1> QED
  BY <1>1, <1>2, <1>3, <1>5, PTL DEF ConversationSpec

-----------------------------------------------------------------------------
(* What is written, however it is written down, is told by its parts.      *)
LEMMA WrittenTold ==
  ASSUME NEW role \in Roles, NEW parts \in Seq(Parts), NEW calls \in Seq(CallParts)
  PROVE  Dialogue(Written(role, parts), calls) = Says(Speaker(role), Spread(parts, Telling(calls)))
<1> DEFINE w == Written(role, parts)
           t == Told(calls)
           f == Telling(calls)
           who == Speaker(role)
<1>1. /\ Maps(t, Messages, Seq(Entries)) /\ Maps(f, Parts, Seq(LogSegs))
      /\ w \in Seq(Messages)
  BY ToldMaps, TellingMaps, WrittenIs
<1>2. ASSUME NEW p \in Seq(Parts)
      PROVE  Message(role, p) \in Messages /\ t[Message(role, p)] = Says(who, Spread(p, f))
  <2>1. Message(role, p) \in Messages /\ Message(role, p).parts = p /\ Message(role, p).role = role
    BY MessageIs DEF Message
  <2> DEFINE m == Message(role, p)
  <2>2. m \in Messages /\ m.parts = p /\ m.role = role
    BY <2>1
  <2> HIDE DEF m, f
  <2>3. t[m] = Says(who, Spread(p, f))
    BY <2>2 DEF Told, f
  <2> QED
    BY <2>2, <2>3 DEF m
<1>3. CASE w = <<Message(role, parts)>>
  <2> DEFINE m == Message(role, parts)
  <2>1. m \in Messages /\ t[m] = Says(who, Spread(parts, f))
    BY <1>2
  <2> HIDE DEF m, t, f, who, w
  <2>2. Spread(<<m>>, t) = t[m]
    BY <1>1, <2>1, SpreadOne
  <2>3. Spread(w, t) = Says(who, Spread(parts, f))
    BY <1>3, <2>1, <2>2 DEF m
  <2> QED
    BY <2>3 DEF Dialogue, w, t, f, who
<1>4. CASE w = [i \in DOMAIN parts |-> Message(role, <<parts[i]>>)]
  <2> DEFINE B == LogSegs
             C == {who} \X LogSegs
             g == Uttered(LogSegs, who)
             h == [p \in Parts |-> Says(who, f[p])]
  <2>1. DOMAIN parts = 1..Len(parts) /\ Len(parts) \in Nat /\ \A i \in 1..Len(parts) : parts[i] \in Parts
    OBVIOUS
  <2>2. ASSUME NEW p \in Parts
        PROVE  f[p] \in Seq(B) /\ Spread(<<p>>, f) = f[p] /\ <<p>> \in Seq(Parts)
    <3> HIDE DEF f, B
    <3> QED
      BY <1>1, SpreadOne, OneType DEF B
  <2>3. ASSUME NEW p \in Parts PROVE h[p] = Each(f[p], g) /\ h[p] \in Seq(C)
    <3> DEFINE s == f[p]
    <3>1. s \in Seq(LogSegs)
      BY <2>2
    <3> HIDE DEF s, who
    <3>2. Says(who, s) = Each(s, g) /\ Maps(g, LogSegs, C)
      BY <3>1, SaysIs
    <3> HIDE DEF g, C
    <3>3. Each(s, g) \in Seq(C)
      BY <3>1, <3>2, MapsEach
    <3>4. h[p] = Says(who, s)
      BY DEF s
    <3> QED
      BY <3>2, <3>3, <3>4 DEF s
  <2>4. Maps(h, Parts, Seq(C)) /\ Composed(Parts, f, g, h)
    <3> HIDE DEF C, g, f
    <3> QED
      BY <2>3 DEF Maps, Composed
  <2>5. Maps(g, B, C) /\ Maps(f, Parts, Seq(B))
    <3>1. Maps(Uttered(LogSegs, who), LogSegs, {who} \X LogSegs)
      <4>1. <<>> \in Seq(LogSegs)
        OBVIOUS
      <4> HIDE DEF who
      <4> QED
        BY <4>1, SaysIs
    <3> QED
      BY <1>1, <3>1
  <2>6. ASSUME NEW i \in 1..Len(parts) PROVE t[w[i]] = h[parts[i]]
    <3> DEFINE p == parts[i]
    <3>1. p \in Parts /\ w[i] = Message(role, <<p>>)
      BY <1>4, <2>1
    <3>2. <<p>> \in Seq(Parts) /\ Spread(<<p>>, f) = f[p]
      BY <2>2, <3>1
    <3> HIDE DEF p, w, t, f, who
    <3>3. t[Message(role, <<p>>)] = Says(who, f[p])
      BY <1>2, <3>2
    <3>4. h[p] = Says(who, f[p])
      BY <3>1
    <3> QED
      BY <3>1, <3>3, <3>4 DEF p
  <2>7. DOMAIN w = 1..Len(parts)
    BY <1>4, <2>1
  <2> HIDE DEF B, C, f, g, h, t, w, who
  <2>8. Spread(w, t) = Spread(parts, h)
    BY <2>1, <2>6, <2>7, SpreadSame
  <2>9. Each(Spread(parts, f), g) = Spread(parts, h)
    BY <2>4, <2>5, EachOfSpread
  <2>10. Spread(parts, f) \in Seq(LogSegs)
    BY <1>1, SpreadType
  <2> DEFINE s == Spread(parts, f)
  <2>11. s \in Seq(LogSegs)
    BY <2>10
  <2> HIDE DEF s
  <2>12. Says(who, s) = Each(s, Uttered(LogSegs, who))
    BY <2>11, SaysIs
  <2> QED
    BY <2>8, <2>9, <2>12 DEF Dialogue, s, g, w, t, f, who
<1> QED
  BY <1>3, <1>4 DEF Written

(* What is said aloud, in segments and in entries.                         *)
Aloud == {s \in LogSegs : s.seg \notin {"leak", "aside"}}
Spoken == {e \in Entries : e[2].seg \notin {"leak", "aside"}}

(* What a role says aloud.                                                 *)
LEMMA SpokenSays ==
  ASSUME NEW role \in Roles, NEW s \in Seq(LogSegs)
  PROVE  Kept(Says(role, s), Spoken) = Says(role, Kept(s, Aloud))
<1> DEFINE f == Uttered(LogSegs, role)
           B == {role} \X LogSegs
           k == Kept(s, Aloud)
<1>1. Maps(f, LogSegs, B) /\ Says(role, s) = Each(s, f)
  BY SaysIs
<1>2. Chosen(LogSegs, f, Aloud, Spoken)
  <2>1. \A x \in LogSegs : f[x] = <<role, x>> /\ f[x] \in Entries
    BY DEF Uttered, Entries
  <2>2. \A x \in LogSegs : f[x] \in Spoken <=> x \in Aloud
    BY <2>1 DEF Spoken, Aloud
  <2> QED
    BY <2>2 DEF Chosen
<1>3. k \in Seq(LogSegs)
  BY KeptType
<1> HIDE DEF f, B, k
<1>4. Says(role, k) = Each(k, f)
  BY <1>3, SaysIs DEF f
<1>5. Kept(Each(s, f), Spoken) = Each(k, f)
  BY <1>1, <1>2, KeptOfEach DEF k
<1> QED
  BY <1>1, <1>4, <1>5 DEF k

(* The calls of one id.                                                    *)
WithId(id) == {c \in CallParts : c.id = id}

(* The name of a result is that of the last call of its id, or the id.     *)
LEMMA NameIs ==
  ASSUME NEW calls \in Seq(CallParts), NEW id
  PROVE  NameOfCall(calls, id) =
           IF Kept(calls, WithId(id)) = <<>> THEN id ELSE Last(Kept(calls, WithId(id))).name
<1> DEFINE S == {c \in Range(calls) : c.id = id}
           T == WithId(id)
<1>1. \A i \in 1..Len(calls) : calls[i] \in S <=> calls[i] \in T
  BY DEF Range, WithId
<1>2. NameOfCall(calls, id) = IF Kept(calls, S) = <<>> THEN id ELSE Last(Kept(calls, S)).name
  BY DEF NameOfCall
<1> HIDE DEF S, T
<1>3. Kept(calls, S) = Kept(calls, T)
  BY <1>1, KeptSame
<1> QED
  BY <1>2, <1>3 DEF T

(* Calls of other ids behind them change no name.                          *)
LEMMA NameStays ==
  ASSUME NEW calls \in Seq(CallParts), NEW new \in Seq(CallParts), NEW id,
         \A i \in 1..Len(new) : new[i].id # id
  PROVE  NameOfCall(calls \o new, id) = NameOfCall(calls, id)
<1> DEFINE T == WithId(id)
           k == Kept(calls, T)
<1>1. \A i \in 1..Len(new) : new[i] \notin T
  BY DEF WithId
<1> HIDE DEF T
<1>2. Kept(new, T) = <<>>
  BY <1>1, KeptNone
<1>3. Kept(calls \o new, T) = k \o Kept(new, T)
  BY KeptConcat
<1>9. k \in Seq(CallParts)
  BY KeptType
<1> HIDE DEF k
<1>4. Kept(calls \o new, T) = k
  BY <1>2, <1>3, <1>9
<1>5. calls \o new \in Seq(CallParts)
  BY ConcatShape
<1> DEFINE u == calls \o new
<1>6. u \in Seq(CallParts) /\ Kept(u, T) = k
  BY <1>4, <1>5
<1> HIDE DEF u
<1>7. NameOfCall(u, id) = IF Kept(u, T) = <<>> THEN id ELSE Last(Kept(u, T)).name
  BY <1>6, NameIs DEF T
<1>8. NameOfCall(calls, id) = IF k = <<>> THEN id ELSE Last(k).name
  BY NameIs DEF k, T
<1> QED
  BY <1>6, <1>7, <1>8 DEF u

(* A result of one of the last calls has that call's name.                 *)
LEMMA NameOfNew ==
  ASSUME NEW calls \in Seq(CallParts), NEW new \in Seq(CallParts), Distinct(IdsOf(new)),
         NEW n \in 1..Len(new)
  PROVE  NameOfCall(calls \o new, new[n].id) = new[n].name
<1> DEFINE id == new[n].id
           T == WithId(id)
           k == Kept(calls, T)
           l == Kept(new, T)
<1>1. \A i, j \in 1..Len(new) : new[i].id = new[j].id => i = j
  BY DistinctIs
<1>2. new[n] \in T
  BY DEF WithId
<1>3. \A c \in T : c.id = id
  BY DEF WithId
<1> HIDE DEF T
<1>4. new[n] \in Range(l)
  BY <1>2, KeptHas
<1>5. /\ l \in Seq(CallParts) /\ k \in Seq(CallParts)
      /\ \A i \in 1..Len(l) : l[i] \in Range(new) /\ l[i] \in T
  BY KeptType, KeptAreItems
<1>6. Kept(calls \o new, T) = k \o l
  BY KeptConcat
<1> HIDE DEF k, l
<1>7. Len(l) \in Nat /\ Len(l) # 0
  BY <1>4, <1>5 DEF Range
<1>8. l[Len(l)] \in Range(new) /\ l[Len(l)] \in T
  BY <1>5, <1>7
<1>9. PICK j \in 1..Len(new) : l[Len(l)] = new[j]
  BY <1>8 DEF Range
<1>10. new[j].id = new[n].id
  BY <1>3, <1>8, <1>9
<1>11. l[Len(l)] = new[n]
  BY <1>1, <1>9, <1>10
<1>12. Last(k \o l) = l[Len(l)] /\ k \o l # <<>>
  BY <1>5, <1>7 DEF Last
<1> DEFINE u == calls \o new
<1>13. u \in Seq(CallParts)
  BY ConcatShape
<1> HIDE DEF u
<1>14. NameOfCall(u, id) = IF Kept(u, T) = <<>> THEN id ELSE Last(Kept(u, T)).name
  BY <1>13, NameIs DEF T
<1> QED
  BY <1>6, <1>11, <1>12, <1>14 DEF u

(* Calls that a history has no results of do not change what it tells.     *)
LEMMA HistoryTold ==
  ASSUME TypesInv, Answered(PartsOf(history)), NEW new \in Seq(CallParts),
         Range(IdsOf(new)) \cap IdSet(PartsOf(history)) = {}
  PROVE  Dialogue(history, HistoryCalls \o new) = Dialogue(history, HistoryCalls)
<1> DEFINE p == PartsOf(history)
           c == HistoryCalls
           d == HistoryCalls \o new
<1>1. history \in Seq(Messages) /\ p \in Seq(Parts) /\ c \in Seq(CallParts)
  BY HistoryParts, TextOfType DEF TypesInv, HistoryCalls
<1>2. \A i \in 1..Len(new) : new[i].id \in Range(IdsOf(new))
  BY IdsAre
<1>3. Range(IdsOf(OfType(p, "result"))) \subseteq IdSet(p)
  BY <1>1, ResultsOfCalls
<1>4. Range(IdsOf(OfType(p, "result"))) = {p[j].id : j \in {k \in 1..Len(p) : p[k].type = "result"}}
  BY <1>1, IdsOfType
<1> HIDE DEF p
<1>5. \A j \in 1..Len(p) : p[j].type = "result" => p[j].id \in IdSet(p)
  BY <1>3, <1>4
<1>6. ASSUME NEW x \in Parts, x \in Range(p) PROVE Telling(c)[x] = Telling(d)[x]
  <2>1. CASE x.type = "result"
    <3>1. PICK j \in 1..Len(p) : x = p[j]
      BY <1>1, <1>6 DEF Range
    <3>2. x.id \in IdSet(p)
      BY <1>5, <2>1, <3>1
    <3>3. \A i \in 1..Len(new) : new[i].id # x.id
      BY <1>2, <3>2 DEF p
    <3>4. NameOfCall(d, x.id) = NameOfCall(c, x.id)
      <4> HIDE DEF c
      <4> QED
        BY <1>1, <3>3, NameStays DEF c
    <3>5. ResultOf(x, c) = ResultOf(x, d)
      <4> HIDE DEF c, d
      <4> QED
        BY <3>4 DEF ResultOf
    <3> HIDE DEF c, d
    <3> QED
      BY <2>1, <3>5, TellingIs
  <2>2. CASE x.type # "result"
    <3> HIDE DEF c, d
    <3>1. BlockRewritten(x, c) = BlockRewritten(x, d)
      BY <2>2 DEF BlockRewritten
    <3> QED
      BY <3>1 DEF Telling
  <2> QED
    BY <2>1, <2>2
<1>7. ASSUME NEW i \in 1..Len(history) PROVE Told(c)[history[i]] = Told(d)[history[i]]
  <2> DEFINE m == history[i]
             f == Telling(c)
             g == Telling(d)
  <2>1. m \in Messages /\ m.parts \in Seq(Parts) /\ \A k \in 1..Len(m.parts) : m.parts[k] \in Range(p)
    BY <1>1, PartIsAmongParts DEF p
  <2>2. \A k \in 1..Len(m.parts) : f[m.parts[k]] = g[m.parts[k]]
    <3> HIDE DEF f, g, m
    <3>1. \A k \in 1..Len(m.parts) : m.parts[k] \in Parts
      BY <2>1
    <3> QED
      BY <1>6, <2>1, <3>1 DEF f, g
  <2>3. DOMAIN m.parts = 1..Len(m.parts) /\ Len(m.parts) \in Nat
    BY <2>1
  <2> HIDE DEF f, g, m
  <2>4. Spread(m.parts, f) = Spread(m.parts, g)
    BY <2>2, <2>3, SpreadSame
  <2> HIDE DEF c, d
  <2>5. Told(c)[m] = Told(d)[m]
    BY <2>1, <2>4 DEF Told, f, g
  <2> QED
    BY <2>5 DEF m
<1>8. DOMAIN history = 1..Len(history) /\ Len(history) \in Nat
  BY <1>1
<1> DEFINE s == Told(c)
           t == Told(d)
<1>9. \A i \in 1..Len(history) : s[history[i]] = t[history[i]]
  BY <1>7
<1> HIDE DEF s, t
<1>10. Spread(history, s) = Spread(history, t)
  BY <1>8, <1>9, SpreadSame
<1> QED
  BY <1>10 DEF s, t, Dialogue

(* Aloud, a part of a reply says what it tells.                            *)
LEMMA PartAloud ==
  ASSUME NEW p \in ReturnParts
  PROVE  Kept(Saying(p), Aloud) = Kept(Telling(<<>>)[p], Aloud)
<1> DEFINE t == Telling(<<>>)[p]
<1>1. p \in Parts /\ p.type \in {"text", "content", "thinking", "call"}
  BY PartKinds DEF Parts
<1>2. CASE p.type = "text"
  <2>1. t = p.text
    BY <1>1, <1>2, TellingIs
  <2>2. Saying(p) = p.text
    BY <1>2 DEF Saying, Segments
  <2> QED
    BY <2>1, <2>2
<1>3. CASE p.type = "thinking"
  <2>1. t = <<>>
    BY <1>1, <1>3, TellingIs
  <2>2. Saying(p) = <<>>
    BY <1>3 DEF Saying, Segments
  <2> QED
    BY <2>1, <2>2
<1>4. CASE p.type = "call"
  <2>1. t = <<CallXml(p.name, p.arguments)>>
    BY <1>1, <1>4, TellingIs
  <2>2. Saying(p) = <<CallXml(p.name, p.arguments)>>
    BY <1>4 DEF Saying
  <2> QED
    BY <2>1, <2>2
<1>5. CASE p.type = "content"
  <2> DEFINE s == [i \in DOMAIN p.text |-> Aside(p.text[i])]
  <2>1. t = <<>> /\ Saying(p) = s
    BY <1>1, <1>5, TellingIs DEF Saying
  <2>2. s \in Seq(LogSegs)
    BY <2>1, SayingIs
  <2>3. \A i \in 1..Len(s) : s[i] \notin Aloud
    <3>1. \A x : Aside(x) \notin Aloud
      BY DEF Aside, Aloud
    <3>2. DOMAIN s = 1..Len(s)
      BY <2>2
    <3> QED
      BY <3>1, <3>2
  <2> HIDE DEF s
  <2>4. Kept(s, Aloud) = <<>>
    BY <2>2, <2>3, KeptNone
  <2>5. Kept(<<>>, Aloud) = <<>>
    BY KeptNil
  <2> QED
    BY <2>1, <2>4, <2>5
<1> QED
  BY <1>1, <1>2, <1>3, <1>4, <1>5

(* So does a reply.                                                        *)
LEMMA BackAloud ==
  ASSUME NEW b \in Seq(ReturnParts)
  PROVE  Kept(SayingOf(b), Aloud) = Kept(Spread(b, Telling(<<>>)), Aloud)
<1> DEFINE f == Telling(<<>>)
           x == [i \in DOMAIN b |-> Saying(b[i])]
           y == [i \in DOMAIN b |-> f[b[i]]]
           L == Seq(LogSegs)
<1>1. DOMAIN b = 1..Len(b) /\ Len(b) \in Nat /\ \A i \in 1..Len(b) : b[i] \in ReturnParts
  OBVIOUS
<1>2. \A i \in 1..Len(b) : Saying(b[i]) \in L
  BY <1>1, SayingIs
<1>3. \A i \in 1..Len(b) : f[b[i]] \in L
  <2>1. <<>> \in Seq(CallParts)
    OBVIOUS
  <2>2. Maps(f, Parts, L)
    BY <2>1, TellingMaps
  <2>3. \A i \in 1..Len(b) : b[i] \in Parts
    BY <1>1 DEF Parts
  <2> HIDE DEF f, L
  <2> QED
    BY <2>2, <2>3 DEF Maps
<1>4. \A i \in 1..Len(b) : Kept(Saying(b[i]), Aloud) = Kept(f[b[i]], Aloud)
  BY <1>1, PartAloud
<1> HIDE DEF L, f
<1>5. x \in Seq(L) /\ y \in Seq(L)
  BY <1>1, <1>2, <1>3
<1>6. EachKept(x, Aloud) = EachKept(y, Aloud)
  BY <1>1, <1>4 DEF EachKept
<1>7. SayingOf(b) = FlattenSeq(x) /\ Spread(b, f) = FlattenSeq(y)
  BY DEF SayingOf, Spread, Each
<1> HIDE DEF x, y
<1>8. x \in Seq(Seq(LogSegs)) /\ y \in Seq(Seq(LogSegs))
  BY <1>5 DEF L
<1>9. /\ Kept(FlattenSeq(x), Aloud) = FlattenSeq(EachKept(x, Aloud))
      /\ Kept(FlattenSeq(y), Aloud) = FlattenSeq(EachKept(y, Aloud))
  BY <1>8, KeptFlatten
<1> QED
  BY <1>6, <1>7, <1>9 DEF f

(* A dialogue grows with its messages.                                     *)
LEMMA DialogueGrows ==
  ASSUME NEW h \in Seq(Messages), NEW w \in Seq(Messages), NEW calls \in Seq(CallParts)
  PROVE  /\ Joins(Dialogue(h \o w, calls), Dialogue(h, calls), Dialogue(w, calls))
         /\ Dialogue(h, calls) \in Seq(Entries)
<1> DEFINE t == Told(calls)
<1>1. Maps(t, Messages, Seq(Entries))
  BY ToldMaps
<1> HIDE DEF t
<1>2. Joins(Spread(h \o w, t), Spread(h, t), Spread(w, t)) /\ Spread(h, t) \in Seq(Entries)
  BY <1>1, SpreadConcat, SpreadType
<1> QED
  BY <1>2 DEF t, Dialogue

(* The calls of a history that grows.                                      *)
LEMMA CallsGrow ==
  ASSUME TypesInv, NEW t \in Seq(Parts), PartsOf(history') = PartsOf(history) \o t
  PROVE  /\ HistoryCalls' = HistoryCalls \o OfType(t, "call")
         /\ HistoryCalls \in Seq(CallParts) /\ OfType(t, "call") \in Seq(CallParts)
         /\ OfType(t, "call") = <<>> => HistoryCalls' = HistoryCalls
<1> DEFINE p == PartsOf(history)
           c == OfType(t, "call")
<1>1. p \in Seq(Parts)
  BY HistoryParts
<1>2. HistoryCalls' = OfType(p \o t, "call")
  BY DEF HistoryCalls
<1>3. HistoryCalls = OfType(p, "call")
  BY DEF HistoryCalls
<1>7. OfType(t, "call") \in Seq(CallParts)
  BY TextOfType
<1> HIDE DEF p
<1>4. OfType(p \o t, "call") = OfType(p, "call") \o OfType(t, "call")
  BY <1>1, CallsAndResultsOfTwo
<1>5. OfType(p, "call") \in Seq(CallParts)
  BY <1>1, TextOfType
<1> HIDE DEF c
<1>6. c = <<>> => HistoryCalls \o c = HistoryCalls
  BY <1>3, <1>5
<1> QED
  BY <1>2, <1>3, <1>4, <1>5, <1>6, <1>7 DEF c

(* A question is told as it is asked.                                      *)
LEMMA AskTells ==
  ASSUME TypesInv, NEW parts \in Questions, NEW tools, NEW stream, Ask(parts, tools, stream)
  PROVE  /\ Dialogues' = Dialogues \o Says("user", SegmentsOf(parts))
         /\ Says("user", SegmentsOf(parts)) \in Seq(Entries)
<1> DEFINE w == Written("user", parts)
           c == HistoryCalls
           s == SegmentsOf(parts)
<1>1. /\ history' = history \o w /\ w \in Seq(Messages) /\ parts \in Seq(Parts)
      /\ OfType(parts, "call") = <<>>
      /\ \A i \in 1..Len(parts) : parts[i].type \notin {"call", "result", "content"}
  BY AskWrites
<1>2. PartsOf(history') = PartsOf(history) \o parts /\ history \in Seq(Messages)
  BY AskAdds DEF TypesInv
<1>3. HistoryCalls' = c /\ c \in Seq(CallParts)
  BY <1>1, <1>2, CallsGrow
<1>4. "user" \in Roles /\ Speaker("user") = "user"
  BY DEF Roles, Speaker
<1> HIDE DEF c
<1>5. Dialogue(w, c) = Says("user", Spread(parts, Telling(c)))
  BY <1>1, <1>3, <1>4, WrittenTold
<1>6. s = Spread(parts, Telling(c))
  BY <1>1, PlainSays
<1>7. Spread(parts, Telling(c)) \in Seq(LogSegs)
  BY <1>1, <1>3, ToldMaps
<1>8. Dialogues' = Dialogue(history \o w, c)
  BY <1>1, <1>3 DEF Dialogues
<1> HIDE DEF w, s
<1>9. Joins(Dialogue(history \o w, c), Dialogue(history, c), Dialogue(w, c))
  BY <1>1, <1>2, <1>3, DialogueGrows
<1>10. Says("user", s) \in Seq(Entries)
  BY <1>4, <1>6, <1>7, SaysType
<1>11. Dialogue(history, c) = Dialogues
  BY DEF c, Dialogues
<1> QED
  BY <1>5, <1>6, <1>8, <1>9, <1>10, <1>11 DEF Joins, s

(* A reply, as it is told when it is returned, and as its client holds it. *)
Replied == Says("assistant", Spread(Back(reply), Telling(<<>>)))
Held == Says("assistant", SayingOf(Back(reply)))

(* It is told alike whichever calls are known, and aloud as it is held.    *)
LEMMA EchoTells ==
  ASSUME TypesInv, RepliedInv, phase = "replied", NEW calls \in Seq(CallParts)
  PROVE  /\ Dialogue(Written("assistant", Back(reply)), calls) = Replied
         /\ Replied \in Seq(Entries) /\ Held \in Seq(Entries)
         /\ Kept(Held, Spoken) = Kept(Replied, Spoken)
<1> DEFINE e == Back(reply)
           w == Written("assistant", e)
           none == <<>>
           h == SayingOf(e)
           s == Spread(e, Telling(none))
<1>1. e \in Seq(Parts) /\ \A i \in 1..Len(e) : e[i].type # "result"
  BY EchoWrites
<1>2. "assistant" \in Roles /\ Speaker("assistant") = "assistant" /\ none \in Seq(CallParts)
  BY DEF Roles, Speaker
<1>3. reply \in Seq(ReplyParts)
  BY DEF TypesInv
<1>4. h \in Seq(LogSegs) /\ e \in Seq(ReturnParts)
  BY <1>3, BackSays, BackIs
<1> HIDE DEF e, none
<1>5. Dialogue(w, calls) = Says("assistant", Spread(e, Telling(calls)))
  BY <1>1, <1>2, WrittenTold
<1>6. Spread(e, Telling(calls)) = s
  BY <1>1, TellingSame
<1>7. s \in Seq(LogSegs)
  BY <1>1, <1>2, ToldMaps
<1>8. Kept(h, Aloud) = Kept(s, Aloud)
  BY <1>4, BackAloud DEF none
<1> HIDE DEF s, h
<1>9. Says("assistant", s) \in Seq(Entries) /\ Says("assistant", h) \in Seq(Entries)
  BY <1>2, <1>4, <1>7, SaysType
<1>10. /\ Kept(Says("assistant", s), Spoken) = Says("assistant", Kept(s, Aloud))
       /\ Kept(Says("assistant", h), Spoken) = Says("assistant", Kept(h, Aloud))
  BY <1>2, <1>4, <1>7, SpokenSays
<1>11. Replied = Says("assistant", s) /\ Held = Says("assistant", h)
  BY DEF Replied, Held, s, h, e, none
<1> QED
  BY <1>5, <1>6, <1>8, <1>9, <1>10, <1>11 DEF e

(* So is one that is read.                                                 *)
LEMMA ReadTells ==
  ASSUME TypesInv, RepliedInv, ReadAnswer
  PROVE  Dialogues' = Dialogues \o Replied
<1> DEFINE e == Back(reply)
           w == Written("assistant", e)
           c == HistoryCalls
<1>1. phase = "replied" /\ history' = history \o w /\ OfType(reply, "call") = <<>>
  BY DEF ReadAnswer, Returned, Back
<1>2. w \in Seq(Messages) /\ e \in Seq(Parts) /\ OfType(e, "call") = <<>>
  BY <1>1, EchoWrites
<1>3. PartsOf(history') = PartsOf(history) \o e /\ history \in Seq(Messages)
  BY ReadAdds DEF TypesInv
<1> HIDE DEF e
<1>4. HistoryCalls' = c /\ c \in Seq(CallParts)
  BY <1>2, <1>3, CallsGrow
<1> HIDE DEF c
<1>5. Dialogue(w, c) = Replied
  BY <1>1, <1>4, EchoTells DEF e
<1>6. Dialogues' = Dialogue(history \o w, c)
  BY <1>1, <1>4 DEF Dialogues
<1> HIDE DEF w
<1>7. Joins(Dialogue(history \o w, c), Dialogue(history, c), Dialogue(w, c))
  BY <1>2, <1>3, <1>4, DialogueGrows
<1> QED
  BY <1>5, <1>6, <1>7 DEF Joins, c, Dialogues

(* A tool that fails says so in a way that the bridge knows.               *)
ToolsTell == \A o \in Outcomes : o.failed = IndicatesError(o.objects)

(* What the tools are understood to say.                                   *)
ToolsSay(order, outcome) ==
  LET calls == OfType(reply, "call")
  IN  [i \in DOMAIN order |-> ResultXml(calls[order[i]].name, ~outcome.failed, outcome.content)]

(* The results are told under the names of their calls.                    *)
LEMMA ResultsTold ==
  ASSUME ToolsTell, NEW calls \in Seq(CallParts), NEW order, NEW outcome \in Outcomes,
         OfType(reply, "call") \in Seq(CallParts), Distinct(IdsOf(OfType(reply, "call"))),
         order \in Orders(Len(OfType(reply, "call"))), Results(order, outcome) \in Seq(ResultParts)
  PROVE  Spread(Results(order, outcome), Telling(calls \o OfType(reply, "call"))) = ToolsSay(order, outcome)
<1> DEFINE c == OfType(reply, "call")
           d == calls \o c
           r == Results(order, outcome)
           said == ToolsSay(order, outcome)
           f == Telling(d)
<1>1. Len(c) \in Nat
  OBVIOUS
<1>2. order \in [1..Len(c) -> 1..Len(c)]
  BY <1>1, OrderIsInjective
<1>3. /\ r = [i \in 1..Len(c) |-> ResultPart(c[order[i]].id, outcome.content, outcome.objects)]
      /\ said = [i \in 1..Len(c) |-> ResultXml(c[order[i]].name, ~outcome.failed, outcome.content)]
  BY <1>2 DEF Results, ToolsSay
<1>4. ASSUME NEW i \in 1..Len(c)
      PROVE  f[r[i]] = <<said[i]>>
  <2> DEFINE n == order[i]
             p == r[i]
  <2>1. n \in 1..Len(c)
    BY <1>2
  <2> HIDE DEF c, n
  <2>2. NameOfCall(d, c[n].id) = c[n].name
    BY <2>1, NameOfNew DEF c
  <2>3. p = ResultPart(c[n].id, outcome.content, outcome.objects)
    BY <1>3 DEF n
  <2>4. p \in ResultParts
    <3>1. DOMAIN r = 1..Len(c)
      BY <1>3
    <3> HIDE DEF r
    <3>2. r \in Seq(ResultParts)
      BY DEF r
    <3> QED
      BY <3>1, <3>2
  <2>5. said[i] = ResultXml(c[n].name, ~outcome.failed, outcome.content)
    BY <1>3 DEF n
  <2> HIDE DEF d, r, said
  <2>6. p.id = c[n].id /\ p.content = outcome.content /\ p.objects = outcome.objects /\ p.type = "result"
    BY <2>3 DEF ResultPart
  <2>7. (~outcome.failed) = (~IndicatesError(p.objects))
    <3>1. outcome.failed = IndicatesError(outcome.objects)
      BY DEF ToolsTell
    <3> QED
      BY <2>6, <3>1, Zenon
  <2> HIDE DEF p
  <2>8. ResultOf(p, d) = said[i]
    <3> DEFINE x == ~IndicatesError(p.objects)
               y == ~outcome.failed
    <3>1. y = x
      BY <2>7
    <3>2. ResultOf(p, d) = ResultXml(NameOfCall(d, p.id), x, p.content)
      BY DEF ResultOf
    <3>3. said[i] = ResultXml(c[n].name, y, outcome.content)
      BY <2>5
    <3> HIDE DEF x, y
    <3> QED
      BY <2>2, <2>6, <3>1, <3>2, <3>3
  <2>9. p \in Parts
    BY <2>4, PartKinds
  <2>10. Telling(d)[p] = <<ResultOf(p, d)>>
    BY <2>6, <2>9, TellingIs
  <2> QED
    BY <2>8, <2>10 DEF p
<1>5. said \in Seq({said[i] : i \in 1..Len(c)}) /\ Len(said) = Len(c) /\ DOMAIN r = 1..Len(c) /\ DOMAIN said = 1..Len(c)
  BY <1>1, <1>3
<1> HIDE DEF c, f, r, said
<1>6. Each(r, f) = [i \in DOMAIN said |-> <<said[i]>>]
  BY <1>4, <1>5 DEF Each
<1>7. FlattenSeq([i \in DOMAIN said |-> <<said[i]>>]) = said
  BY <1>5, FlattenSingles
<1> QED
  BY <1>6, <1>7 DEF Spread, r, f, d, c, said

(* Tools that are run put their calls and their results behind a history.  *)
LEMMA RunTells ==
  ASSUME ToolsTell, TypesInv, RepliedInv, FreshInv, PairedInv,
         NEW order, NEW outcome \in Outcomes, NEW tools, RunTools(order, outcome, tools)
  PROVE  /\ Dialogues' = (Dialogues \o Replied) \o Says("user", ToolsSay(order, outcome))
         /\ Says("user", ToolsSay(order, outcome)) \in Seq(Entries)
<1> DEFINE c == OfType(reply, "call")
           e == Back(reply)
           w == Written("assistant", e)
           r == Results(order, outcome)
           role == ResultRole
           z == Written(role, r)
           h == HistoryCalls
           d == h \o c
           said == ToolsSay(order, outcome)
<1>1. phase = "replied" /\ history' = (history \o w) \o z
  BY DEF RunTools, Results, Returned, Back
<1>2. w \in Seq(Messages) /\ e \in Seq(Parts) /\ OfType(e, "call") = c
  BY <1>1, EchoWrites
<1>3. /\ r \in Seq(ResultParts) /\ PartsOf(history') = (PartsOf(history) \o e) \o r
      /\ order \in Orders(Len(c)) /\ reply \in Seq(ReplyParts) /\ history \in Seq(Messages)
  BY RunAdds DEF TypesInv
<1>4. z \in Seq(Messages) /\ r \in Seq(Parts) /\ OfType(r, "call") = <<>> /\ role \in Roles /\ Speaker(role) = "user"
  <2> HIDE DEF r
  <2> QED
    BY <1>3, ResultsWritten
<1>5. c \in Seq(CallParts) /\ Distinct(IdsOf(c)) /\ Range(IdsOf(c)) \cap IdSet(PartsOf(history)) = {}
  BY <1>1, <1>3, OfReplies DEF FreshInv, IdSet
<1>6. HistoryCalls' = d /\ h \in Seq(CallParts)
  <2> DEFINE p == PartsOf(history)
             t == e \o r
  <2>1. p \in Seq(Parts)
    BY HistoryParts
  <2> HIDE DEF e, r, c
  <2>2. OfType(e \o r, "call") = OfType(e, "call") \o OfType(r, "call")
    BY <1>2, <1>4, CallsAndResultsOfTwo
  <2>3. OfType(t, "call") = c
    BY <1>2, <1>4, <1>5, <2>2
  <2>4. t \in Seq(Parts)
    BY <1>2, <1>4, ConcatShape
  <2>5. PartsOf(history') = p \o t
    <3>1. PartsOf(history') = (p \o e) \o r
      BY <1>3 DEF e, r
    <3> HIDE DEF p
    <3>2. p \o (e \o r) = (p \o e) \o r
      BY <1>2, <1>4, <2>1, ThreeJoined
    <3> QED
      BY <3>1, <3>2
  <2> HIDE DEF t
  <2>6. HistoryCalls' = HistoryCalls \o OfType(t, "call") /\ HistoryCalls \in Seq(CallParts)
    BY <2>4, <2>5, CallsGrow
  <2> QED
    BY <2>3, <2>6
<1>7. d \in Seq(CallParts)
  <2> HIDE DEF c, h
  <2> QED
    BY <1>5, <1>6, ConcatShape
<1>8. Dialogue(history, d) = Dialogues
  <2>1. Answered(PartsOf(history))
    BY DEF PairedInv, Paired
  <2> HIDE DEF c
  <2>2. Dialogue(history, HistoryCalls \o c) = Dialogue(history, HistoryCalls)
    BY <1>5, <2>1, HistoryTold
  <2> QED
    BY <2>2 DEF Dialogues
<1>9. Spread(r, Telling(d)) = said
  <2> HIDE DEF h
  <2> QED
    BY <1>3, <1>5, <1>6, ResultsTold DEF h
<1> HIDE DEF d, h, c
<1>10. Dialogue(w, d) = Replied /\ Replied \in Seq(Entries)
  BY <1>1, <1>7, EchoTells
<1>11. Dialogue(z, d) = Says("user", said) /\ said \in Seq(LogSegs)
  <2> HIDE DEF r, role, said
  <2>1. Dialogue(z, d) = Says(Speaker(role), Spread(r, Telling(d)))
    BY <1>4, <1>7, WrittenTold
  <2>2. Spread(r, Telling(d)) \in Seq(LogSegs)
    BY <1>4, <1>7, ToldMaps
  <2> QED
    BY <1>4, <1>9, <2>1, <2>2
<1> HIDE DEF w, z, said, role, r, e
<1> DEFINE g == history \o w
<1>12. g \in Seq(Messages)
  BY <1>2, <1>3, ConcatShape
<1>13. Joins(Dialogue(g, d), Dialogue(history, d), Dialogue(w, d))
  BY <1>2, <1>3, <1>7, DialogueGrows
<1> HIDE DEF g
<1>14. Joins(Dialogue(g \o z, d), Dialogue(g, d), Dialogue(z, d))
  BY <1>4, <1>7, <1>12, DialogueGrows
<1>15. Dialogues' = Dialogue(g \o z, d)
  BY <1>1, <1>6 DEF Dialogues, g
<1>16. "user" \in Roles
  BY DEF Roles
<1>17. Says("user", said) \in Seq(Entries)
  BY <1>11, <1>16, SaysType
<1> QED
  BY <1>8, <1>10, <1>11, <1>13, <1>14, <1>15, <1>17 DEF Joins, said

-----------------------------------------------------------------------------
(* What is told of a system text and of a history.                         *)
Opening == Says("system", SystemText)
Heard == Opening \o Dialogues

(* A conversation was said as it is told, but for leaked thinking that is  *)
(* in it and for what stands in parts beside calls.                        *)
DialogueInv == Kept(log, Spoken) = Kept(Heard, Spoken)

(* It stays so if what is told grows by what is said.                      *)
LEMMA HeardGrows ==
  ASSUME NEW l \in Seq(Entries), NEW u \in Seq(Entries), NEW x \in Seq(Entries), NEW y \in Seq(Entries),
         Kept(l, Spoken) = Kept(u, Spoken), Kept(x, Spoken) = Kept(y, Spoken)
  PROVE  Kept(l \o x, Spoken) = Kept(u \o y, Spoken)
<1>1. Kept(l \o x, Spoken) = Kept(l, Spoken) \o Kept(x, Spoken)
  BY KeptConcat
<1>2. Kept(u \o y, Spoken) = Kept(u, Spoken) \o Kept(y, Spoken)
  BY KeptConcat
<1> QED
  BY <1>1, <1>2

(* What is told is a dialogue.                                             *)
LEMMA HeardIs ==
  ASSUME TypesInv
  PROVE  Opening \in Seq(Entries) /\ Dialogues \in Seq(Entries) /\ Heard \in Seq(Entries)
<1>1. Opening \in Seq(Entries)
  <2> DEFINE s == SystemText
  <2>1. s \in Seq(WordSegs)
    <3>1. <<>> \in Seq(WordSegs)
      OBVIOUS
    <3> QED
      BY <3>1, ClientsAssumption DEF TypesInv, SystemText
  <2> HIDE DEF s
  <2>2. Says("system", s) \in Seq(Entries)
    BY <2>1, SystemSays, EntriesAre
  <2> QED
    BY <2>2 DEF Opening, s
<1>2. Dialogues \in Seq(Entries)
  <2> DEFINE h == history
             c == HistoryCalls
  <2>1. h \in Seq(Messages) /\ c \in Seq(CallParts)
    BY HistoryParts, TextOfType DEF TypesInv, HistoryCalls
  <2> HIDE DEF h, c
  <2>2. Dialogue(h, c) \in Seq(Entries)
    BY <2>1, DialogueGrows
  <2> QED
    BY <2>2 DEF h, c, Dialogues
<1>3. Heard \in Seq(Entries)
  BY <1>1, <1>2, ConcatShape DEF Heard
<1> QED
  BY <1>1, <1>2, <1>3

(* What is told after a step of the same client.                           *)
LEMMA HeardNext ==
  ASSUME client' = client PROVE Heard' = Opening \o Dialogues'
BY DEF Heard, Opening, SystemText

(* What is said behind a dialogue is told behind it.                       *)
LEMMA HeardBehind ==
  ASSUME NEW h \in Seq(Entries), NEW d \in Seq(Entries), NEW x \in Seq(Entries)
  PROVE  h \o (d \o x) = (h \o d) \o x /\ h \o (d \o x) \in Seq(Entries)
<1> DEFINE e == d \o x
<1>1. e \in Seq(Entries)
  BY ConcatShape
<1>2. h \o (d \o x) = (h \o d) \o x
  BY ThreeJoined
<1> HIDE DEF e
<1>3. h \o e \in Seq(Entries)
  BY <1>1, ConcatShape
<1> QED
  BY <1>2, <1>3 DEF e

(* What a client takes up and says is told as it is said.                  *)
LEMMA ClientIsHeard ==
  ASSUME ToolsTell, TypesInv, RepliedInv, FreshInv, LogInv, PairedInv, DialogueInv, ClientNext
  PROVE  DialogueInv'
<1>1. Opening \in Seq(Entries) /\ Dialogues \in Seq(Entries) /\ Heard \in Seq(Entries)
  BY HeardIs
<1>2. log \in Seq(Entries) /\ Kept(log, Spoken) = Kept(Heard, Spoken)
  BY DEF LogInv, DialogueInv
<1>3. client' = client
  BY ClientKeeps
<1>4. DialogueInv' <=> Kept(log', Spoken) = Kept(Heard', Spoken)
  BY DEF DialogueInv, Spoken
<1>5. ASSUME NEW parts \in Questions, NEW tools, NEW stream, Ask(parts, tools, stream)
      PROVE  DialogueInv'
  <2> DEFINE s == Says("user", SegmentsOf(parts))
  <2>1. Dialogues' = Dialogues \o s /\ s \in Seq(Entries)
    BY <1>5, AskTells
  <2>2. log' = log \o s
    BY <1>5 DEF Ask
  <2> HIDE DEF s
  <2>3. Heard' = Heard \o s
    BY <1>1, <1>3, <2>1, HeardNext, HeardBehind DEF Heard
  <2>4. Kept(log \o s, Spoken) = Kept(Heard \o s, Spoken)
    BY <1>1, <1>2, <2>1, HeardGrows
  <2> QED
    BY <1>4, <2>2, <2>3, <2>4
<1>6. ASSUME phase = "replied"
      PROVE  /\ Replied \in Seq(Entries) /\ Held \in Seq(Entries)
             /\ Kept(log \o Held, Spoken) = Kept(Heard \o Replied, Spoken)
  <2>1. <<>> \in Seq(CallParts)
    OBVIOUS
  <2>2. Replied \in Seq(Entries) /\ Held \in Seq(Entries) /\ Kept(Held, Spoken) = Kept(Replied, Spoken)
    BY <1>6, <2>1, EchoTells
  <2> QED
    BY <1>1, <1>2, <2>2, HeardGrows
<1>7. CASE ReadAnswer
  <2>1. phase = "replied" /\ log' = log \o Held
    BY <1>7 DEF ReadAnswer, Held, Returned, Back
  <2>2. Dialogues' = Dialogues \o Replied
    BY <1>7, ReadTells
  <2>3. Heard' = Heard \o Replied
    BY <1>1, <1>3, <1>6, <2>1, <2>2, HeardNext, HeardBehind DEF Heard
  <2> QED
    BY <1>4, <1>6, <2>1, <2>3
<1>8. ASSUME NEW order, NEW outcome \in Outcomes, NEW tools, RunTools(order, outcome, tools)
      PROVE  DialogueInv'
  <2> DEFINE s == Says("user", ToolsSay(order, outcome))
             l == log \o Held
             u == Heard \o Replied
             e == Dialogues \o Replied
  <2>1. Dialogues' = e \o s /\ s \in Seq(Entries)
    BY <1>8, RunTells
  <2>2. phase = "replied" /\ log' = l \o s
    BY <1>8 DEF RunTools, ToolsSay, Held, Returned, Back
  <2> HIDE DEF s
  <2>3. l \in Seq(Entries) /\ u \in Seq(Entries) /\ e \in Seq(Entries) /\ Kept(l, Spoken) = Kept(u, Spoken)
    BY <1>1, <1>2, <1>6, <2>2, ConcatShape
  <2>4. Opening \o e = u
    BY <1>1, <1>6, <2>2, HeardBehind DEF Heard
  <2> HIDE DEF l, u, e
  <2>5. Heard' = u \o s
    <3>1. Opening \o (e \o s) = (Opening \o e) \o s
      BY <1>1, <2>1, <2>3, HeardBehind, SMTT(30)
    <3>2. Heard' = Opening \o Dialogues'
      BY <1>3, HeardNext
    <3> QED
      BY <2>1, <2>4, <3>1, <3>2
  <2>6. Kept(l \o s, Spoken) = Kept(u \o s, Spoken)
    BY <2>1, <2>3, HeardGrows
  <2> QED
    BY <1>4, <2>2, <2>5, <2>6
<1>9. CASE AskAgain
  <2>1. log' = log /\ history' = history
    BY <1>9 DEF AskAgain
  <2>2. Dialogues' = Dialogues
    BY <2>1 DEF Dialogues, HistoryCalls
  <2>3. Heard' = Heard
    BY <1>3, <2>2, HeardNext DEF Heard
  <2> QED
    BY <1>2, <1>4, <2>1, <2>3
<1> QED
  BY <1>5, <1>7, <1>8, <1>9 DEF ClientNext

(* So is everything.                                                       *)
LEMMA DialogueStays ==
  ASSUME ToolsTell, TypesInv, RepliedInv, FreshInv, LogInv, PairedInv, DialogueInv,
         [ConversationNext]_conversationVars
  PROVE  DialogueInv'
<1>1. client' = client
  BY OnlyForwardSends
<1>2. DialogueInv' <=> Kept(log', Spoken) = Kept(Heard', Spoken)
  BY DEF DialogueInv, Spoken
<1>3. ASSUME log' = log, history' = history PROVE DialogueInv'
  <2>1. Dialogues' = Dialogues
    BY <1>3 DEF Dialogues, HistoryCalls
  <2>2. Heard' = Heard
    BY <1>1, <2>1, HeardNext DEF Heard
  <2> QED
    BY <1>2, <1>3, <2>2 DEF DialogueInv
<1>4. ASSUME NEW a, UpstreamAnswers(a) PROVE DialogueInv'
  BY <1>3, <1>4 DEF UpstreamAnswers
<1>5. CASE Refuse \/ Forward \/ UpstreamFails \/ UNCHANGED conversationVars
  BY <1>3, <1>5 DEF Refuse, Forward, UpstreamFails, conversationVars
<1> QED
  BY <1>4, <1>5, ClientIsHeard DEF ConversationNext

(* What of a body's entries is part of a dialogue.                         *)
Audible == {e \in BodyEntries : e[2].seg \notin Unsaid}

(* What is said in a body, and of a conversation.                          *)
LEMMA SaidIs ==
  /\ \A s \in Seq(BodyEntries) : Said(s) = Kept(s, Audible)
  /\ \A s \in Seq(Entries) : Said(s) = Kept(s, Spoken) /\ Kept(s, Audible) = Kept(s, Spoken)
  /\ Kept(PromptPart, Audible) = <<>>
<1>1. ASSUME NEW s \in Seq(BodyEntries) PROVE Said(s) = Kept(s, Audible)
  <2> DEFINE S == {x \in Range(s) : x[2].seg \notin Unsaid}
  <2>1. \A i \in 1..Len(s) : s[i] \in BodyEntries /\ s[i] \in Range(s)
    BY DEF Range
  <2>2. \A i \in 1..Len(s) : s[i] \in S <=> s[i] \in Audible
    <3> HIDE DEF BodyEntries
    <3> QED
      BY <2>1 DEF Audible
  <2>3. Said(s) = Kept(s, S)
    BY DEF Said
  <2> HIDE DEF S
  <2> QED
    BY <2>2, <2>3, KeptSame
<1>2. ASSUME NEW s \in Seq(Entries)
      PROVE  Said(s) = Kept(s, Spoken) /\ Kept(s, Audible) = Kept(s, Spoken)
  <2>1. s \in Seq(BodyEntries)
    BY EntriesAre
  <2>2. Said(s) = Kept(s, Audible)
    BY <1>1, <2>1
  <2>3. \A e \in Entries : e[2].seg # "prompt"
    <3>1. \A x \in LogSegs : x.seg # "prompt"
      <4>1. \A x \in (ImageSegs \cup ResultSegs) \cup AsideSegs : x.seg # "prompt"
        BY DEF ImageSegs, ResultSegs, AsideSegs
      <4> QED
        BY <4>1, SegmentKinds DEF LogSegs
    <3>2. \A e \in Entries : e[2] \in LogSegs
      BY DEF Entries
    <3> QED
      BY <3>1, <3>2
  <2>4. \A i \in 1..Len(s) : s[i] \in Entries /\ s[i] \in BodyEntries
    BY <2>1
  <2>5. \A i \in 1..Len(s) : s[i] \in Audible <=> s[i] \in Spoken
    <3> HIDE DEF BodyEntries, Entries
    <3> QED
      BY <2>3, <2>4 DEF Audible, Spoken, Unsaid
  <2>6. Kept(s, Audible) = Kept(s, Spoken)
    BY <2>5, KeptSame
  <2> QED
    BY <2>2, <2>6
<1>3. Kept(PromptPart, Audible) = <<>>
  <2> DEFINE x == PromptXml(PromptTools)
             e == <<"system", x>>
  <2>1. x.seg = "prompt"
    BY DEF PromptXml
  <2> HIDE DEF x
  <2>2. e[2] = x
    OBVIOUS
  <2>3. e \notin Audible
    BY <2>1, <2>2 DEF Audible, Unsaid
  <2>4. PromptPart = IF PromptTools = <<>> THEN <<>> ELSE <<e>>
    BY DEF PromptPart, x
  <2> HIDE DEF e
  <2>5. \A i \in 1..Len(PromptPart) : PromptPart[i] \notin Audible
    BY <2>3, <2>4
  <2>6. PromptPart \in Seq(BodyEntries)
    BY EntriesAre
  <2> QED
    BY <2>5, <2>6, KeptNone
<1> QED
  BY <1>1, <1>2, <1>3

(* A request that is forwarded tells its upstream what was said.           *)
LEMMA ForwardTells ==
  ASSUME HistoryInv, LogInv, DialogueInv, Forward
  PROVE  UpstreamSeesDialogue'
<1>1. TypesInv /\ ShapeInv /\ Returnable(PartsOf(history))
  BY DEF HistoryInv
<1>2. phase = "sent" /\ log' = log
  BY DEF Forward
<1>3. PICK x, y : Sends3(Flat(request'.body), x, y)
  BY <1>1, ForwardSends
<1> DEFINE flat == Flat(request'.body)
           d == Opening \o Dialogues
           p == PromptPart
<1>4. /\ x \in Seq(Entries) /\ x \in Seq(BodyEntries) /\ y \in Seq(Entries) /\ y \in Seq(BodyEntries)
      /\ p \in Seq(BodyEntries)
  BY <1>3, EntriesAre DEF Sends3
<1>5. flat = x \o (p \o y) /\ d = x \o y
  BY <1>3 DEF Sends3, Between, Joins, Opening
<1>6. Heard = d /\ log \in Seq(Entries) /\ Kept(log, Spoken) = Kept(Heard, Spoken)
  BY <1>1, <1>2 DEF LogInv, DialogueInv, Heard
<1>7. Kept(p, Audible) = <<>> /\ Kept(x, Audible) = Kept(x, Spoken) /\ Kept(y, Audible) = Kept(y, Spoken)
  BY <1>4, SaidIs
<1>8. Kept(y, Spoken) \in Seq(Entries)
  BY <1>4, KeptType
<1> HIDE DEF flat, d, p
<1> DEFINE q == p \o y
<1>9. q \in Seq(BodyEntries)
  BY <1>4, ConcatShape
<1>10. Kept(q, Audible) = Kept(y, Spoken)
  <2>1. Kept(p \o y, Audible) = Kept(p, Audible) \o Kept(y, Audible)
    BY <1>4, KeptConcat
  <2> QED
    BY <1>7, <1>8, <2>1
<1>11. flat = x \o q
  BY <1>5
<1> HIDE DEF q
<1>12. Kept(x \o q, Audible) = Kept(x, Audible) \o Kept(q, Audible) /\ x \o q \in Seq(BodyEntries)
  BY <1>4, <1>9, KeptConcat, ConcatShape
<1>13. Kept(x \o y, Spoken) = Kept(x, Spoken) \o Kept(y, Spoken)
  BY <1>4, KeptConcat
<1>14. Said(flat) = Kept(flat, Audible) /\ Said(log) = Kept(log, Spoken)
  BY <1>6, <1>11, <1>12, SaidIs
<1>15. Said(flat) = Said(log)
  BY <1>5, <1>6, <1>7, <1>10, <1>11, <1>12, <1>13, <1>14
<1> QED
  BY <1>2, <1>15 DEF UpstreamSeesDialogue, flat

(* At the beginning only the system text has been said.                    *)
LEMMA DialogueInitially ==
  ASSUME ConversationInit PROVE DialogueInv
<1>1. TypesInv /\ phase = "client" /\ log = Says("system", client.system)
  BY TypesInitially DEF ConversationInit
<1>2. /\ Opening \in Seq(Entries) /\ Dialogues \in Seq(Entries) /\ Heard = Opening \o Dialogues
  BY <1>1, HeardIs DEF Heard
<1>3. client.system \in Seq(WordSegs)
  BY <1>1, ClientsAssumption DEF TypesInv
<1>4. Says("system", <<>>) = <<>>
  BY SaysNothing
<1>5. CASE history = <<>>
  <2>1. client.protocol = "chat" => client.system = <<>>
    <3> DEFINE m == Message("system", <<TextPart(client.system)>>)
    <3>1. <<m>> # <<>>
      OBVIOUS
    <3> QED
      BY <1>5, <3>1 DEF ConversationInit
  <2>2. Opening = log
    BY <1>1, <1>4, <2>1 DEF Opening, SystemText
  <2>3. Dialogues = <<>>
    BY <1>5, SpreadNil DEF Dialogues, Dialogue
  <2>4. Heard = log
    BY <1>2, <2>2, <2>3
  <2> QED
    BY <2>4 DEF DialogueInv
<1>6. CASE history # <<>>
  <2> DEFINE p == TextPart(client.system)
             m == Message("system", <<p>>)
             c == HistoryCalls
             t == Told(c)
  <2>1. client.protocol = "chat" /\ history = <<m>>
    BY <1>6 DEF ConversationInit
  <2>2. Opening = <<>>
    BY <1>4, <2>1 DEF Opening, SystemText
  <2>3. p \in Parts /\ p.type = "text" /\ p.text = client.system
    BY <1>3, PartKinds DEF TextPart
  <2>4. c \in Seq(CallParts)
    BY <1>1, HistoryParts, TextOfType DEF HistoryCalls
  <2> HIDE DEF p, c
  <2>5. <<p>> \in Seq(Parts) /\ "system" \in Roles
    BY <2>3, OneType DEF Roles
  <2>6. m \in Messages /\ m.parts = <<p>> /\ m.role = "system"
    BY <2>5, MessageIs DEF Message
  <2>7. Maps(t, Messages, Seq(Entries)) /\ Maps(Telling(c), Parts, Seq(LogSegs))
    BY <2>4, ToldMaps, TellingMaps
  <2>8. Telling(c)[p] = client.system
    BY <2>3, TellingIs
  <2>9. Spread(<<p>>, Telling(c)) = Telling(c)[p]
    <3> DEFINE f == Telling(c)
               B == LogSegs
    <3>1. Maps(f, Parts, Seq(B))
      BY <2>7
    <3> HIDE DEF f, B
    <3>2. Spread(<<p>>, f) = f[p]
      BY <2>3, <3>1, SpreadOne
    <3> QED
      BY <3>2 DEF f
  <2> HIDE DEF m
  <2>10. t[m] = Says("system", client.system)
    BY <2>6, <2>8, <2>9 DEF Told, Speaker
  <2> HIDE DEF t
  <2>11. Spread(<<m>>, t) = t[m]
    <3> DEFINE B == Entries
    <3>1. Maps(t, Messages, Seq(B))
      BY <2>7
    <3> HIDE DEF B
    <3> QED
      BY <2>6, <3>1, SpreadOne
  <2>12. Dialogues = log
    BY <1>1, <2>1, <2>10, <2>11 DEF Dialogues, Dialogue, t, c
  <2>13. Heard = log
    BY <1>2, <2>2, <2>12
  <2> QED
    BY <2>13 DEF DialogueInv
<1> QED
  BY <1>5, <1>6

(* Whatever the client, its questions, its tools and the answers, as long  *)
(* as a tool that fails says so in a way the bridge knows: an upstream is  *)
(* told all that the client holds of a dialogue, in its order and under    *)
(* the names of who said it; only what a chat client writes in parts       *)
(* beside calls is lost (rewrite_tool_results, translate_request_body).    *)
THEOREM UpstreamsSeeDialogue ==
  ASSUME ToolsTell PROVE ConversationSpec => []UpstreamSeesDialogue
<1> DEFINE Inv == HistoryInv /\ LogInv /\ PairedInv /\ DialogueInv
<1>1. ConversationInit => Inv /\ UpstreamSeesDialogue
  <2>1. ConversationInit => Inv
    BY HistoryStays, AllInitially, DialogueInitially
  <2> QED
    BY <2>1 DEF ConversationInit, UpstreamSeesDialogue
<1>2. ASSUME Inv, FreshInv, [ConversationNext]_conversationVars PROVE Inv'
  <2>1. TypesInv /\ RepliedInv /\ HistoryInv
    BY <1>2 DEF HistoryInv
  <2>2. HistoryInv'
    BY <1>2, HistoryStays
  <2>3. LogInv' /\ PairedInv'
    BY <1>2, <2>1, LogStays, PairedStays
  <2>4. DialogueInv'
    BY <1>2, <2>1, DialogueStays
  <2> QED
    BY <2>2, <2>3, <2>4
<1>3. ASSUME Inv, UpstreamSeesDialogue, [ConversationNext]_conversationVars
      PROVE  UpstreamSeesDialogue'
  <2>1. CASE Forward
    BY <1>3, <2>1, ForwardTells
  <2>2. CASE phase' # "upstream"
    BY <2>2 DEF UpstreamSeesDialogue
  <2>3. CASE UNCHANGED conversationVars
    BY <1>3, <2>3 DEF conversationVars, UpstreamSeesDialogue
  <2> QED
    BY <1>3, <2>1, <2>2, <2>3, OnlyForwardSends
<1>4. Inv /\ FreshInv /\ [ConversationNext]_conversationVars => Inv'
  BY <1>2
<1>5. Inv /\ UpstreamSeesDialogue /\ [ConversationNext]_conversationVars => UpstreamSeesDialogue'
  BY <1>3
<1> QED
  BY <1>1, <1>4, <1>5, FreshHolds, PTL DEF ConversationSpec
=============================================================================
