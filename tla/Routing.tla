------------------------------- MODULE Routing ------------------------------
(***************************************************************************)
(* Which provider serves a request, and under which name, credential and   *)
(* tool descriptions (provider.rs, config.rs, and the routing part of      *)
(* bridge.rs).  The names of providers, models and tools are texts, as are *)
(* descriptions: sequences of atoms, one of which is "/".                  *)
(***************************************************************************)
EXTENDS TextLines

CONSTANT Providers       \* the configuration's providers, in their order

Protocols == {"chat", "responses", "messages"}

(* A provider: its two protocols, its models, its credential, if any, and  *)
(* the header it goes into, and the headers it adds by default.            *)
ProviderType ==
  [name : Seq(STRING), protocol : Protocols, upstream : Protocols, models : Seq(Seq(STRING)),
   key : {"none", "provider"}, authHeader : STRING, headers : SUBSET (STRING \X STRING)]

ASSUME ProvidersAssumption == Providers \in Seq(ProviderType)

(* AppConfig::validate, as far as routes depend on it.                     *)
Valid ==
  /\ Providers # <<>>
  /\ \A p \in Range(Providers) :
       p.name # <<>> /\ p.models # <<>> /\ \A m \in Range(p.models) : m # <<>>
  /\ \A i, j \in DOMAIN Providers : Providers[i].name = Providers[j].name => i = j

ASSUME ValidAssumption == Valid

(* models_response                                                         *)
Id(provider, model) == provider.name \o <<"/">> \o model
Listed == UNION {{<<p, m>> : m \in Range(p.models)} : p \in Range(Providers)}
ListedIds == {Id(x[1], x[2]) : x \in Listed}

(* split_model: the two sides of the first slash.                          *)
SlashOf(id) == FirstOf({i \in DOMAIN id : id[i] = "/"})
HasForm(id) == SlashOf(id) \notin {0, 1, Len(id)}
SplitModel(id) == [provider |-> SubSeq(id, 1, SlashOf(id) - 1), model |-> From(id, SlashOf(id) + 1)]

(* resolve: the first provider of that name, or why the id is refused.     *)
Named(name) == {i \in DOMAIN Providers : Providers[i].name = name}
ProviderOf(id) == Providers[Min(Named(SplitModel(id).provider))]

(* A mutant: any of the provider's models is served over any protocol.     *)
RefusalsMutant(protocol, id) ==
  IF ~HasForm(id) THEN {"form"}
  ELSE IF Named(SplitModel(id).provider) = {} THEN {"provider"}
  ELSE IF SplitModel(id).model \in Range(ProviderOf(id).models) THEN {} ELSE {"model"}

Refusals(protocol, id) ==
  IF ~HasForm(id) THEN {"form"}
  ELSE IF Named(SplitModel(id).provider) = {} THEN {"provider"}
  ELSE (IF SplitModel(id).model \in Range(ProviderOf(id).models) THEN {} ELSE {"model"})
       \cup (IF ProviderOf(id).protocol = protocol THEN {} ELSE {"protocol"})
Resolves(protocol, id) == Refusals(protocol, id) = {}
UpstreamModel(id) == SplitModel(id).model

-----------------------------------------------------------------------------
(* Headers are pairs of a name and a value.                                *)
Without(headers, names) == {h \in headers : h[1] \notin names}
CommonAuth == {"authorization", "x-api-key", "api-key"}
AddDefaults(headers, defaults) ==
  headers \cup {d \in defaults : \A h \in headers : h[1] # d[1]}
SetHeader(headers, name, value) == Without(headers, {name}) \cup {<<name, value>>}

(* A mutant: the client's credentials are kept beside the provider's.      *)
ApplyProviderHeadersMutant(headers, p) ==
  IF p.key = "none" THEN AddDefaults(headers, p.headers)
  ELSE SetHeader(AddDefaults(headers, p.headers), p.authHeader, p.key)

(* apply_provider_headers                                                  *)
ApplyProviderHeaders(headers, p) ==
  IF p.key = "none" THEN AddDefaults(headers, p.headers)
  ELSE SetHeader(Without(AddDefaults(headers, p.headers), CommonAuth), p.authHeader, p.key)

(* forward_request: what belongs to the connection stays behind.           *)
Stripped == {"connection", "keep-alive", "proxy-authenticate", "proxy-authorization", "te",
             "trailers", "transfer-encoding", "upgrade", "host", "content-length"}
Forwarded(headers) == Without(headers, Stripped)

-----------------------------------------------------------------------------
(* other_model_tokens: the names of the models that are not asked for, the *)
(* longest first; ties may come in any order.                              *)
LongestFirst(texts) ==
  LET sorted[rest \in SUBSET texts] ==
        LET longest == CHOOSE t \in rest : \A u \in rest : Len(u) <= Len(t)
        IN  IF rest = {} THEN <<>> ELSE <<longest>> \o sorted[rest \ {longest}]
  IN  sorted[texts]
TokensBeside(others) == LongestFirst({x[2] : x \in others} \cup {Id(x[1], x[2]) : x \in others})
OtherTokens == [model \in {x[2] : x \in Listed} |-> TokensBeside({x \in Listed : x[2] # model})]
OtherModelTokens(model) == OtherTokens[model]

OccursAt(token, t, i) == i + Len(token) - 1 <= Len(t) /\ SubSeq(t, i, i + Len(token) - 1) = token
Mentions(t, token) == \E i \in DOMAIN t : OccursAt(token, t, i)

(* str::replace, from the left, without overlaps.                          *)
Redacted == "[redacted-model]"
Redact(t, token) ==
  LET from[i \in 1..(Len(t) + 1)] ==
        IF i > Len(t) THEN <<>>
        ELSE IF OccursAt(token, t, i) THEN <<Redacted>> \o from[i + Len(token)]
        ELSE <<t[i]>> \o from[i + 1]
  IN  from[1]

(* strip_model_mentions_from_value, of a string that is not in a list.     *)
StripText(t, tokens) ==
  LET stripped[n \in 0..Len(tokens)] == IF n = 0 THEN t ELSE Redact(stripped[n - 1], tokens[n])
  IN  stripped[Len(tokens)]

(* Of an enum only whole names go, and one that loses all its values goes  *)
(* with them.                                                              *)
StripEnum(values, tokens) == Kept(values, Range(values) \ Range(tokens))

(* A mutant: the model the client asked for is cut as well.                *)
StripToolsMutant(tools, model) ==
  [i \in DOMAIN tools |->
     [tools[i] EXCEPT !.name = StripText(@, <<model>> \o OtherModelTokens(model)),
                      !.about = StripText(@, <<model>> \o OtherModelTokens(model)),
                      !.enum = StripEnum(@, OtherModelTokens(model))]]

(* strip_other_model_mentions_from_tools: every string of a tool is cut,   *)
(* its name included; its other strings are like its description.          *)
StripTools(tools, model) ==
  [i \in DOMAIN tools |->
     [tools[i] EXCEPT !.name = StripText(@, OtherModelTokens(model)),
                      !.about = StripText(@, OtherModelTokens(model)),
                      !.enum = StripEnum(@, OtherModelTokens(model))]]
=============================================================================
