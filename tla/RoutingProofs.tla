---------------------------- MODULE RoutingProofs ---------------------------
(***************************************************************************)
(* What holds of the routes of every valid configuration: an id that is    *)
(* resolved is one of those listed, and one that is listed is resolved to  *)
(* the model it was listed for, unless the provider's name holds a slash.  *)
(* And what is left of a tool's description when the names of the other    *)
(* models are cut out of it, one after the other.                          *)
(***************************************************************************)
EXTENDS Routing, TextLinesProofs, FiniteSetTheorems

(* The slash of an id is its first one.                                    *)
LEMMA SlashIsFirst ==
  ASSUME NEW A, NEW id \in Seq(A), SlashOf(id) # 0
  PROVE  SlashOf(id) \in 1..Len(id) /\ id[SlashOf(id)] = "/"
<1> DEFINE S == {i \in DOMAIN id : id[i] = "/"}
<1>1. S \in SUBSET (Nat \ {0}) /\ SlashOf(id) = FirstOf(S)
  BY DEF SlashOf
<1>2. S # {}
  BY <1>1, FirstOfPlaces
<1>3. SlashOf(id) \in S
  BY <1>1, <1>2, FirstOfPlaces
<1> QED
  BY <1>3

(* The two sides of an id, and the slash between them, make the id.        *)
LEMMA SplitJoins ==
  ASSUME NEW A, NEW id \in Seq(A), HasForm(id)
  PROVE  SplitModel(id).provider \o <<"/">> \o SplitModel(id).model = id
<1> DEFINE k == SlashOf(id)
           p == SubSeq(id, 1, k - 1)
           m == SubSeq(id, k + 1, Len(id))
           s == <<"/">>
<1>1. k \in 1..Len(id) /\ id[k] = "/"
  BY SlashIsFirst DEF HasForm
<1> HIDE DEF k
<1>2. SplitModel(id).provider = p /\ SplitModel(id).model = m
  BY DEF SplitModel, From, k
<1>3. SubSeq(id, k, k) = s
  <2> DEFINE q == SubSeq(id, k, k)
  <2>1. \A i \in k..k : id[i] \in A
    BY <1>1
  <2>2. q \in Seq(A) /\ Len(q) = 1 /\ q[1] = id[k]
    <3>1. k \in Int /\ k - k + 1 = 1 /\ k + 1 - 1 = k
      BY <1>1
    <3> QED
      BY <2>1, <3>1, SubSeqProperties
  <2>3. s \in Seq(A) /\ Len(s) = 1 /\ s[1] = "/"
    <3>1. id[k] \in A
      BY <1>1
    <3>2. s = <<id[k]>>
      BY <1>1
    <3> QED
      BY <1>1, <3>1, <3>2
  <2> HIDE DEF q, s
  <2>4. \A i \in 1..Len(q) : q[i] = s[i]
    BY <1>1, <2>2, <2>3
  <2> QED
    BY <2>2, <2>3, <2>4, SeqEqual DEF q
<1>4. p \o SubSeq(id, k, k) = SubSeq(id, 1, k)
  <2>1. 1 \in 1..(Len(id) + 1) /\ k - 1 \in (1 - 1)..Len(id) /\ k \in (k - 1)..Len(id) /\ k - 1 + 1 = k
    BY <1>1
  <2> QED
    BY <2>1, ConcatAdjacentSubSeq
<1>5. SubSeq(id, 1, k) \o m = SubSeq(id, 1, Len(id))
  <2>1. 1 \in 1..(Len(id) + 1) /\ k \in (1 - 1)..Len(id) /\ Len(id) \in k..Len(id)
    BY <1>1
  <2> QED
    BY <2>1, ConcatAdjacentSubSeq
<1>6. SubSeq(id, 1, Len(id)) = id
  BY SubSeqFull
<1>7. SplitModel(id).provider \o <<"/">> = p \o s
  BY <1>2
<1> HIDE DEF p, m, s
<1> QED
  BY <1>2, <1>3, <1>4, <1>5, <1>6, <1>7

(* The provider of a name is one of those that have it.                    *)
LEMMA ProviderIsNamed ==
  ASSUME NEW id, Named(SplitModel(id).provider) # {}
  PROVE  /\ Min(Named(SplitModel(id).provider)) \in DOMAIN Providers
         /\ ProviderOf(id) \in Range(Providers)
         /\ ProviderOf(id).name = SplitModel(id).provider
<1> DEFINE S == Named(SplitModel(id).provider)
<1>1. S \in SUBSET (Nat \ {0}) /\ S \subseteq DOMAIN Providers
  BY ProvidersAssumption DEF Named
<1>2. Min(S) \in S
  BY <1>1, FirstOfPlaces DEF FirstOf
<1>3. Min(S) \in DOMAIN Providers /\ Providers[Min(S)].name = SplitModel(id).provider
  BY <1>2 DEF Named
<1> QED
  BY <1>3 DEF ProviderOf, Range

(* An id that resolves is listed: the provider it is routed to offers the  *)
(* model under that very id and over the client's protocol (resolve and    *)
(* models_response).                                                       *)
THEOREM ResolvedIsListed ==
  ASSUME NEW A, NEW id \in Seq(A), NEW protocol, Resolves(protocol, id)
  PROVE  /\ <<ProviderOf(id), UpstreamModel(id)>> \in Listed
         /\ Id(ProviderOf(id), UpstreamModel(id)) = id
         /\ ProviderOf(id).protocol = protocol
<1>1. /\ HasForm(id) /\ Named(SplitModel(id).provider) # {}
      /\ SplitModel(id).model \in Range(ProviderOf(id).models)
      /\ ProviderOf(id).protocol = protocol
  BY DEF Resolves, Refusals
<1>2. ProviderOf(id) \in Range(Providers) /\ ProviderOf(id).name = SplitModel(id).provider
  BY <1>1, ProviderIsNamed
<1>3. Id(ProviderOf(id), UpstreamModel(id)) = id
  BY <1>1, <1>2, SplitJoins DEF Id, UpstreamModel
<1>4. <<ProviderOf(id), UpstreamModel(id)>> \in Listed
  BY <1>1, <1>2 DEF Listed, UpstreamModel
<1> QED
  BY <1>1, <1>3, <1>4

(* Three texts in a row, place by place.                                   *)
LEMMA InARow ==
  ASSUME NEW A, NEW n \in Seq(A), NEW s \in Seq(A), NEW m \in Seq(A)
  PROVE  /\ n \o s \o m \in Seq(A) /\ Len(n \o s \o m) = Len(n) + Len(s) + Len(m)
         /\ \A i \in 1..Len(n) : (n \o s \o m)[i] = n[i]
         /\ \A i \in 1..Len(s) : (n \o s \o m)[Len(n) + i] = s[i]
         /\ \A i \in 1..Len(m) : (n \o s \o m)[Len(n) + Len(s) + i] = m[i]
<1> DEFINE u == n \o s
<1>1. /\ u \in Seq(A) /\ Len(u) = Len(n) + Len(s)
      /\ \A i \in 1..Len(n) : u[i] = n[i]
      /\ \A i \in 1..Len(s) : u[Len(n) + i] = s[i]
  BY ConcatPlaces
<1> HIDE DEF u
<1> DEFINE w == u \o m
<1>2. u \in Seq(A)
  BY <1>1
<1>3. /\ w \in Seq(A) /\ Len(w) = Len(u) + Len(m)
      /\ \A i \in 1..Len(u) : w[i] = u[i]
      /\ \A i \in 1..Len(m) : w[Len(u) + i] = m[i]
  BY <1>2, ConcatPlaces
<1> HIDE DEF w
<1>4. \A i \in 1..Len(n) : w[i] = n[i]
  BY <1>1, <1>3
<1>5. \A i \in 1..Len(s) : w[Len(n) + i] = s[i]
  <2>1. \A i \in 1..Len(s) : Len(n) + i \in 1..Len(u)
    BY <1>1
  <2> QED
    BY <1>1, <1>3, <2>1
<1>6. \A i \in 1..Len(m) : w[Len(n) + Len(s) + i] = m[i]
  BY <1>1, <1>3
<1>7. w \in Seq(A) /\ Len(w) = Len(n) + Len(s) + Len(m)
  BY <1>1, <1>3
<1> QED
  BY <1>4, <1>5, <1>6, <1>7 DEF u, w

(* A listed id is split where it was joined, if no slash comes before.     *)
LEMMA JoinSplits ==
  ASSUME NEW A, NEW n \in Seq(A), NEW m \in Seq(A), "/" \in A, n # <<>>, m # <<>>,
         \A i \in DOMAIN n : n[i] # "/"
  PROVE  LET id == n \o <<"/">> \o m
         IN  HasForm(id) /\ SplitModel(id).provider = n /\ SplitModel(id).model = m
<1> DEFINE s == <<"/">>
           id == n \o s \o m
           k == Len(n) + 1
<1>1. s \in Seq(A) /\ Len(s) = 1 /\ s[1] = "/"
  OBVIOUS
<1> HIDE DEF s
<1>a. s \in Seq(A)
  BY <1>1
<1>b. /\ id \in Seq(A) /\ Len(id) = Len(n) + Len(s) + Len(m)
      /\ \A i \in 1..Len(n) : id[i] = n[i]
      /\ \A i \in 1..Len(s) : id[Len(n) + i] = s[i]
      /\ \A i \in 1..Len(m) : id[Len(n) + Len(s) + i] = m[i]
  BY <1>a, InARow
<1> HIDE DEF id
<1>2. /\ id \in Seq(A) /\ Len(id) = Len(n) + 1 + Len(m)
      /\ \A i \in 1..Len(n) : id[i] = n[i]
      /\ id[Len(n) + 1] = s[1]
      /\ \A i \in 1..Len(m) : id[Len(n) + 1 + i] = m[i]
  BY <1>1, <1>b
<1>3. Len(n) \in Nat \ {0} /\ Len(m) \in Nat \ {0} /\ k \in 1..Len(id)
  BY <1>2
<1>4. SlashOf(id) = k
  <2> DEFINE S == {i \in DOMAIN id : id[i] = "/"}
  <2>1. S \in SUBSET (Nat \ {0}) /\ k \in S
    BY <1>1, <1>2, <1>3
  <2>2. ASSUME NEW i \in S PROVE k <= i
    <3>1. i \in 1..Len(id) /\ id[i] = "/"
      BY <1>2
    <3>2. ~(i <= Len(n))
      BY <1>2, <1>3, <3>1
    <3> QED
      BY <1>3, <3>1, <3>2
  <2>3. \A i \in S : k <= i
    BY <2>2
  <2> HIDE DEF S, k
  <2>4. FirstOf(S) = k
    BY <2>1, <2>3, FirstOfIs
  <2> QED
    BY <2>4 DEF SlashOf, S
<1>5. HasForm(id)
  BY <1>2, <1>3, <1>4 DEF HasForm
<1>6. SubSeq(id, 1, k - 1) = n
  <2> DEFINE q == SubSeq(id, 1, k - 1)
  <2>1. \A i \in 1..(k - 1) : id[i] \in A
    BY <1>2, <1>3
  <2>2. q \in Seq(A) /\ Len(q) = Len(n) /\ \A i \in 1..Len(n) : q[i] = id[i]
    <3>1. 1 \in Int /\ k - 1 \in Int /\ k - 1 = Len(n) /\ 1 <= k - 1 /\ k - 1 - 1 + 1 = Len(n)
      BY <1>3
    <3>2. q \in Seq(A) /\ Len(q) = k - 1 - 1 + 1 /\ \A i \in 1..(k - 1 - 1 + 1) : q[i] = id[1 + i - 1]
      BY <2>1, <3>1, SubSeqProperties
    <3>3. \A i \in 1..Len(n) : 1 + i - 1 = i
      OBVIOUS
    <3> QED
      BY <3>1, <3>2, <3>3
  <2> HIDE DEF q
  <2>3. \A i \in 1..Len(q) : q[i] = n[i]
    BY <1>2, <2>2
  <2> QED
    BY <2>2, <2>3, SeqEqual DEF q
<1>7. From(id, k + 1) = m
  <2> DEFINE q == From(id, k + 1)
  <2>1. k + 1 \in 1..(Len(id) + 1) /\ Len(id) - (k + 1) + 1 = Len(m)
    BY <1>2, <1>3
  <2>2. q \in Seq(A) /\ Len(q) = Len(m) /\ \A i \in 1..Len(m) : q[i] = id[k + 1 + i - 1]
    <3> DEFINE j == k + 1
    <3>1. id \in Seq(A) /\ j \in 1..(Len(id) + 1) /\ Len(id) - j + 1 = Len(m)
      BY <1>2, <2>1
    <3> HIDE DEF j, k
    <3>2. /\ From(id, j) \in Seq(A) /\ Len(From(id, j)) = Len(id) - j + 1
          /\ \A i \in 1..(Len(id) - j + 1) : From(id, j)[i] = id[j + i - 1]
      BY <3>1, FromRest
    <3> QED
      BY <3>1, <3>2 DEF j
  <2>3. \A i \in 1..Len(m) : k + 1 + i - 1 = Len(n) + 1 + i
    BY <1>3
  <2> HIDE DEF q
  <2>4. \A i \in 1..Len(q) : q[i] = m[i]
    BY <1>2, <2>2, <2>3
  <2> QED
    BY <2>2, <2>4, SeqEqual DEF q
<1>8. HasForm(id) /\ SplitModel(id).provider = n /\ SplitModel(id).model = m
  BY <1>4, <1>5, <1>6, <1>7 DEF SplitModel
<1> QED
  BY <1>8 DEF id, s

(* In a valid configuration the provider of a name is the one that has it. *)
LEMMA NameIsProviders ==
  ASSUME NEW p \in Range(Providers)
  PROVE  Named(p.name) # {} /\ Providers[Min(Named(p.name))] = p
<1>1. PICK j \in DOMAIN Providers : Providers[j] = p
  BY DEF Range
<1>2. \A i \in DOMAIN Providers : Providers[i].name = p.name => i = j
  BY <1>1, ValidAssumption DEF Valid
<1>3. Named(p.name) = {j}
  BY <1>1, <1>2 DEF Named
<1>4. j \in Nat /\ Min({j}) = j
  <2>1. j \in Nat \ {0}
    BY ProvidersAssumption
  <2>2. {j} \in SUBSET (Nat \ {0}) /\ {j} # {}
    BY <2>1
  <2>3. FirstOf({j}) \in {j}
    BY <2>2, FirstOfPlaces
  <2> QED
    BY <2>1, <2>3 DEF FirstOf
<1> QED
  BY <1>1, <1>3, <1>4

(* What the list of models offers is served: a listed id is resolved, over *)
(* the protocol of its provider, to that provider and that model, whatever *)
(* slashes the model's name holds, if the provider's name holds none.      *)
THEOREM ListedIsResolved ==
  ASSUME NEW p \in Range(Providers), NEW m \in Range(p.models),
         \A i \in DOMAIN p.name : p.name[i] # "/"
  PROVE  /\ Resolves(p.protocol, Id(p, m))
         /\ ProviderOf(Id(p, m)) = p /\ UpstreamModel(Id(p, m)) = m
<1> DEFINE A == STRING \cup {"/"}
           n == p.name
           id == Id(p, m)
<1>1. n \in Seq(STRING) /\ p.models \in Seq(Seq(STRING)) /\ n # <<>> /\ m # <<>>
  <2>1. p \in ProviderType
    BY ProvidersAssumption DEF Range
  <2> QED
    BY <2>1, ValidAssumption DEF ProviderType, Valid
<1>2. m \in Seq(STRING)
  BY <1>1 DEF Range
<1>3. n \in Seq(A) /\ m \in Seq(A) /\ "/" \in A
  <2>1. STRING \subseteq A
    OBVIOUS
  <2> QED
    BY <1>1, <1>2, <2>1, SeqMonotonic
<1>4. HasForm(id) /\ SplitModel(id).provider = n /\ SplitModel(id).model = m
  <2> HIDE DEF A
  <2> QED
    BY <1>1, <1>3, JoinSplits DEF Id
<1> HIDE DEF id
<1>5. Named(n) # {} /\ ProviderOf(id) = p
  BY <1>4, NameIsProviders DEF ProviderOf
<1>6. Refusals(p.protocol, id) = {}
  BY <1>4, <1>5 DEF Refusals
<1> QED
  BY <1>4, <1>5, <1>6 DEF Resolves, UpstreamModel, id

-----------------------------------------------------------------------------
(* Redaction: str::replace, place by place.                                *)
At(w, t, i) == i + Len(w) - 1 <= Len(t) /\ \A k \in 1..Len(w) : t[i + k - 1] = w[k]

(* A text occurs at a place when its atoms are there.                      *)
LEMMA OccursByPlaces ==
  ASSUME NEW A, NEW w \in Seq(A), NEW t \in Seq(A), NEW i \in Nat \ {0}
  PROVE  OccursAt(w, t, i) <=> At(w, t, i)
<1> DEFINE n == i + Len(w) - 1
           s == SubSeq(t, i, n)
<1>1. CASE n <= Len(t)
  <2>1. \A j \in i..n : t[j] \in A
    BY <1>1
  <2>2. i \in Int /\ n \in Int /\ n - i + 1 = Len(w) /\ Len(w) \in Nat
    OBVIOUS
  <2>3. s \in Seq(A) /\ Len(s) = Len(w) /\ \A k \in 1..Len(w) : s[k] = t[i + k - 1]
    <3>1. CASE i <= n
      BY <2>1, <2>2, <3>1, SubSeqProperties
    <3>2. CASE i > n
      <4>1. s = <<>> /\ Len(w) = 0
        BY <2>2, <3>2, SubSeqProperties
      <4> QED
        BY <4>1
    <3> QED
      BY <2>2, <3>1, <3>2
  <2> HIDE DEF s
  <2>4. s = w <=> \A k \in 1..Len(w) : s[k] = w[k]
    BY <2>3, SeqEqual
  <2>5. OccursAt(w, t, i) <=> s = w
    BY <1>1 DEF OccursAt, s
  <2>6. At(w, t, i) <=> \A k \in 1..Len(w) : t[i + k - 1] = w[k]
    BY <1>1 DEF At
  <2> QED
    BY <2>3, <2>4, <2>5, <2>6
<1>2. CASE ~(n <= Len(t))
  BY <1>2 DEF OccursAt, At
<1> QED
  BY <1>1, <1>2

(* What Redact defines by recursion, f being the text from each place on.  *)
RedactFrom(t, token, i, f) ==
  IF i > Len(t) THEN <<>>
  ELSE IF OccursAt(token, t, i) THEN <<Redacted>> \o f[i + Len(token)]
  ELSE <<t[i]>> \o f[i + 1]
Redacts(t, token, f) == \A i \in 1..(Len(t) + 1) : f[i] = RedactFrom(t, token, i, f)
Runs(A, t, token, f) ==
  /\ t \in Seq(A) /\ token \in Seq(A) /\ token # <<>>
  /\ f \in [1..(Len(t) + 1) -> Seq(A)] /\ Redacts(t, token, f)

(* It is defined: there is such a function, with texts as its values.      *)
LEMMA RedactUnfolds ==
  ASSUME NEW A, Redacted \in A, NEW t \in Seq(A), NEW token \in Seq(A), token # <<>>
  PROVE  \E f : Runs(A, t, token, f) /\ Redact(t, token) = f[1]
<1> DEFINE n == Len(t)
           D == 1..(n + 1)
           V == Seq(A)
           rank == [i \in D |-> n + 1 - i]
           N == n + 1
           e == [x \in [D -> V] \X D |-> RedactFrom(t, token, x[2], x[1])]
<1>1. n \in Nat /\ Len(token) \in Nat \ {0} /\ \A i \in 1..n : t[i] \in A
  OBVIOUS
<1>2. ASSUME NEW i \in D, i <= n
      PROVE  i + 1 \in D /\ (OccursAt(token, t, i) => i + Len(token) \in D)
  BY <1>1, <1>2 DEF OccursAt
<1>3. ASSUME NEW f \in [D -> V], NEW i \in D
      PROVE  RedactFrom(t, token, i, f) \in V
  <2>1. CASE i > n
    <3>1. <<>> \in V
      OBVIOUS
    <3> QED
      BY <2>1, <3>1 DEF RedactFrom
  <2>2. CASE i <= n
    <3>1. ASSUME NEW a \in A, NEW r \in V PROVE <<a>> \o r \in V
      OBVIOUS
    <3>2. f[i + 1] \in V /\ t[i] \in A /\ (OccursAt(token, t, i) => f[i + Len(token)] \in V)
      <4>1. i \in 1..n /\ \A j \in D : f[j] \in V
        BY <1>1, <2>2
      <4> HIDE DEF D, V
      <4> QED
        BY <1>1, <1>2, <2>2, <4>1
    <3>3. CASE OccursAt(token, t, i)
      <4> DEFINE r == f[i + Len(token)]
      <4>1. r \in V /\ RedactFrom(t, token, i, f) = <<Redacted>> \o r
        BY <1>1, <2>2, <3>2, <3>3 DEF RedactFrom
      <4> HIDE DEF r, V
      <4> QED
        BY <3>1, <4>1
    <3>4. CASE ~OccursAt(token, t, i)
      <4> DEFINE r == f[i + 1]
                 a == t[i]
      <4>1. a \in A /\ r \in V /\ RedactFrom(t, token, i, f) = <<a>> \o r
        BY <1>1, <2>2, <3>2, <3>4 DEF RedactFrom
      <4> HIDE DEF r, a, V
      <4> QED
        BY <3>1, <4>1
    <3> QED
      BY <3>3, <3>4
  <2> QED
    BY <1>1, <2>1, <2>2
<1>4. ASSUME NEW f \in [D -> V], NEW i \in D PROVE e[<<f, i>>] = RedactFrom(t, token, i, f)
  OBVIOUS
<1>5. e \in [[D -> V] \X D -> V]
  <2>1. ASSUME NEW x \in [D -> V] \X D PROVE e[x] \in V
    <3>1. x = <<x[1], x[2]>> /\ x[1] \in [D -> V] /\ x[2] \in D
      OBVIOUS
    <3>2. e[x] = RedactFrom(t, token, x[2], x[1])
      OBVIOUS
    <3> HIDE DEF e, D, V
    <3> QED
      BY <1>3, <3>1, <3>2
  <2> QED
    BY <2>1
<1>6. \A f \in [D -> V], g \in [D -> V], i \in D :
        (\A j \in D : rank[j] < rank[i] => f[j] = g[j]) => e[<<f, i>>] = e[<<g, i>>]
  <2> SUFFICES ASSUME NEW f \in [D -> V], NEW g \in [D -> V], NEW i \in D,
                      \A j \in D : rank[j] < rank[i] => f[j] = g[j]
               PROVE  e[<<f, i>>] = e[<<g, i>>]
    OBVIOUS
  <2>1. i <= n => f[i + 1] = g[i + 1] /\ (OccursAt(token, t, i) => f[i + Len(token)] = g[i + Len(token)])
    <3>1. ASSUME NEW j \in D, j > i PROVE f[j] = g[j]
      BY <1>1, <3>1
    <3> QED
      BY <1>1, <1>2, <3>1
  <2>2. RedactFrom(t, token, i, f) = RedactFrom(t, token, i, g)
    BY <1>1, <2>1 DEF RedactFrom
  <2> HIDE DEF e
  <2> QED
    BY <1>4, <2>2
<1>7. rank \in [D -> Nat] /\ \A i \in D : rank[i] < N
  BY <1>1
<1> HIDE DEF e
<1>8. PICK g \in [D -> V] : \A i \in D : g[i] = e[<<g, i>>]
  <2>1. V # {} /\ N \in Nat
    <3>1. <<>> \in V
      OBVIOUS
    <3>2. N \in Nat
      BY <1>1
    <3> HIDE DEF V
    <3> QED
      BY <3>1, <3>2
  <2>2. e \in [[D -> V] \X D -> V] /\ rank \in [D -> Nat] /\ \A i \in D : rank[i] < N
    BY <1>5, <1>7
  <2>3. \A f \in [D -> V], g \in [D -> V], i \in D :
          (\A j \in D : rank[j] < rank[i] => f[j] = g[j]) => e[<<f, i>>] = e[<<g, i>>]
    BY <1>6
  <2> HIDE DEF D, V, N, rank
  <2>4. Recursive(D, V, rank, N, e)
    BY <2>1, <2>2, <2>3 DEF Recursive
  <2>5. Solvable(D, V, e)
    BY <2>4, Recursion
  <2> QED
    BY <2>5 DEF Solvable, Solution
<1>9. \A i \in D : g[i] = RedactFrom(t, token, i, g)
  BY <1>4, <1>8
<1> DEFINE Def(f) == f = [i \in D |-> IF i > Len(t) THEN <<>>
                                      ELSE IF OccursAt(token, t, i) THEN <<Redacted>> \o f[i + Len(token)]
                                      ELSE <<t[i]>> \o f[i + 1]]
<1>10. Def(g)
  BY <1>8, <1>9 DEF RedactFrom
<1>11. PICK f : Def(f) /\ Redact(t, token) = f[1]
  BY <1>10 DEF Redact
<1>12. \A i \in D : f[i] = RedactFrom(t, token, i, f)
  BY <1>11 DEF RedactFrom
<1>13. f = [i \in D |-> f[i]]
  BY <1>11
<1> HIDE DEF Def
<1> DEFINE S == {i \in D : f[i] \in V}
<1>14. ASSUME NEW i \in D, \A j \in D : rank[j] < rank[i] => j \in S PROVE i \in S
  <2> DEFINE h == [j \in D |-> IF j \in S THEN f[j] ELSE <<>>]
  <2>1. h \in [D -> V]
    <3>1. <<>> \in V
      OBVIOUS
    <3> QED
      BY <3>1
  <2>2. i <= n => h[i + 1] = f[i + 1] /\ (OccursAt(token, t, i) => h[i + Len(token)] = f[i + Len(token)])
    <3>1. ASSUME NEW j \in D, j > i PROVE h[j] = f[j]
      <4>1. rank[j] < rank[i]
        BY <1>1, <3>1
      <4> QED
        BY <1>14, <4>1
    <3> QED
      BY <1>1, <1>2, <3>1
  <2> HIDE DEF h, S
  <2>3. RedactFrom(t, token, i, f) = RedactFrom(t, token, i, h)
    BY <1>1, <2>2 DEF RedactFrom
  <2>4. f[i] \in V
    BY <1>3, <1>12, <2>1, <2>3
  <2> QED
    BY <2>4 DEF S
<1> HIDE DEF S, rank, D, V
<1>15. rank \in [D -> Nat]
  BY <1>7
<1>16. \A i \in D : (\A j \in D : rank[j] < rank[i] => j \in S) => i \in S
  BY <1>14
<1>17. D \subseteq S
  BY <1>15, <1>16, RankInduction
<1>18. \A i \in D : f[i] \in V
  BY <1>17 DEF S
<1>19. f \in [D -> V]
  BY <1>13, <1>18
<1> QED
  BY <1>11, <1>12, <1>19 DEF D, V, Runs, Redacts

(* One step of it, from a place to where it goes on.                       *)
Leads(t, token, f, i, j) ==
  /\ \/ At(token, t, i) /\ j = i + Len(token) /\ f[i][1] = Redacted
     \/ ~At(token, t, i) /\ j = i + 1 /\ f[i][1] = t[i]
  /\ Len(f[i]) = Len(f[j]) + 1 /\ \A k \in 1..Len(f[j]) : f[i][k + 1] = f[j][k]

(* Every place goes on to a later one.                                     *)
LEMMA RunsStep ==
  ASSUME NEW A, Redacted \in A, NEW t, NEW token, NEW f, Runs(A, t, token, f)
  PROVE  /\ f[Len(t) + 1] = <<>>
         /\ \A i \in 1..Len(t) : \E j \in (i + 1)..(Len(t) + 1) : Leads(t, token, f, i, j)
<1>1. /\ t \in Seq(A) /\ token \in Seq(A) /\ Len(token) \in Nat \ {0} /\ Len(t) \in Nat
      /\ \A i \in 1..(Len(t) + 1) : f[i] \in Seq(A) /\ f[i] = RedactFrom(t, token, i, f)
  BY DEF Runs, Redacts
<1>2. f[Len(t) + 1] = <<>>
  <2>1. Len(t) + 1 \in 1..(Len(t) + 1) /\ Len(t) + 1 > Len(t)
    BY <1>1
  <2>2. RedactFrom(t, token, Len(t) + 1, f) = <<>>
    BY <2>1 DEF RedactFrom
  <2> QED
    BY <1>1, <2>1, <2>2
<1>3. ASSUME NEW i \in 1..Len(t)
      PROVE  \E j \in (i + 1)..(Len(t) + 1) : Leads(t, token, f, i, j)
  <2>1. OccursAt(token, t, i) <=> At(token, t, i)
    BY <1>1, OccursByPlaces
  <2>2. ASSUME NEW a \in A, NEW r \in Seq(A), NEW s, s = <<a>> \o r
        PROVE  s[1] = a /\ Len(s) = Len(r) + 1 /\ \A k \in 1..Len(r) : s[k + 1] = r[k]
    BY <2>2
  <2>3. ~(i > Len(t)) /\ i \in 1..(Len(t) + 1) /\ f[i] = RedactFrom(t, token, i, f) /\ t[i] \in A
    BY <1>1
  <2>4. CASE At(token, t, i)
    <3> DEFINE j == i + Len(token)
    <3>1. j \in (i + 1)..(Len(t) + 1)
      BY <1>1, <2>4 DEF At
    <3>2. f[i] = <<Redacted>> \o f[j]
      BY <2>1, <2>3, <2>4 DEF RedactFrom
    <3>3. f[j] \in Seq(A)
      BY <1>1, <3>1
    <3>4. f[i][1] = Redacted /\ Len(f[i]) = Len(f[j]) + 1 /\ \A k \in 1..Len(f[j]) : f[i][k + 1] = f[j][k]
      BY <2>2, <3>2, <3>3
    <3> QED
      BY <2>4, <3>1, <3>4 DEF Leads
  <2>5. CASE ~At(token, t, i)
    <3> DEFINE j == i + 1
    <3>1. j \in (i + 1)..(Len(t) + 1)
      BY <1>1
    <3>2. f[i] = <<t[i]>> \o f[j]
      BY <2>1, <2>3, <2>5 DEF RedactFrom
    <3>3. f[j] \in Seq(A)
      BY <1>1, <3>1
    <3>4. f[i][1] = t[i] /\ Len(f[i]) = Len(f[j]) + 1 /\ \A k \in 1..Len(f[j]) : f[i][k + 1] = f[j][k]
      BY <2>2, <2>3, <3>2, <3>3
    <3> QED
      BY <2>5, <3>1, <3>4 DEF Leads
  <2> QED
    BY <2>4, <2>5
<1> QED
  BY <1>2, <1>3

(* A stretch with none of what was put in.                                 *)
Clean(s, k, m) == \A l \in k..(k + m - 1) : s[l] # Redacted

(* Where the rest of the redacted text has none of what was put in, it is  *)
(* the rest of the text, as far as that goes.                              *)
LEMMA RestBegins ==
  ASSUME NEW A, Redacted \in A, NEW t, NEW token, NEW f, Runs(A, t, token, f)
  PROVE  \A i \in 1..(Len(t) + 1) : \A m \in 0..Len(f[i]) :
           Clean(f[i], 1, m) =>
             /\ i + m - 1 <= Len(t) /\ \A k \in 1..m : t[i + k - 1] = f[i][k]
             /\ m = Len(f[i]) => i + m - 1 = Len(t)
<1> DEFINE D == 1..(Len(t) + 1)
           rank == [i \in D |-> Len(t) + 1 - i]
           Begins(i, m) == /\ i + m - 1 <= Len(t) /\ \A k \in 1..m : t[i + k - 1] = f[i][k]
                           /\ m = Len(f[i]) => i + m - 1 = Len(t)
           S == {i \in D : \A m \in 0..Len(f[i]) : Clean(f[i], 1, m) => Begins(i, m)}
<1>1. Len(t) \in Nat /\ \A i \in D : Len(f[i]) \in Nat
  BY DEF Runs
<1>2. ASSUME NEW i \in D, \A j \in D : rank[j] < rank[i] => j \in S
      PROVE  i \in S
  <2> SUFFICES ASSUME NEW m \in 0..Len(f[i]), Clean(f[i], 1, m) PROVE Begins(i, m)
    OBVIOUS
  <2>1. CASE i = Len(t) + 1
    <3>1. f[i] = <<>>
      BY <2>1, RunsStep
    <3>2. Len(f[i]) = 0 /\ m = 0
      BY <3>1
    <3> QED
      BY <1>1, <2>1, <3>2
  <2>2. CASE i \in 1..Len(t)
    <3>0. PICK j \in (i + 1)..(Len(t) + 1) : Leads(t, token, f, i, j)
      BY <2>2, RunsStep
    <3>1. /\ f[i][1] = Redacted \/ (j = i + 1 /\ f[i][1] = t[i])
          /\ Len(f[i]) = Len(f[j]) + 1 /\ \A k \in 1..Len(f[j]) : f[i][k + 1] = f[j][k]
      BY <3>0 DEF Leads
    <3>2. CASE m = 0
      BY <1>1, <2>2, <3>1, <3>2
    <3>3. CASE m # 0
      <4>1. 1 \in 1..(1 + m - 1)
        BY <1>1, <3>3
      <4>2. j = i + 1 /\ f[i][1] = t[i]
        BY <3>1, <4>1 DEF Clean
      <4>3. j \in D /\ rank[j] < rank[i] /\ m - 1 \in 0..Len(f[j])
        BY <1>1, <2>2, <3>1, <3>3, <4>2
      <4>4. Clean(f[j], 1, m - 1)
        <5>1. ASSUME NEW l \in 1..(1 + (m - 1) - 1) PROVE f[j][l] # Redacted
          <6>1. l \in 1..Len(f[j]) /\ l + 1 \in 1..(1 + m - 1)
            BY <1>1, <3>3, <4>3
          <6> QED
            BY <3>1, <6>1 DEF Clean
        <5> QED
          BY <5>1 DEF Clean
      <4>5. Begins(j, m - 1)
        BY <1>2, <4>3, <4>4
      <4>6. ASSUME NEW k \in 1..m PROVE t[i + k - 1] = f[i][k]
        <5>1. CASE k = 1
          BY <1>1, <2>2, <4>2, <5>1
        <5>2. CASE k # 1
          <6>1. k - 1 \in 1..(m - 1) /\ k - 1 \in 1..Len(f[j]) /\ (k - 1) + 1 = k /\ j + (k - 1) - 1 = i + k - 1
            BY <1>1, <4>2, <4>3, <5>2
          <6>2. t[j + (k - 1) - 1] = f[j][k - 1]
            BY <4>5, <6>1
          <6>3. f[i][(k - 1) + 1] = f[j][k - 1]
            BY <3>1, <6>1
          <6> QED
            BY <6>1, <6>2, <6>3
        <5> QED
          BY <5>1, <5>2
      <4>7. i + m - 1 <= Len(t) /\ (m = Len(f[i]) => i + m - 1 = Len(t))
        BY <1>1, <3>1, <3>3, <4>2, <4>3, <4>5
      <4> QED
        BY <4>6, <4>7
    <3> QED
      BY <3>2, <3>3
  <2> QED
    BY <1>1, <2>1, <2>2
<1>3. rank \in [D -> Nat]
  BY <1>1
<1>4. \A i \in D : (\A j \in D : rank[j] < rank[i] => j \in S) => i \in S
  BY <1>2
<1> HIDE DEF rank, D, S
<1>5. D \subseteq S
  BY <1>3, <1>4, RankInduction
<1> QED
  BY <1>5 DEF D, S

(* A stretch of a text is one of another, and its end if it is the end.    *)
OldAt(t, r, k, m, j) ==
  /\ j + m - 1 <= Len(t) /\ \A l \in 1..m : t[j + l - 1] = r[k + l - 1]
  /\ k + m - 1 = Len(r) => j + m - 1 = Len(t)

(* So is every stretch of the redacted text with none of what was put in.  *)
LEMMA StretchesAreOld ==
  ASSUME NEW A, Redacted \in A, NEW t, NEW token, NEW f, Runs(A, t, token, f)
  PROVE  \A i \in 1..(Len(t) + 1) : \A k \in 1..Len(f[i]), m \in 1..Len(f[i]) :
           k + m - 1 <= Len(f[i]) /\ Clean(f[i], k, m) => \E j \in i..Len(t) : OldAt(t, f[i], k, m, j)
<1> DEFINE D == 1..(Len(t) + 1)
           rank == [i \in D |-> Len(t) + 1 - i]
           Old(i, k, m, j) == OldAt(t, f[i], k, m, j)
           S == {i \in D : \A k \in 1..Len(f[i]), m \in 1..Len(f[i]) :
                    k + m - 1 <= Len(f[i]) /\ Clean(f[i], k, m) => \E j \in i..Len(t) : Old(i, k, m, j)}
<1>1. Len(t) \in Nat /\ \A i \in D : Len(f[i]) \in Nat
  BY DEF Runs
<1>2. ASSUME NEW i \in D, \A j \in D : rank[j] < rank[i] => j \in S
      PROVE  i \in S
  <2> SUFFICES ASSUME NEW k \in 1..Len(f[i]), NEW m \in 1..Len(f[i]),
                      k + m - 1 <= Len(f[i]), Clean(f[i], k, m)
               PROVE  \E j \in i..Len(t) : Old(i, k, m, j)
    OBVIOUS
  <2>0. k \in Nat /\ m \in Nat /\ k >= 1 /\ m >= 1
    BY <1>1
  <2>1. i \in 1..Len(t)
    <3>1. CASE i = Len(t) + 1
      <4>1. f[i] = <<>>
        BY <3>1, RunsStep
      <4>2. Len(f[i]) = 0
        BY <4>1
      <4> QED
        BY <4>2
    <3> QED
      BY <1>1, <3>1
  <2>2. CASE k = 1
    <3>1. m \in 0..Len(f[i]) /\ Clean(f[i], 1, m)
      BY <1>1, <2>2
    <3>2. /\ i + m - 1 <= Len(t) /\ \A l \in 1..m : t[i + l - 1] = f[i][l]
          /\ m = Len(f[i]) => i + m - 1 = Len(t)
      BY <3>1, RestBegins
    <3>3. \A l \in 1..m : k + l - 1 = l
      BY <2>2
    <3>4. Old(i, k, m, i)
      BY <1>1, <2>2, <3>2, <3>3 DEF OldAt
    <3>5. i \in i..Len(t)
      BY <1>1, <2>1
    <3> QED
      BY <3>4, <3>5
  <2>3. CASE k # 1
    <3>0. PICK h \in (i + 1)..(Len(t) + 1) : Leads(t, token, f, i, h)
      BY <2>1, RunsStep
    <3>1. Len(f[i]) = Len(f[h]) + 1 /\ \A x \in 1..Len(f[h]) : f[i][x + 1] = f[h][x]
      BY <3>0 DEF Leads
    <3>2. h \in D /\ rank[h] < rank[i] /\ Len(f[h]) \in Nat
      BY <1>1, <2>1, <3>1
    <3>3. k - 1 \in 1..Len(f[h]) /\ m \in 1..Len(f[h]) /\ (k - 1) + m - 1 <= Len(f[h])
      BY <2>0, <2>3, <3>1, <3>2
    <3>4. Clean(f[h], k - 1, m)
      <4>1. ASSUME NEW l \in (k - 1)..((k - 1) + m - 1) PROVE f[h][l] # Redacted
        <5>1. l \in 1..Len(f[h]) /\ l + 1 \in k..(k + m - 1)
          BY <2>0, <3>2, <3>3
        <5> QED
          BY <3>1, <5>1 DEF Clean
      <4> QED
        BY <4>1 DEF Clean
    <3>5. PICK j \in h..Len(t) : Old(h, k - 1, m, j)
      BY <1>2, <3>2, <3>3, <3>4
    <3>6. ASSUME NEW l \in 1..m PROVE t[j + l - 1] = f[i][k + l - 1]
      <4>1. (k - 1) + l - 1 \in 1..Len(f[h]) /\ ((k - 1) + l - 1) + 1 = k + l - 1
        BY <2>0, <3>2, <3>3
      <4>2. f[i][((k - 1) + l - 1) + 1] = f[h][(k - 1) + l - 1]
        BY <3>1, <4>1
      <4> QED
        BY <3>5, <4>1, <4>2 DEF OldAt
    <3>7. k + m - 1 = Len(f[i]) => j + m - 1 = Len(t)
      BY <2>0, <3>1, <3>2, <3>5 DEF OldAt
    <3>8. j \in i..Len(t) /\ Old(i, k, m, j)
      BY <1>1, <2>1, <3>1, <3>5, <3>6, <3>7 DEF OldAt
    <3> QED
      BY <3>8
  <2> QED
    BY <2>2, <2>3
<1>3. rank \in [D -> Nat]
  BY <1>1
<1>4. \A i \in D : (\A j \in D : rank[j] < rank[i] => j \in S) => i \in S
  BY <1>2
<1> HIDE DEF rank, D, S
<1>5. D \subseteq S
  BY <1>3, <1>4, RankInduction
<1> QED
  BY <1>5 DEF D, S

(* Nowhere in the redacted text does the token occur any more.             *)
LEMMA TokenGone ==
  ASSUME NEW A, Redacted \in A, NEW t, NEW token, NEW f, Runs(A, t, token, f),
         \A l \in 1..Len(token) : token[l] # Redacted
  PROVE  \A i \in 1..(Len(t) + 1) : \A k \in 1..Len(f[i]) : ~At(token, f[i], k)
<1> DEFINE D == 1..(Len(t) + 1)
           rank == [i \in D |-> Len(t) + 1 - i]
           S == {i \in D : \A k \in 1..Len(f[i]) : ~At(token, f[i], k)}
<1>1. Len(t) \in Nat /\ Len(token) \in Nat \ {0} /\ \A i \in D : Len(f[i]) \in Nat
  BY DEF Runs
<1>2. ASSUME NEW i \in D, \A j \in D : rank[j] < rank[i] => j \in S
      PROVE  i \in S
  <2> SUFFICES ASSUME NEW k \in 1..Len(f[i]), At(token, f[i], k) PROVE FALSE
    OBVIOUS
  <2>1. i \in 1..Len(t)
    <3>1. CASE i = Len(t) + 1
      <4>1. f[i] = <<>>
        BY <3>1, RunsStep
      <4>2. Len(f[i]) = 0
        BY <4>1
      <4> QED
        BY <4>2
    <3> QED
      BY <1>1, <3>1
  <2>a. PICK h \in (i + 1)..(Len(t) + 1) : Leads(t, token, f, i, h)
    BY <2>1, RunsStep
  <2>2. /\ At(token, t, i) => f[i][1] = Redacted
        /\ Len(f[i]) = Len(f[h]) + 1 /\ \A x \in 1..Len(f[h]) : f[i][x + 1] = f[h][x]
    BY <2>a DEF Leads
  <2>3. CASE k = 1
    <3>1. Len(token) \in 0..Len(f[i]) /\ \A x \in 1..Len(token) : f[i][x] = token[x]
      BY <1>1, <2>3 DEF At
    <3>2. Clean(f[i], 1, Len(token))
      BY <1>1, <3>1 DEF Clean
    <3>3. i + Len(token) - 1 <= Len(t) /\ \A x \in 1..Len(token) : t[i + x - 1] = f[i][x]
      BY <3>1, <3>2, RestBegins
    <3>4. At(token, t, i)
      BY <3>1, <3>3 DEF At
    <3>5. f[i][1] = Redacted /\ 1 \in 1..Len(token)
      BY <1>1, <2>2, <3>4
    <3> QED
      BY <3>1, <3>5
  <2>4. CASE k # 1
    <3>1. h \in D /\ rank[h] < rank[i] /\ k - 1 \in 1..Len(f[h])
      BY <1>1, <2>1, <2>2, <2>4
    <3>2. ASSUME NEW x \in 1..Len(token) PROVE f[h][(k - 1) + x - 1] = token[x]
      <4>1. (k - 1) + x - 1 \in 1..Len(f[h]) /\ ((k - 1) + x - 1) + 1 = k + x - 1
        BY <1>1, <2>2, <2>4, <3>1 DEF At
      <4>2. f[i][((k - 1) + x - 1) + 1] = f[h][(k - 1) + x - 1]
        BY <2>2, <4>1
      <4> QED
        BY <4>1, <4>2 DEF At
    <3>3. At(token, f[h], k - 1)
      BY <1>1, <2>2, <3>1, <3>2 DEF At
    <3> QED
      BY <1>2, <3>1, <3>3
  <2> QED
    BY <2>3, <2>4
<1>3. rank \in [D -> Nat]
  BY <1>1
<1>4. \A i \in D : (\A j \in D : rank[j] < rank[i] => j \in S) => i \in S
  BY <1>2
<1> HIDE DEF rank, D, S
<1>5. D \subseteq S
  BY <1>3, <1>4, RankInduction
<1> QED
  BY <1>5 DEF D, S

-----------------------------------------------------------------------------
(* The redacted text, without its recursion.                               *)
LEMMA RedactType ==
  ASSUME NEW A, Redacted \in A, NEW t \in Seq(A), NEW token \in Seq(A), token # <<>>
  PROVE  Redact(t, token) \in Seq(A)
<1>1. PICK f : Runs(A, t, token, f) /\ Redact(t, token) = f[1]
  BY RedactUnfolds
<1>2. 1 \in 1..(Len(t) + 1)
  OBVIOUS
<1> QED
  BY <1>1, <1>2 DEF Runs

(* Two texts that begin or end alike, and what was not put in.             *)
SameStart(p, t, r) == p <= Len(t) /\ \A l \in 1..p : t[l] = r[l]
SameEnd(p, t, r) == p <= Len(t) /\ \A l \in 1..p : t[Len(t) - p + l] = r[Len(r) - p + l]
CleanStart(p, r) == \A l \in 1..p : r[l] # Redacted
CleanEnd(p, r) == \A l \in 1..p : r[Len(r) - p + l] # Redacted

(* The redacted text begins and ends as the text, up to what was put in.   *)
LEMMA EndsAreOld ==
  ASSUME NEW A, Redacted \in A, NEW t \in Seq(A), NEW token \in Seq(A), token # <<>>,
         NEW r, r = Redact(t, token), NEW p \in 0..Len(r)
  PROVE  (CleanStart(p, r) => SameStart(p, t, r)) /\ (CleanEnd(p, r) => SameEnd(p, t, r))
<1>1. PICK f : Runs(A, t, token, f) /\ r = f[1]
  BY RedactUnfolds
<1>2. r \in Seq(A) /\ Len(r) \in Nat /\ Len(t) \in Nat /\ 1 \in 1..(Len(t) + 1) /\ p \in 0..Len(r)
  BY RedactType
<1>3. ASSUME \A l \in 1..p : r[l] # Redacted
      PROVE  p <= Len(t) /\ \A l \in 1..p : t[l] = r[l]
  <2>1. Clean(f[1], 1, p) /\ p \in 0..Len(f[1])
    BY <1>1, <1>2, <1>3 DEF Clean
  <2>2. 1 + p - 1 <= Len(t) /\ \A l \in 1..p : t[1 + l - 1] = f[1][l]
    BY <1>1, <1>2, <2>1, RestBegins
  <2>3. \A l \in 1..p : 1 + l - 1 = l
    BY <1>2
  <2> QED
    BY <1>1, <1>2, <2>2, <2>3
<1>4. ASSUME \A l \in 1..p : r[Len(r) - p + l] # Redacted
      PROVE  p <= Len(t) /\ \A l \in 1..p : t[Len(t) - p + l] = r[Len(r) - p + l]
  <2>1. CASE p = 0
    BY <1>2, <2>1
  <2>2. CASE p # 0
    <3> DEFINE k == Len(r) - p + 1
    <3>1. k \in 1..Len(r) /\ p \in 1..Len(r) /\ k + p - 1 = Len(r)
      BY <1>2, <2>2
    <3>2. Clean(r, k, p)
      <4>1. ASSUME NEW l \in k..(k + p - 1) PROVE r[l] # Redacted
        <5>1. l - (Len(r) - p) \in 1..p /\ Len(r) - p + (l - (Len(r) - p)) = l
          BY <1>2, <3>1
        <5> QED
          BY <1>4, <5>1
      <4> QED
        BY <4>1 DEF Clean
    <3> HIDE DEF k
    <3>3. PICK j \in 1..Len(t) : OldAt(t, r, k, p, j)
      <4>1. k + p - 1 <= Len(f[1]) /\ k \in 1..Len(f[1]) /\ p \in 1..Len(f[1]) /\ Clean(f[1], k, p)
        BY <1>1, <1>2, <3>1, <3>2
      <4> QED
        BY <1>1, <1>2, <4>1, StretchesAreOld
    <3>4. j = Len(t) - p + 1 /\ p <= Len(t)
      BY <1>2, <3>1, <3>3 DEF OldAt
    <3>5. \A l \in 1..p : j + l - 1 = Len(t) - p + l /\ k + l - 1 = Len(r) - p + l
      BY <1>2, <3>1, <3>4
    <3> QED
      BY <3>3, <3>4, <3>5 DEF OldAt
  <2> QED
    BY <2>1, <2>2
<1> QED
  BY <1>3, <1>4 DEF CleanStart, CleanEnd, SameStart, SameEnd

(* A text that occurs.                                                     *)
LEMMA MentionsByPlaces ==
  ASSUME NEW A, NEW w \in Seq(A), NEW t \in Seq(A)
  PROVE  Mentions(t, w) <=> \E i \in 1..Len(t) : At(w, t, i)
<1>1. DOMAIN t = 1..Len(t)
  OBVIOUS
<1>2. \A i \in 1..Len(t) : OccursAt(w, t, i) <=> At(w, t, i)
  BY OccursByPlaces
<1> QED
  BY <1>1, <1>2 DEF Mentions

(* The token is gone, and no text occurs that did not before.              *)
LEMMA RedactCleans ==
  ASSUME NEW A, Redacted \in A, NEW t \in Seq(A), NEW token \in Seq(A), token # <<>>
  PROVE  /\ (\A l \in 1..Len(token) : token[l] # Redacted) => ~Mentions(Redact(t, token), token)
         /\ \A u \in Seq(A) :
              /\ u # <<>> /\ \A l \in 1..Len(u) : u[l] # Redacted
              /\ Mentions(Redact(t, token), u)
              => Mentions(t, u)
<1> DEFINE r == Redact(t, token)
<1>1. PICK f : Runs(A, t, token, f) /\ r = f[1]
  BY RedactUnfolds
<1>2. r \in Seq(A) /\ Len(r) \in Nat /\ Len(t) \in Nat /\ 1 \in 1..(Len(t) + 1)
  BY RedactType
<1> HIDE DEF r
<1>3. ASSUME \A l \in 1..Len(token) : token[l] # Redacted PROVE ~Mentions(r, token)
  <2>1. \A k \in 1..Len(r) : ~At(token, r, k)
    BY <1>1, <1>2, <1>3, TokenGone
  <2> QED
    BY <1>2, <2>1, MentionsByPlaces
<1>4. ASSUME NEW u \in Seq(A), u # <<>>, \A l \in 1..Len(u) : u[l] # Redacted, Mentions(r, u)
      PROVE  Mentions(t, u)
  <2> DEFINE m == Len(u)
  <2>1. m \in Nat \ {0}
    BY <1>4
  <2>2. PICK k \in 1..Len(r) : At(u, r, k)
    BY <1>2, <1>4, MentionsByPlaces
  <2>3. k + m - 1 <= Len(r) /\ m \in 1..Len(r) /\ \A l \in 1..m : r[k + l - 1] = u[l]
    <3>1. k + m - 1 <= Len(r) /\ \A l \in 1..m : r[k + l - 1] = u[l]
      BY <2>2 DEF At
    <3> HIDE DEF m
    <3>2. m \in 1..Len(r)
      BY <1>2, <2>1, <2>2, <3>1
    <3> QED
      BY <3>1, <3>2
  <2>4. Clean(r, k, m)
    <3>1. ASSUME NEW x \in k..(k + m - 1) PROVE r[x] # Redacted
      <4>1. x - k + 1 \in 1..m /\ k + (x - k + 1) - 1 = x
        BY <2>1, <2>2
      <4> QED
        BY <1>4, <2>3, <4>1
    <3> QED
      BY <3>1 DEF Clean
  <2> HIDE DEF m
  <2>5. PICK j \in 1..Len(t) : OldAt(t, r, k, m, j)
    <3>1. k + m - 1 <= Len(f[1]) /\ k \in 1..Len(f[1]) /\ m \in 1..Len(f[1]) /\ Clean(f[1], k, m)
      BY <1>1, <2>3, <2>4
    <3> QED
      BY <1>1, <1>2, <3>1, StretchesAreOld
  <2>6. At(u, t, j)
    BY <2>3, <2>5 DEF At, OldAt, m
  <2> QED
    BY <2>6, MentionsByPlaces
<1> QED
  BY <1>3, <1>4 DEF r

-----------------------------------------------------------------------------
(* What surrounds a text decides nothing about what occurs inside it.      *)
LEMMA AtConcat ==
  ASSUME NEW A, NEW a \in Seq(A), NEW c \in Seq(A), NEW w \in Seq(A)
  PROVE  /\ \A j \in 1..(Len(c) + 1) : At(w, a \o c, Len(a) + j) <=> At(w, c, j)
         /\ \A i \in 1..(Len(a) + 1) : i + Len(w) - 1 <= Len(a) => (At(w, a \o c, i) <=> At(w, a, i))
<1> DEFINE t == a \o c
<1>1. /\ t \in Seq(A) /\ Len(t) = Len(a) + Len(c)
      /\ \A i \in 1..Len(a) : t[i] = a[i]
      /\ \A i \in 1..Len(c) : t[Len(a) + i] = c[i]
  BY ConcatPlaces
<1>2. Len(a) \in Nat /\ Len(c) \in Nat /\ Len(w) \in Nat
  OBVIOUS
<1> HIDE DEF t
<1>3. ASSUME NEW j \in 1..(Len(c) + 1) PROVE At(w, t, Len(a) + j) <=> At(w, c, j)
  <2>1. Len(a) + j + Len(w) - 1 <= Len(t) <=> j + Len(w) - 1 <= Len(c)
    BY <1>1, <1>2
  <2>2. ASSUME j + Len(w) - 1 <= Len(c), NEW k \in 1..Len(w)
        PROVE  t[Len(a) + j + k - 1] = c[j + k - 1]
    <3>1. j + k - 1 \in 1..Len(c) /\ Len(a) + (j + k - 1) = Len(a) + j + k - 1
      BY <1>2, <2>2
    <3> QED
      BY <1>1, <3>1
  <2> QED
    BY <2>1, <2>2 DEF At
<1>4. ASSUME NEW i \in 1..(Len(a) + 1), i + Len(w) - 1 <= Len(a) PROVE At(w, t, i) <=> At(w, a, i)
  <2>1. i + Len(w) - 1 <= Len(t)
    BY <1>1, <1>2, <1>4
  <2>2. ASSUME NEW k \in 1..Len(w) PROVE t[i + k - 1] = a[i + k - 1]
    <3>1. i + k - 1 \in 1..Len(a)
      BY <1>2, <1>4
    <3> QED
      BY <1>1, <3>1
  <2> QED
    BY <1>4, <2>1, <2>2 DEF At
<1> QED
  BY <1>3, <1>4 DEF t

(* The rest of a text behind its beginning is redacted as if it were alone.*)
LEMMA RestIsAlone ==
  ASSUME NEW A, Redacted \in A, NEW a \in Seq(A), NEW c \in Seq(A), NEW token,
         NEW f, Runs(A, a \o c, token, f), NEW h, Runs(A, c, token, h)
  PROVE  f[Len(a) + 1] = h[1]
<1> DEFINE t == a \o c
           D == 1..(Len(c) + 1)
           rank == [j \in D |-> Len(c) + 1 - j]
           S == {j \in D : f[Len(a) + j] = h[j]}
<1>1. /\ t \in Seq(A) /\ Len(t) = Len(a) + Len(c)
      /\ \A i \in 1..Len(c) : t[Len(a) + i] = c[i]
  BY ConcatPlaces
<1>2. token \in Seq(A) /\ Len(token) \in Nat \ {0} /\ Len(a) \in Nat /\ Len(c) \in Nat
  BY DEF Runs
<1>3. \A j \in D : At(token, t, Len(a) + j) <=> At(token, c, j)
  BY <1>2, AtConcat
<1>4. /\ \A i \in 1..(Len(t) + 1) : f[i] = RedactFrom(t, token, i, f)
      /\ \A j \in D : h[j] = RedactFrom(c, token, j, h)
  BY DEF Runs, Redacts
<1> HIDE DEF t
<1>5. ASSUME NEW j \in D, \A k \in D : rank[k] < rank[j] => k \in S PROVE j \in S
  <2>1. Len(a) + j \in Nat \ {0} /\ j \in Nat \ {0} /\ Len(a) + j \in 1..(Len(t) + 1)
    BY <1>1, <1>2
  <2>2. OccursAt(token, t, Len(a) + j) <=> OccursAt(token, c, j)
    BY <1>1, <1>2, <1>3, <2>1, OccursByPlaces
  <2>3. ASSUME NEW k \in D, k > j PROVE f[Len(a) + k] = h[k]
    BY <1>2, <1>5, <2>3
  <2>4. CASE j = Len(c) + 1
    <3>1. RedactFrom(t, token, Len(a) + j, f) = <<>> /\ RedactFrom(c, token, j, h) = <<>>
      BY <1>1, <1>2, <2>4 DEF RedactFrom
    <3> QED
      BY <1>4, <2>1, <3>1
  <2>5. CASE j \in 1..Len(c) /\ OccursAt(token, c, j)
    <3>1. j + Len(token) \in D /\ j + Len(token) > j /\ Len(a) + (j + Len(token)) = Len(a) + j + Len(token)
      BY <1>2, <2>5 DEF OccursAt
    <3>2. f[Len(a) + j + Len(token)] = h[j + Len(token)]
      BY <2>3, <3>1
    <3>3. RedactFrom(t, token, Len(a) + j, f) = RedactFrom(c, token, j, h)
      BY <1>1, <1>2, <2>2, <2>5, <3>2 DEF RedactFrom
    <3> QED
      BY <1>4, <2>1, <3>3
  <2>6. CASE j \in 1..Len(c) /\ ~OccursAt(token, c, j)
    <3>1. j + 1 \in D /\ j + 1 > j /\ Len(a) + (j + 1) = Len(a) + j + 1
      BY <1>2, <2>6
    <3>2. f[Len(a) + j + 1] = h[j + 1]
      BY <2>3, <3>1
    <3>3. t[Len(a) + j] = c[j]
      BY <1>1, <2>6
    <3>4. RedactFrom(t, token, Len(a) + j, f) = RedactFrom(c, token, j, h)
      BY <1>1, <1>2, <2>2, <2>6, <3>2, <3>3 DEF RedactFrom
    <3> QED
      BY <1>4, <2>1, <3>4
  <2> QED
    BY <1>2, <2>4, <2>5, <2>6
<1>6. rank \in [D -> Nat]
  BY <1>2
<1>7. \A j \in D : (\A k \in D : rank[k] < rank[j] => k \in S) => j \in S
  BY <1>5
<1>8. 1 \in D
  BY <1>2
<1> HIDE DEF rank, D, S
<1>9. 1 \in S
  BY <1>6, <1>7, <1>8, RankInduction
<1> QED
  BY <1>9 DEF S

(* A text in two parts, with no token across the cut, is redacted part by  *)
(* part.                                                                   *)
LEMMA RedactSplits ==
  ASSUME NEW A, Redacted \in A, NEW a \in Seq(A), NEW c \in Seq(A), NEW token \in Seq(A), token # <<>>,
         \A i \in 1..Len(a) : At(token, a \o c, i) => i + Len(token) - 1 <= Len(a)
  PROVE  Redact(a \o c, token) = Redact(a, token) \o Redact(c, token)
<1> DEFINE t == a \o c
           D == 1..(Len(a) + 1)
           rank == [i \in D |-> Len(a) + 1 - i]
<1>1. t \in Seq(A) /\ Len(t) = Len(a) + Len(c) /\ \A i \in 1..Len(a) : t[i] = a[i]
  BY ConcatPlaces
<1>2. Len(token) \in Nat \ {0} /\ Len(a) \in Nat /\ Len(c) \in Nat
  OBVIOUS
<1>3. \A i \in 1..Len(a) : At(token, t, i) <=> At(token, a, i)
  <2>1. \A i \in 1..Len(a) : i + Len(token) - 1 <= Len(a) => (At(token, t, i) <=> At(token, a, i))
    BY <1>2, AtConcat
  <2>2. \A i \in 1..Len(a) : At(token, a, i) => i + Len(token) - 1 <= Len(a)
    BY DEF At
  <2> QED
    BY <2>1, <2>2
<1> HIDE DEF t
<1>4. PICK f : Runs(A, t, token, f) /\ Redact(t, token) = f[1]
  BY <1>1, RedactUnfolds
<1>5. PICK g : Runs(A, a, token, g) /\ Redact(a, token) = g[1]
  BY RedactUnfolds
<1>6. PICK h : Runs(A, c, token, h) /\ Redact(c, token) = h[1]
  BY RedactUnfolds
<1>7. f[Len(a) + 1] = h[1]
  BY <1>4, <1>6, RestIsAlone DEF t
<1> DEFINE e == h[1]
           S == {i \in D : f[i] = g[i] \o e}
<1>8. /\ \A i \in 1..(Len(t) + 1) : f[i] = RedactFrom(t, token, i, f)
      /\ \A i \in D : g[i] \in Seq(A) /\ g[i] = RedactFrom(a, token, i, g)
      /\ e \in Seq(A)
  <2>1. 1 \in 1..(Len(c) + 1)
    BY <1>2
  <2> QED
    BY <1>4, <1>5, <1>6, <2>1 DEF Runs, Redacts
<1> HIDE DEF e
<1>9. ASSUME NEW i \in D, \A k \in D : rank[k] < rank[i] => k \in S PROVE i \in S
  <2>1. i \in 1..(Len(t) + 1) /\ i \in Nat \ {0}
    BY <1>1, <1>2
  <2>2. ASSUME NEW k \in D, k > i PROVE f[k] = g[k] \o e
    BY <1>2, <1>9, <2>2
  <2>3. CASE i = Len(a) + 1
    <3>1. g[i] = <<>>
      BY <1>5, <2>3, RunsStep
    <3>2. <<>> \o e = e
      BY <1>8
    <3> QED
      BY <1>7, <2>3, <3>1, <3>2 DEF e
  <2>4. CASE i \in 1..Len(a)
    <3>1. OccursAt(token, t, i) <=> OccursAt(token, a, i)
      BY <1>1, <1>3, <2>1, <2>4, OccursByPlaces
    <3>2. t[i] = a[i] /\ t[i] \in A /\ ~(i > Len(t)) /\ ~(i > Len(a))
      BY <1>1, <1>2, <2>4
    <3>3. ASSUME NEW b \in A, NEW k \in D, k > i, f[i] = <<b>> \o f[k], g[i] = <<b>> \o g[k]
          PROVE  f[i] = g[i] \o e
      <4> DEFINE s == <<b>>
                 u == g[k]
      <4>1. f[k] = u \o e /\ u \in Seq(A) /\ s \in Seq(A)
        BY <1>8, <2>2, <3>3
      <4>a. e \in Seq(A)
        BY <1>8
      <4> HIDE DEF s, u
      <4>2. s \o (u \o e) = (s \o u) \o e
        BY <4>a, <4>1, ThreeJoined, SMTT(30)
      <4> QED
        BY <3>3, <4>1, <4>2 DEF s, u
    <3>4. CASE OccursAt(token, a, i)
      <4>1. i + Len(token) \in D /\ i + Len(token) > i
        BY <1>2, <2>4, <3>4 DEF OccursAt
      <4>2. f[i] = <<Redacted>> \o f[i + Len(token)] /\ g[i] = <<Redacted>> \o g[i + Len(token)]
        BY <1>8, <2>1, <3>1, <3>2, <3>4 DEF RedactFrom
      <4> HIDE DEF D, S
      <4>3. f[i] = g[i] \o e
        BY <3>3, <4>1, <4>2
      <4> QED
        BY <4>3 DEF S
    <3>5. CASE ~OccursAt(token, a, i)
      <4>1. i + 1 \in D /\ i + 1 > i
        BY <1>2, <2>4
      <4>2. f[i] = <<t[i]>> \o f[i + 1] /\ g[i] = <<t[i]>> \o g[i + 1]
        BY <1>8, <2>1, <3>1, <3>2, <3>5 DEF RedactFrom
      <4> HIDE DEF D, S
      <4>3. f[i] = g[i] \o e
        BY <3>2, <3>3, <4>1, <4>2
      <4> QED
        BY <4>3 DEF S
    <3> QED
      BY <3>4, <3>5
  <2> QED
    BY <1>2, <2>3, <2>4
<1>10. rank \in [D -> Nat]
  BY <1>2
<1>11. \A i \in D : (\A k \in D : rank[k] < rank[i] => k \in S) => i \in S
  BY <1>9
<1>12. 1 \in D
  BY <1>2
<1> HIDE DEF rank, D, S
<1>13. 1 \in S
  BY <1>10, <1>11, <1>12, RankInduction
<1> QED
  BY <1>4, <1>5, <1>6, <1>13 DEF S, e, t

(* A text in which the token does not occur stays as it is.                *)
LEMMA NothingToRedact ==
  ASSUME NEW A, Redacted \in A, NEW t \in Seq(A), NEW token \in Seq(A), token # <<>>,
         \A i \in 1..Len(t) : ~At(token, t, i)
  PROVE  Redact(t, token) = t
<1> DEFINE D == 1..(Len(t) + 1)
           rank == [i \in D |-> Len(t) + 1 - i]
<1>1. PICK f : Runs(A, t, token, f) /\ Redact(t, token) = f[1]
  BY RedactUnfolds
<1> DEFINE S == {i \in D : Len(f[i]) = Len(t) + 1 - i /\ \A k \in 1..Len(f[i]) : f[i][k] = t[i + k - 1]}
<1>2. Len(t) \in Nat /\ \A i \in D : f[i] \in Seq(A) /\ Len(f[i]) \in Nat
  BY <1>1 DEF Runs
<1>3. ASSUME NEW i \in D, \A j \in D : rank[j] < rank[i] => j \in S PROVE i \in S
  <2>1. CASE i = Len(t) + 1
    <3>1. f[i] = <<>>
      BY <1>1, <2>1, RunsStep
    <3>2. Len(f[i]) = 0
      BY <3>1
    <3> QED
      BY <1>2, <2>1, <3>2
  <2>2. CASE i \in 1..Len(t)
    <3>0. PICK j \in (i + 1)..(Len(t) + 1) : Leads(t, token, f, i, j)
      BY <1>1, <2>2, RunsStep
    <3>1. /\ j = i + 1 /\ f[i][1] = t[i]
          /\ Len(f[i]) = Len(f[j]) + 1 /\ \A k \in 1..Len(f[j]) : f[i][k + 1] = f[j][k]
      BY <2>2, <3>0 DEF Leads
    <3>2. j = i + 1 /\ f[i][1] = t[i] /\ j \in D /\ rank[j] < rank[i]
      BY <1>2, <2>2, <3>1
    <3>3. Len(f[j]) = Len(t) + 1 - j /\ \A k \in 1..Len(f[j]) : f[j][k] = t[j + k - 1]
      BY <1>3, <3>2
    <3>4. ASSUME NEW k \in 1..Len(f[i]) PROVE f[i][k] = t[i + k - 1]
      <4>1. CASE k = 1
        BY <1>2, <3>2, <4>1
      <4>2. CASE k # 1
        <5>1. k - 1 \in 1..Len(f[j]) /\ (k - 1) + 1 = k /\ j + (k - 1) - 1 = i + k - 1
          BY <1>2, <3>1, <3>2, <4>2
        <5>2. f[i][(k - 1) + 1] = f[j][k - 1] /\ f[j][k - 1] = t[j + (k - 1) - 1]
          BY <3>1, <3>3, <5>1
        <5> QED
          BY <5>1, <5>2
      <4> QED
        BY <4>1, <4>2
    <3>5. Len(f[i]) = Len(t) + 1 - i
      BY <1>2, <3>1, <3>3
    <3> QED
      BY <3>4, <3>5
  <2>3. i = Len(t) + 1 \/ i \in 1..Len(t)
    BY <1>2
  <2> HIDE DEF S
  <2> QED
    BY <2>1, <2>2, <2>3
<1>4. rank \in [D -> Nat]
  BY <1>2
<1>5. \A i \in D : (\A j \in D : rank[j] < rank[i] => j \in S) => i \in S
  BY <1>3
<1>6. 1 \in D
  BY <1>2
<1> HIDE DEF rank, D, S
<1>7. 1 \in S
  BY <1>4, <1>5, <1>6, RankInduction
<1> DEFINE r == f[1]
<1>8. r \in Seq(A)
  BY <1>2, <1>6
<1>9. Len(r) = Len(t) + 1 - 1 /\ \A k \in 1..Len(r) : r[k] = t[1 + k - 1]
  BY <1>7 DEF S
<1> HIDE DEF r
<1>10. Len(r) = Len(t) /\ \A k \in 1..Len(r) : r[k] = t[k]
  <2>1. \A k \in 1..Len(r) : 1 + k - 1 = k
    OBVIOUS
  <2> QED
    BY <1>2, <1>9, <2>1
<1>11. r = t
  BY <1>8, <1>10, SeqEqual
<1> QED
  BY <1>1, <1>11 DEF r

(* The middle part of a text is untouched by a token that occurs only      *)
(* before or behind it.                                                    *)
Untouched(a, m, b, token) ==
  \A i \in 1..Len(a \o (m \o b)) :
    At(token, a \o (m \o b), i) => i + Len(token) - 1 <= Len(a) \/ i > Len(a) + Len(m)

(* It stays, and what is around it is redacted by itself.                  *)
LEMMA RedactAround ==
  ASSUME NEW A, Redacted \in A, NEW a \in Seq(A), NEW m \in Seq(A), NEW b \in Seq(A),
         NEW token \in Seq(A), token # <<>>, Untouched(a, m, b, token)
  PROVE  Redact(a \o (m \o b), token) = Redact(a, token) \o (m \o Redact(b, token))
<1> DEFINE c == m \o b
           t == a \o c
<1>1. /\ c \in Seq(A) /\ Len(c) = Len(m) + Len(b)
      /\ \A i \in 1..Len(m) : c[i] = m[i]
  BY ConcatPlaces
<1>2. Len(a) \in Nat /\ Len(m) \in Nat /\ Len(b) \in Nat /\ Len(token) \in Nat \ {0}
  OBVIOUS
<1>3. \A i \in 1..Len(t) : At(token, t, i) => i + Len(token) - 1 <= Len(a) \/ i > Len(a) + Len(m)
  BY DEF Untouched
<1> HIDE DEF c
<1>4. /\ t \in Seq(A) /\ Len(t) = Len(a) + Len(c)
      /\ \A j \in 1..(Len(c) + 1) : At(token, t, Len(a) + j) <=> At(token, c, j)
  BY <1>1, ConcatPlaces, AtConcat
<1>5. \A j \in 1..Len(m) : ~At(token, c, j)
  <2> SUFFICES ASSUME NEW j \in 1..Len(m), At(token, c, j) PROVE FALSE
    OBVIOUS
  <2>1. j \in 1..(Len(c) + 1) /\ Len(a) + j \in 1..Len(t)
    BY <1>1, <1>2, <1>4
  <2>2. At(token, t, Len(a) + j)
    BY <1>4, <2>1
  <2>3. Len(a) + j + Len(token) - 1 <= Len(a) \/ Len(a) + j > Len(a) + Len(m)
    BY <1>3, <2>1, <2>2
  <2> QED
    BY <1>2, <2>3
<1>6. \A j \in 1..Len(m) : ~At(token, m, j)
  <2> SUFFICES ASSUME NEW j \in 1..Len(m), At(token, m, j) PROVE FALSE
    OBVIOUS
  <2>1. j + Len(token) - 1 <= Len(m)
    BY DEF At
  <2>2. \A i \in 1..(Len(m) + 1) : i + Len(token) - 1 <= Len(m) => (At(token, c, i) <=> At(token, m, i))
    BY AtConcat DEF c
  <2>3. At(token, c, j)
    BY <1>2, <2>1, <2>2
  <2> QED
    BY <1>5, <2>3
<1>7. \A i \in 1..Len(a) : At(token, t, i) => i + Len(token) - 1 <= Len(a)
  <2> SUFFICES ASSUME NEW i \in 1..Len(a), At(token, t, i) PROVE i + Len(token) - 1 <= Len(a)
    OBVIOUS
  <2>1. Len(c) \in Nat /\ Len(t) = Len(a) + Len(c)
    BY <1>1, <1>4
  <2> HIDE DEF t
  <2>2. i \in 1..Len(t)
    BY <1>2, <2>1
  <2>3. i + Len(token) - 1 <= Len(a) \/ i > Len(a) + Len(m)
    BY <1>3, <2>2
  <2> QED
    BY <1>2, <2>3
<1>8. Redact(t, token) = Redact(a, token) \o Redact(c, token)
  BY <1>1, <1>7, RedactSplits
<1>9. Redact(c, token) = Redact(m, token) \o Redact(b, token)
  <2>1. \A i \in 1..Len(m) : At(token, m \o b, i) => i + Len(token) - 1 <= Len(m)
    BY <1>5 DEF c
  <2> QED
    BY <2>1, RedactSplits DEF c
<1>10. Redact(m, token) = m
  BY <1>6, NothingToRedact
<1> QED
  BY <1>8, <1>9, <1>10 DEF c

(* Three texts in a row, the other way round.                              *)
LEMMA MiddlePlaces ==
  ASSUME NEW A, NEW n \in Seq(A), NEW m \in Seq(A), NEW z \in Seq(A)
  PROVE  LET w == n \o (m \o z)
         IN  /\ w \in Seq(A) /\ Len(w) = Len(n) + Len(m) + Len(z)
             /\ \A i \in 1..Len(n) : w[i] = n[i]
             /\ \A i \in 1..Len(m) : w[Len(n) + i] = m[i]
             /\ \A i \in 1..Len(z) : w[Len(n) + Len(m) + i] = z[i]
<1>1. n \o m \o z = n \o (m \o z)
  BY ThreeJoined
<1> DEFINE w == n \o m \o z
<1>2. /\ w \in Seq(A) /\ Len(w) = Len(n) + Len(m) + Len(z)
      /\ \A i \in 1..Len(n) : w[i] = n[i]
      /\ \A i \in 1..Len(m) : w[Len(n) + i] = m[i]
      /\ \A i \in 1..Len(z) : w[Len(n) + Len(m) + i] = z[i]
  BY InARow
<1>3. w = n \o (m \o z)
  BY <1>1
<1> HIDE DEF w
<1> QED
  BY <1>2, <1>3

(* It stays untouched by the others, since what is around it ends and      *)
(* begins as it did, up to what was put in, and no token has that.         *)
LEMMA UntouchedStays ==
  ASSUME NEW A, Redacted \in A, NEW a \in Seq(A), NEW m \in Seq(A), NEW b \in Seq(A),
         NEW token \in Seq(A), token # <<>>,
         NEW u \in Seq(A), u # <<>>, \A l \in 1..Len(u) : u[l] # Redacted,
         Untouched(a, m, b, u)
  PROVE  Untouched(Redact(a, token), m, Redact(b, token), u)
<1> DEFINE x == Redact(a, token)
           y == Redact(b, token)
           old == a \o (m \o b)
           new == x \o (m \o y)
<1>1. x \in Seq(A) /\ y \in Seq(A)
  BY RedactType
<1>2. /\ Len(a) \in Nat /\ Len(m) \in Nat /\ Len(b) \in Nat /\ Len(u) \in Nat \ {0}
      /\ Len(x) \in Nat /\ Len(y) \in Nat
  BY <1>1
<1>3. ASSUME NEW n \in Seq(A), NEW z \in Seq(A)
      PROVE  /\ n \o (m \o z) \in Seq(A) /\ Len(n \o (m \o z)) = Len(n) + Len(m) + Len(z)
             /\ \A i \in 1..Len(n) : (n \o (m \o z))[i] = n[i]
             /\ \A i \in 1..Len(m) : (n \o (m \o z))[Len(n) + i] = m[i]
             /\ \A i \in 1..Len(z) : (n \o (m \o z))[Len(n) + Len(m) + i] = z[i]
  BY <1>3, MiddlePlaces, SMTT(30)
<1>4. /\ Len(old) = Len(a) + Len(m) + Len(b)
      /\ \A i \in 1..Len(a) : old[i] = a[i]
      /\ \A i \in 1..Len(m) : old[Len(a) + i] = m[i]
      /\ \A i \in 1..Len(b) : old[Len(a) + Len(m) + i] = b[i]
  BY <1>3
<1>5. /\ Len(new) = Len(x) + Len(m) + Len(y)
      /\ \A i \in 1..Len(x) : new[i] = x[i]
      /\ \A i \in 1..Len(m) : new[Len(x) + i] = m[i]
      /\ \A i \in 1..Len(y) : new[Len(x) + Len(m) + i] = y[i]
  BY <1>1, <1>3
<1>6. \A i \in 1..Len(old) : At(u, old, i) => i + Len(u) - 1 <= Len(a) \/ i > Len(a) + Len(m)
  BY DEF Untouched
<1> HIDE DEF x, y, old, new
<1> SUFFICES ASSUME NEW i \in 1..Len(new), At(u, new, i),
                    ~(i + Len(u) - 1 <= Len(x)), ~(i > Len(x) + Len(m))
             PROVE  FALSE
  BY DEF Untouched, x, y, new
<1>7. i + Len(u) - 1 <= Len(new) /\ \A k \in 1..Len(u) : new[i + k - 1] = u[k]
  BY DEF At
<1> DEFINE p == IF i > Len(x) THEN 0 ELSE Len(x) - i + 1
           q == IF i + Len(u) - 1 > Len(x) + Len(m) THEN i + Len(u) - 1 - Len(x) - Len(m) ELSE 0
<1>8. /\ p \in 0..Len(x) /\ q \in 0..Len(y)
      /\ p > 0 => i = Len(x) - p + 1
      /\ q > 0 => i + Len(u) - 1 = Len(x) + Len(m) + q
      /\ p = 0 => i > Len(x)
      /\ q = 0 => i + Len(u) - 1 <= Len(x) + Len(m)
      /\ i \in Nat \ {0} /\ i + Len(u) - 1 > Len(x)
      /\ p <= Len(u)
  BY <1>2, <1>5, <1>7
<1> HIDE DEF p, q
<1>9. p <= Len(a) /\ \A l \in 1..p : a[Len(a) - p + l] = x[Len(x) - p + l]
  <2>1. ASSUME NEW l \in 1..p PROVE x[Len(x) - p + l] # Redacted
    <3>0. p \in Nat /\ p > 0 /\ l \in Nat /\ 1 <= l /\ l <= p
      BY <1>8
    <3>1. l \in 1..Len(u) /\ i + l - 1 = Len(x) - p + l /\ Len(x) - p + l \in 1..Len(x)
      <4> HIDE DEF x, y, new, old
      <4>1. i = Len(x) - p + 1 /\ p <= Len(x) /\ p <= Len(u) /\ Len(x) \in Nat /\ Len(u) \in Nat
        BY <1>2, <1>8, <3>0
      <4> QED
        BY <3>0, <4>1
    <3>2. new[Len(x) - p + l] = u[l] /\ new[Len(x) - p + l] = x[Len(x) - p + l]
      BY <1>5, <1>7, <3>1
    <3> QED
      BY <3>1, <3>2
  <2>2. x = Redact(a, token) /\ p \in 0..Len(x) /\ CleanEnd(p, x)
    BY <1>8, <2>1 DEF x, CleanEnd
  <2>3. SameEnd(p, a, x)
    BY <2>2, EndsAreOld
  <2> QED
    BY <2>3 DEF SameEnd
<1>10. q <= Len(b) /\ \A l \in 1..q : b[l] = y[l]
  <2>1. ASSUME NEW l \in 1..q PROVE y[l] # Redacted
    <3> DEFINE k == Len(x) + Len(m) + l - i + 1
    <3>1. k \in 1..Len(u) /\ i + k - 1 = Len(x) + Len(m) + l /\ l \in 1..Len(y)
      BY <1>2, <1>8
    <3> HIDE DEF k
    <3>2. new[i + k - 1] = u[k] /\ new[Len(x) + Len(m) + l] = y[l]
      BY <1>5, <1>7, <3>1
    <3> QED
      BY <3>1, <3>2
  <2>2. y = Redact(b, token) /\ q \in 0..Len(y) /\ CleanStart(q, y)
    BY <1>8, <2>1 DEF y, CleanStart
  <2>3. SameStart(q, b, y)
    BY <2>2, EndsAreOld
  <2> QED
    BY <2>3 DEF SameStart
<1> DEFINE j == i + Len(a) - Len(x)
<1>11. j \in 1..Len(old) /\ j + Len(u) - 1 <= Len(old)
  <2>1. p \in Nat /\ q \in Nat /\ p <= Len(a) /\ q <= Len(b) /\ Len(old) = Len(a) + Len(m) + Len(b)
    BY <1>4, <1>8, <1>9, <1>10
  <2>2. j >= 1 /\ j \in Int
    <3>1. CASE p = 0
      BY <1>2, <1>8, <2>1, <3>1
    <3>2. CASE p > 0
      BY <1>2, <1>8, <2>1, <3>2
    <3> QED
      BY <2>1, <3>1, <3>2
  <2>3. j + Len(u) - 1 <= Len(old)
    <3>1. CASE q = 0
      BY <1>2, <1>8, <2>1, <3>1
    <3>2. CASE q > 0
      BY <1>2, <1>8, <2>1, <3>2
    <3> QED
      BY <2>1, <3>1, <3>2
  <2> HIDE DEF j
  <2>4. Len(u) >= 1 /\ Len(old) \in Nat /\ Len(u) \in Nat
    BY <1>2, <2>1
  <2> QED
    BY <2>2, <2>3, <2>4
<1>12. ASSUME NEW k \in 1..Len(u) PROVE old[j + k - 1] = u[k]
  <2>1. new[i + k - 1] = u[k]
    BY <1>7
  <2>2. CASE i + k - 1 <= Len(x)
    <3>1. /\ k \in 1..p /\ i + k - 1 = Len(x) - p + k /\ j + k - 1 = Len(a) - p + k
          /\ Len(x) - p + k \in 1..Len(x) /\ Len(a) - p + k \in 1..Len(a)
      <4>1. i <= Len(x) /\ p \in Nat /\ k \in Nat /\ 1 <= k
        BY <1>2, <1>8, <2>2
      <4>2. p > 0
        BY <1>2, <1>8, <4>1
      <4>3. i = Len(x) - p + 1 /\ p <= Len(x) /\ p <= Len(a) /\ k <= p
        BY <1>2, <1>8, <1>9, <2>2, <4>1, <4>2
      <4> QED
        BY <1>2, <4>1, <4>3
    <3>2. new[i + k - 1] = x[Len(x) - p + k] /\ old[j + k - 1] = a[Len(a) - p + k]
      BY <1>4, <1>5, <3>1
    <3> QED
      BY <1>9, <2>1, <3>1, <3>2
  <2>3. CASE i + k - 1 > Len(x) /\ i + k - 1 <= Len(x) + Len(m)
    <3> DEFINE l == i + k - 1 - Len(x)
    <3>1. l \in 1..Len(m) /\ i + k - 1 = Len(x) + l /\ j + k - 1 = Len(a) + l
      BY <1>2, <2>3
    <3> HIDE DEF l, j
    <3>2. new[i + k - 1] = m[l] /\ old[j + k - 1] = m[l]
      BY <1>4, <1>5, <3>1
    <3> QED
      BY <2>1, <3>2
  <2>4. CASE i + k - 1 > Len(x) + Len(m)
    <3> DEFINE l == i + k - 1 - Len(x) - Len(m)
    <3>1. /\ l \in 1..q /\ l \in 1..Len(y) /\ l \in 1..Len(b)
          /\ i + k - 1 = Len(x) + Len(m) + l /\ j + k - 1 = Len(a) + Len(m) + l
      BY <1>2, <1>8, <1>10, <2>4, SMTT(30)
    <3> HIDE DEF l, j
    <3>2. new[i + k - 1] = y[l] /\ old[j + k - 1] = b[l] /\ b[l] = y[l]
      BY <1>4, <1>5, <1>10, <3>1
    <3> QED
      BY <2>1, <3>2
  <2> QED
    BY <1>2, <2>2, <2>3, <2>4
<1>13. At(u, old, j)
  BY <1>11, <1>12 DEF At
<1>14. j + Len(u) - 1 <= Len(a) \/ j > Len(a) + Len(m)
  BY <1>6, <1>11, <1>13
<1> QED
  BY <1>2, <1>14

-----------------------------------------------------------------------------
(* Tokens without what is put in.                                          *)
Plain(u) == u # <<>> /\ \A l \in 1..Len(u) : u[l] # Redacted
PlainTokens(A, tokens) == tokens \in Seq(Seq(A)) /\ \A n \in 1..Len(tokens) : Plain(tokens[n])

(* Token by token.                                                         *)
LEMMA PlainTokensAre ==
  ASSUME NEW A, NEW tokens, PlainTokens(A, tokens)
  PROVE  /\ Len(tokens) \in Nat
         /\ \A n \in 1..Len(tokens) : tokens[n] \in Seq(A) /\ tokens[n] # <<>> /\ Plain(tokens[n])
<1> DEFINE B == Seq(A)
<1>1. tokens \in Seq(B) /\ \A n \in 1..Len(tokens) : Plain(tokens[n])
  BY DEF PlainTokens
<1> HIDE DEF B
<1>2. Len(tokens) \in Nat /\ \A n \in 1..Len(tokens) : tokens[n] \in B
  BY <1>1
<1>3. \A n \in 1..Len(tokens) : tokens[n] # <<>>
  BY <1>1 DEF Plain
<1> QED
  BY <1>1, <1>2, <1>3 DEF B

(* What StripText defines by recursion: the text after each of the tokens. *)
Strips(A, t, tokens, f) ==
  /\ f \in [0..Len(tokens) -> Seq(A)] /\ f[0] = t
  /\ \A n \in 1..Len(tokens) : f[n] = Redact(f[n - 1], tokens[n])

(* StripText is defined: there is such a function.                         *)
LEMMA StripUnfolds ==
  ASSUME NEW A, Redacted \in A, NEW t \in Seq(A), NEW tokens, PlainTokens(A, tokens)
  PROVE  \E f : Strips(A, t, tokens, f) /\ StripText(t, tokens) = f[Len(tokens)]
<1> DEFINE N == Len(tokens)
           D == 0..N
           V == Seq(A)
           rank == [n \in D |-> n]
           value(n, f) == IF n = 0 THEN t ELSE Redact(f[n - 1], tokens[n])
           e == [x \in [D -> V] \X D |-> value(x[2], x[1])]
<1>1. N \in Nat /\ \A n \in 1..N : tokens[n] \in Seq(A) /\ tokens[n] # <<>>
  BY PlainTokensAre
<1>2. ASSUME NEW n \in D, NEW f, n # 0 => f[n - 1] \in V PROVE value(n, f) \in V
  <2>1. CASE n = 0
    BY <2>1
  <2>2. CASE n # 0
    <3>1. n \in 1..N
      BY <1>1, <2>2
    <3>2. Redact(f[n - 1], tokens[n]) \in V
      BY <1>1, <1>2, <2>2, <3>1, RedactType
    <3> QED
      BY <2>2, <3>2
  <2> QED
    BY <2>1, <2>2
<1>3. \A n \in D : n # 0 => n - 1 \in D /\ n - 1 < n
  BY <1>1
<1>4. ASSUME NEW f \in [D -> V], NEW n \in D PROVE e[<<f, n>>] = value(n, f)
  OBVIOUS
<1>5. e \in [[D -> V] \X D -> V]
  <2>1. ASSUME NEW x \in [D -> V] \X D PROVE e[x] \in V
    <3>1. x = <<x[1], x[2]>> /\ x[1] \in [D -> V] /\ x[2] \in D
      OBVIOUS
    <3>2. e[x] = value(x[2], x[1])
      OBVIOUS
    <3>3. x[2] # 0 => x[1][x[2] - 1] \in V
      BY <1>3, <3>1
    <3> HIDE DEF e, D, V, value
    <3> QED
      BY <1>2, <3>1, <3>2, <3>3
  <2> QED
    BY <2>1
<1>6. ASSUME NEW f \in [D -> V], NEW g \in [D -> V], NEW n \in D,
             \A k \in D : rank[k] < rank[n] => f[k] = g[k]
      PROVE  e[<<f, n>>] = e[<<g, n>>]
  <2>1. n # 0 => f[n - 1] = g[n - 1]
    BY <1>3, <1>6
  <2>2. value(n, f) = value(n, g)
    BY <2>1
  <2> HIDE DEF e
  <2> QED
    BY <1>4, <2>2
<1>7. rank \in [D -> Nat] /\ \A n \in D : rank[n] < N + 1
  BY <1>1
<1>8. V # {} /\ N + 1 \in Nat
  BY <1>1
<1>9. \A f \in [D -> V], g \in [D -> V], n \in D :
        (\A k \in D : rank[k] < rank[n] => f[k] = g[k]) => e[<<f, n>>] = e[<<g, n>>]
  BY <1>6
<1> HIDE DEF e, value
<1>10. PICK g \in [D -> V] : \A n \in D : g[n] = e[<<g, n>>]
  <2> HIDE DEF D, V, N, rank
  <2>1. Recursive(D, V, rank, N + 1, e)
    BY <1>5, <1>7, <1>8, <1>9 DEF Recursive
  <2>2. Solvable(D, V, e)
    BY <2>1, Recursion
  <2> QED
    BY <2>2 DEF Solvable, Solution
<1> DEFINE Def(f) == f = [n \in 0..Len(tokens) |-> IF n = 0 THEN t ELSE Redact(f[n - 1], tokens[n])]
<1>11. Def(g)
  <2>1. \A n \in D : g[n] = value(n, g)
    BY <1>4, <1>10
  <2> QED
    BY <1>10, <2>1 DEF value
<1>12. PICK f : Def(f) /\ StripText(t, tokens) = f[N]
  BY <1>11 DEF StripText
<1>13. \A n \in D : f[n] = value(n, f)
  BY <1>12 DEF value
<1>14. f = [n \in D |-> f[n]]
  BY <1>12
<1> HIDE DEF Def
<1> DEFINE S == {n \in D : f[n] \in V}
<1>15. ASSUME NEW n \in D, \A k \in D : rank[k] < rank[n] => k \in S PROVE n \in S
  <2>1. n # 0 => f[n - 1] \in V
    BY <1>3, <1>15
  <2>2. f[n] \in V
    BY <1>2, <1>13, <2>1
  <2> QED
    BY <2>2
<1>16. rank \in [D -> Nat]
  BY <1>7
<1>17. \A n \in D : (\A k \in D : rank[k] < rank[n] => k \in S) => n \in S
  BY <1>15
<1>18. 0 \in D /\ \A n \in 1..N : n \in D /\ n # 0
  BY <1>1
<1> HIDE DEF S, rank, D, V
<1>19. D \subseteq S
  BY <1>16, <1>17, RankInduction
<1>20. f \in [D -> V]
  BY <1>14, <1>19 DEF S
<1>21. f[0] = t /\ \A n \in 1..N : f[n] = Redact(f[n - 1], tokens[n])
  BY <1>13, <1>18 DEF value
<1> QED
  BY <1>12, <1>20, <1>21 DEF Strips, D, V

(* No token is left, and no text occurs that did not before.               *)
LEMMA StripCleans ==
  ASSUME NEW A, Redacted \in A, NEW t \in Seq(A), NEW tokens, PlainTokens(A, tokens)
  PROVE  /\ StripText(t, tokens) \in Seq(A)
         /\ \A k \in 1..Len(tokens) : ~Mentions(StripText(t, tokens), tokens[k])
         /\ \A u \in Seq(A) : Plain(u) /\ Mentions(StripText(t, tokens), u) => Mentions(t, u)
<1> DEFINE N == Len(tokens)
           D == 0..N
           rank == [n \in D |-> n]
<1>1. PICK f : Strips(A, t, tokens, f) /\ StripText(t, tokens) = f[N]
  BY StripUnfolds
<1> DEFINE Gone(n) == \A k \in 1..n : ~Mentions(f[n], tokens[k])
           Old(n) == \A u \in Seq(A) : Plain(u) /\ Mentions(f[n], u) => Mentions(t, u)
           S == {n \in D : Gone(n) /\ Old(n)}
<1>2. N \in Nat /\ \A n \in 1..N : tokens[n] \in Seq(A) /\ tokens[n] # <<>> /\ Plain(tokens[n])
  BY PlainTokensAre
<1>3. /\ \A n \in D : f[n] \in Seq(A)
      /\ f[0] = t /\ \A n \in 1..N : f[n] = Redact(f[n - 1], tokens[n])
  BY <1>1 DEF Strips
<1>4. ASSUME NEW n \in D, \A k \in D : rank[k] < rank[n] => k \in S PROVE n \in S
  <2>1. CASE n = 0
    <3>1. Gone(n) /\ Old(n)
      BY <1>3, <2>1
    <3> QED
      BY <3>1
  <2>2. CASE n # 0
    <3> DEFINE s == f[n - 1]
               r == f[n]
    <3>1. n \in 1..N /\ n - 1 \in D /\ n - 1 \in S
      BY <1>2, <1>4, <2>2
    <3>2. s \in Seq(A) /\ r = Redact(s, tokens[n]) /\ tokens[n] \in Seq(A) /\ tokens[n] # <<>>
      BY <1>2, <1>3, <3>1
    <3>3. Gone(n - 1) /\ Old(n - 1)
      BY <3>1
    <3>4. /\ ~Mentions(r, tokens[n])
          /\ \A u \in Seq(A) : Plain(u) /\ Mentions(r, u) => Mentions(s, u)
      <4> HIDE DEF s, r
      <4>1. \A l \in 1..Len(tokens[n]) : tokens[n][l] # Redacted
        BY <1>2, <3>1 DEF Plain
      <4> QED
        BY <3>2, <4>1, RedactCleans DEF Plain
    <3>5. Old(n)
      BY <3>3, <3>4
    <3>6. ASSUME NEW k \in 1..n PROVE ~Mentions(f[n], tokens[k])
      <4>1. CASE k = n
        BY <3>4, <4>1
      <4>2. CASE k # n
        <5>1. k \in 1..(n - 1) /\ k \in 1..N
          BY <1>2, <3>1, <4>2
        <5>2. ~Mentions(s, tokens[k]) /\ tokens[k] \in Seq(A) /\ Plain(tokens[k])
          BY <1>2, <3>3, <5>1
        <5> QED
          BY <3>4, <5>2
      <4> QED
        BY <4>1, <4>2
    <3>7. Gone(n)
      BY <3>6
    <3> HIDE DEF Gone, Old
    <3> QED
      BY <3>5, <3>7
  <2> QED
    BY <2>1, <2>2
<1>5. rank \in [D -> Nat]
  BY <1>2
<1>6. \A n \in D : (\A k \in D : rank[k] < rank[n] => k \in S) => n \in S
  BY <1>4
<1>7. N \in D
  BY <1>2
<1> HIDE DEF rank, D, S
<1>8. N \in S
  BY <1>5, <1>6, <1>7, RankInduction
<1>9. Gone(N) /\ Old(N)
  BY <1>8 DEF S
<1> QED
  BY <1>1, <1>3, <1>7, <1>9

(* A text in which no token occurs stays as it is.                         *)
LEMMA StripLeaves ==
  ASSUME NEW A, Redacted \in A, NEW t \in Seq(A), NEW tokens, PlainTokens(A, tokens),
         \A k \in 1..Len(tokens) : ~Mentions(t, tokens[k])
  PROVE  StripText(t, tokens) = t
<1> DEFINE N == Len(tokens)
           D == 0..N
           rank == [n \in D |-> n]
<1>1. PICK f : Strips(A, t, tokens, f) /\ StripText(t, tokens) = f[N]
  BY StripUnfolds
<1> DEFINE S == {n \in D : f[n] = t}
<1>2. N \in Nat /\ \A n \in 1..N : tokens[n] \in Seq(A) /\ tokens[n] # <<>>
  BY PlainTokensAre
<1>3. f[0] = t /\ \A n \in 1..N : f[n] = Redact(f[n - 1], tokens[n])
  BY <1>1 DEF Strips
<1>4. ASSUME NEW n \in D, \A k \in D : rank[k] < rank[n] => k \in S PROVE n \in S
  <2>1. CASE n = 0
    BY <1>3, <2>1
  <2>2. CASE n # 0
    <3>1. n \in 1..N /\ n - 1 \in D /\ n - 1 \in S
      BY <1>2, <1>4, <2>2
    <3> DEFINE u == tokens[n]
    <3>2. f[n] = Redact(t, u) /\ u \in Seq(A) /\ u # <<>> /\ ~Mentions(t, u)
      BY <1>2, <1>3, <3>1
    <3> HIDE DEF u
    <3>3. \A i \in 1..Len(t) : ~At(u, t, i)
      BY <3>2, MentionsByPlaces
    <3>4. Redact(t, u) = t
      BY <3>2, <3>3, NothingToRedact
    <3> QED
      BY <3>2, <3>4
  <2> QED
    BY <2>1, <2>2
<1>5. rank \in [D -> Nat]
  BY <1>2
<1>6. \A n \in D : (\A k \in D : rank[k] < rank[n] => k \in S) => n \in S
  BY <1>4
<1>7. N \in D
  BY <1>2
<1> HIDE DEF rank, D, S
<1>8. N \in S
  BY <1>5, <1>6, <1>7, RankInduction
<1> QED
  BY <1>1, <1>8 DEF S

(* A text that no token touches is still there.                            *)
LEMMA StripKeeps ==
  ASSUME NEW A, Redacted \in A, NEW tokens, PlainTokens(A, tokens),
         NEW a \in Seq(A), NEW m \in Seq(A), NEW b \in Seq(A), m # <<>>,
         \A k \in 1..Len(tokens) : Untouched(a, m, b, tokens[k])
  PROVE  Mentions(StripText(a \o (m \o b), tokens), m)
<1> DEFINE N == Len(tokens)
           D == 0..N
           rank == [n \in D |-> n]
           t == a \o (m \o b)
           Around(s, x, y) == s = x \o (m \o y) /\ \A k \in 1..N : Untouched(x, m, y, tokens[k])
<1>0. t \in Seq(A)
  BY MiddlePlaces
<1> HIDE DEF t
<1>1. PICK f : Strips(A, t, tokens, f) /\ StripText(t, tokens) = f[N]
  BY <1>0, StripUnfolds
<1> DEFINE S == {n \in D : \E x, y \in Seq(A) : Around(f[n], x, y)}
<1>2. N \in Nat /\ \A n \in 1..N : tokens[n] \in Seq(A) /\ tokens[n] # <<>> /\ Plain(tokens[n])
  BY PlainTokensAre
<1>3. f[0] = t /\ \A n \in 1..N : f[n] = Redact(f[n - 1], tokens[n])
  BY <1>1 DEF Strips
<1>4. ASSUME NEW n \in D, \A k \in D : rank[k] < rank[n] => k \in S PROVE n \in S
  <2>1. CASE n = 0
    <3>1. Around(f[n], a, b)
      BY <1>3, <2>1 DEF t
    <3> HIDE DEF Around
    <3> QED
      BY <3>1
  <2>2. CASE n # 0
    <3>1. n \in 1..N /\ n - 1 \in D /\ n - 1 \in S
      <4> HIDE DEF S
      <4> QED
        BY <1>2, <1>4, <2>2
    <3>2. PICK x, y \in Seq(A) : Around(f[n - 1], x, y)
      BY <3>1
    <3> DEFINE u == tokens[n]
               v == Redact(x, u)
               w == Redact(y, u)
    <3>3. u \in Seq(A) /\ u # <<>> /\ Untouched(x, m, y, u)
      BY <1>2, <3>1, <3>2
    <3> HIDE DEF u
    <3>4. v \in Seq(A) /\ w \in Seq(A)
      BY <3>3, RedactType
    <3>5. f[n] = v \o (m \o w)
      <4>1. f[n] = Redact(x \o (m \o y), u)
        BY <1>3, <3>1, <3>2 DEF u
      <4> QED
        BY <3>3, <4>1, RedactAround
    <3>6. ASSUME NEW k \in 1..N PROVE Untouched(v, m, w, tokens[k])
      <4>1. tokens[k] \in Seq(A) /\ tokens[k] # <<>> /\ \A l \in 1..Len(tokens[k]) : tokens[k][l] # Redacted
        BY <1>2 DEF Plain
      <4>2. Untouched(x, m, y, tokens[k])
        BY <3>2
      <4> QED
        BY <3>3, <4>1, <4>2, UntouchedStays
    <3> HIDE DEF v, w
    <3>7. Around(f[n], v, w)
      BY <3>5, <3>6
    <3> HIDE DEF Around
    <3> QED
      BY <3>4, <3>7
  <2> QED
    BY <2>1, <2>2
<1>5. rank \in [D -> Nat]
  BY <1>2
<1>6. \A n \in D : (\A k \in D : rank[k] < rank[n] => k \in S) => n \in S
  BY <1>4
<1>7. N \in D
  BY <1>2
<1> HIDE DEF rank, D, S
<1>8. N \in S
  BY <1>5, <1>6, <1>7, RankInduction
<1>9. PICK x, y \in Seq(A) : f[N] = x \o (m \o y)
  BY <1>8 DEF S
<1> DEFINE s == x \o (m \o y)
           i == Len(x) + 1
<1>10. /\ s \in Seq(A) /\ Len(s) = Len(x) + Len(m) + Len(y)
       /\ \A k \in 1..Len(m) : s[Len(x) + k] = m[k]
  BY MiddlePlaces
<1>11. Len(x) \in Nat /\ Len(m) \in Nat \ {0} /\ Len(y) \in Nat
  BY <1>9
<1> HIDE DEF s
<1>12. i \in 1..Len(s)
  BY <1>10, <1>11
<1>13. At(m, s, i)
  <2>1. \A k \in 1..Len(m) : i + k - 1 = Len(x) + k
    BY <1>11
  <2> QED
    BY <1>10, <1>11, <2>1 DEF At
<1>14. Mentions(s, m)
  BY <1>10, <1>12, <1>13, MentionsByPlaces
<1> QED
  BY <1>1, <1>9, <1>14 DEF s, t

-----------------------------------------------------------------------------
(* A finite set of texts has a longest one.                                *)
LEMMA HasLongest ==
  ASSUME NEW A, NEW T \in SUBSET Seq(A), IsFiniteSet(T), T # {}
  PROVE  \E t \in T : \A u \in T : Len(u) <= Len(t)
<1> DEFINE D == SUBSET T
           rank == [R \in D |-> Cardinality(R)]
           Longest(R) == \E t \in R : \A u \in R : Len(u) <= Len(t)
           S == {R \in D : R = {} \/ Longest(R)}
<1>1. \A t \in T : Len(t) \in Nat
  OBVIOUS
<1>2. \A R \in D : IsFiniteSet(R) /\ Cardinality(R) \in Nat
  BY FS_Subset, FS_CardinalityType
<1>3. ASSUME NEW R \in D, \A Q \in D : rank[Q] < rank[R] => Q \in S PROVE R \in S
  <2>1. CASE R = {}
    BY <2>1
  <2>2. CASE R # {}
    <3>1. PICK x \in R : TRUE
      BY <2>2
    <3> DEFINE Q == R \ {x}
    <3>2. Q \in D /\ Cardinality(Q) = Cardinality(R) - 1
      BY <1>2, <3>1, FS_RemoveElement
    <3>3. rank[Q] < rank[R]
      BY <1>2, <3>2
    <3>4. Q \in S
      BY <1>3, <3>2, <3>3
    <3>5. CASE Q = {}
      <4>1. R = {x} /\ Len(x) <= Len(x)
        BY <1>1, <3>1, <3>5
      <4>2. Longest(R)
        BY <4>1
      <4> QED
        BY <4>2
    <3>6. CASE Q # {}
      <4>1. PICK y \in Q : \A u \in Q : Len(u) <= Len(y)
        BY <3>4, <3>6
      <4>2. x \in T /\ y \in T /\ y \in R /\ \A u \in R : u = x \/ u \in Q
        BY <3>1, <4>1
      <4>3. CASE Len(x) <= Len(y)
        <5>1. \A u \in R : Len(u) <= Len(y)
          BY <4>1, <4>2, <4>3
        <5>2. Longest(R)
          BY <4>2, <5>1
        <5> QED
          BY <5>2
      <4>4. CASE Len(y) < Len(x)
        <5>1. ASSUME NEW u \in R PROVE Len(u) <= Len(x)
          <6>1. u = x \/ (Len(u) <= Len(y) /\ u \in T)
            BY <4>1, <4>2
          <6> QED
            BY <1>1, <4>2, <4>4, <6>1
        <5>2. Longest(R)
          BY <3>1, <5>1
        <5> QED
          BY <5>2
      <4>5. Len(x) <= Len(y) \/ Len(y) < Len(x)
        BY <1>1, <4>2
      <4> QED
        BY <4>3, <4>4, <4>5
    <3> QED
      BY <3>5, <3>6
  <2> QED
    BY <2>1, <2>2
<1>4. rank \in [D -> Nat]
  BY <1>2
<1>5. \A R \in D : (\A Q \in D : rank[Q] < rank[R] => Q \in S) => R \in S
  BY <1>3
<1>6. T \in D
  OBVIOUS
<1> HIDE DEF rank, D, S
<1>7. T \in S
  BY <1>4, <1>5, <1>6, RankInduction
<1> QED
  BY <1>7 DEF S

(* One item before a text.                                                 *)
LEMMA OneBefore ==
  ASSUME NEW T, NEW l \in T, NEW r \in Seq(T)
  PROVE  <<l>> \o r \in Seq(T) /\ Range(<<l>> \o r) = {l} \cup Range(r)
<1> DEFINE one == <<l>>
           w == one \o r
<1>1. one \in Seq(T) /\ Len(one) = 1 /\ one[1] = l
  OBVIOUS
<1> HIDE DEF one
<1>2. /\ w \in Seq(T) /\ Len(w) = Len(one) + Len(r)
      /\ \A i \in 1..Len(one) : w[i] = one[i]
      /\ \A i \in 1..Len(r) : w[Len(one) + i] = r[i]
  BY <1>1, ConcatPlaces
<1> HIDE DEF w
<1>3. /\ DOMAIN w = 1..(1 + Len(r)) /\ DOMAIN r = 1..Len(r) /\ Len(r) \in Nat
      /\ w[1] = l /\ \A k \in 1..Len(r) : w[1 + k] = r[k]
  BY <1>1, <1>2
<1>4. ASSUME NEW k \in 1..(1 + Len(r)) PROVE w[k] \in {l} \cup Range(r)
  <2>1. CASE k = 1
    BY <1>3, <2>1
  <2>2. CASE k # 1
    <3>1. k - 1 \in 1..Len(r) /\ 1 + (k - 1) = k
      BY <1>3, <2>2
    <3>2. w[1 + (k - 1)] = r[k - 1]
      BY <1>3, <3>1
    <3>3. w[k] = r[k - 1] /\ k - 1 \in DOMAIN r
      BY <1>3, <3>1, <3>2
    <3> QED
      BY <3>3 DEF Range
  <2> QED
    BY <2>1, <2>2
<1>5. l \in Range(w)
  <2>1. 1 \in DOMAIN w
    BY <1>3
  <2> QED
    BY <1>3, <2>1 DEF Range
<1>6. ASSUME NEW k \in 1..Len(r) PROVE r[k] \in Range(w)
  <2>1. 1 + k \in DOMAIN w
    BY <1>3
  <2> QED
    BY <1>3, <2>1 DEF Range
<1>7. Range(w) \subseteq {l} \cup Range(r)
  BY <1>3, <1>4 DEF Range
<1>8. Range(r) \subseteq Range(w)
  BY <1>3, <1>6 DEF Range
<1>9. Range(w) = {l} \cup Range(r)
  BY <1>5, <1>7, <1>8
<1> QED
  BY <1>2, <1>9 DEF w, one

(* The text that is sorted first.                                          *)
LongestOf(rest) == CHOOSE t \in rest : \A u \in rest : Len(u) <= Len(t)

(* Sorting the texts of a finite set keeps them, and has no other.         *)
LEMMA LongestFirstHas ==
  ASSUME NEW A, NEW T \in SUBSET Seq(A), IsFiniteSet(T)
  PROVE  LongestFirst(T) \in Seq(T) /\ Range(LongestFirst(T)) = T
<1> DEFINE D == SUBSET T
           V == Seq(T)
           rank == [R \in D |-> Cardinality(R)]
           N == Cardinality(T) + 1
           Less(R) == R \ {LongestOf(R)}
           value(R, f) == IF R = {} THEN <<>> ELSE <<LongestOf(R)>> \o f[Less(R)]
           e == [x \in [D -> V] \X D |-> value(x[2], x[1])]
<1>1. \A R \in D : IsFiniteSet(R) /\ Cardinality(R) \in Nat /\ Cardinality(R) <= Cardinality(T)
  BY FS_Subset, FS_CardinalityType
<1>2. ASSUME NEW R \in D, R # {}
      PROVE  LongestOf(R) \in R /\ Less(R) \in D /\ rank[Less(R)] < rank[R]
  <2>1. LongestOf(R) \in R
    BY <1>1, <1>2, HasLongest DEF LongestOf
  <2>2. Less(R) \in D /\ Cardinality(Less(R)) = Cardinality(R) - 1
    BY <1>1, <2>1, FS_RemoveElement
  <2> HIDE DEF Less
  <2>3. rank[Less(R)] < rank[R]
    BY <1>1, <2>2
  <2> QED
    BY <2>1, <2>2, <2>3
<1> HIDE DEF Less
<1>3. ASSUME NEW R \in D, NEW f, R # {} => f[Less(R)] \in V
      PROVE  /\ value(R, f) \in V
             /\ R # {} => Range(value(R, f)) = {LongestOf(R)} \cup Range(f[Less(R)])
  <2>1. CASE R = {}
    BY <2>1
  <2>2. CASE R # {}
    <3> DEFINE l == LongestOf(R)
               r == f[Less(R)]
    <3>1. l \in T /\ r \in Seq(T)
      BY <1>2, <1>3, <2>2
    <3> HIDE DEF l, r
    <3>2. <<l>> \o r \in Seq(T) /\ Range(<<l>> \o r) = {l} \cup Range(r)
      BY <3>1, OneBefore
    <3>3. value(R, f) = <<l>> \o r
      BY <2>2 DEF l, r
    <3> HIDE DEF value
    <3> QED
      BY <3>2, <3>3 DEF l, r
  <2> QED
    BY <2>1, <2>2
<1>4. ASSUME NEW f \in [D -> V], NEW R \in D PROVE e[<<f, R>>] = value(R, f)
  OBVIOUS
<1>5. e \in [[D -> V] \X D -> V]
  <2>1. ASSUME NEW x \in [D -> V] \X D PROVE e[x] \in V
    <3>1. x = <<x[1], x[2]>> /\ x[1] \in [D -> V] /\ x[2] \in D
      OBVIOUS
    <3>2. e[x] = value(x[2], x[1])
      OBVIOUS
    <3>3. x[2] # {} => x[1][Less(x[2])] \in V
      BY <1>2, <3>1
    <3> HIDE DEF e, D, V, value
    <3> QED
      BY <1>3, <3>1, <3>2, <3>3
  <2> QED
    BY <2>1
<1>6. ASSUME NEW f \in [D -> V], NEW g \in [D -> V], NEW R \in D,
             \A Q \in D : rank[Q] < rank[R] => f[Q] = g[Q]
      PROVE  e[<<f, R>>] = e[<<g, R>>]
  <2>1. R # {} => f[Less(R)] = g[Less(R)]
    BY <1>2, <1>6
  <2>2. value(R, f) = value(R, g)
    BY <2>1
  <2> HIDE DEF e
  <2> QED
    BY <1>4, <2>2
<1>7. rank \in [D -> Nat] /\ N \in Nat /\ \A R \in D : rank[R] < N
  <2>1. Cardinality(T) \in Nat
    BY FS_CardinalityType
  <2> QED
    BY <1>1, <2>1
<1>8. V # {}
  <2>1. <<>> \in V
    OBVIOUS
  <2> QED
    BY <2>1
<1>9. \A f \in [D -> V], g \in [D -> V], R \in D :
        (\A Q \in D : rank[Q] < rank[R] => f[Q] = g[Q]) => e[<<f, R>>] = e[<<g, R>>]
  BY <1>6
<1> HIDE DEF e, value
<1>10. PICK g \in [D -> V] : \A R \in D : g[R] = e[<<g, R>>]
  <2> HIDE DEF D, V, N, rank
  <2>1. Recursive(D, V, rank, N, e)
    BY <1>5, <1>7, <1>8, <1>9 DEF Recursive
  <2>2. Solvable(D, V, e)
    BY <2>1, Recursion
  <2> QED
    BY <2>2 DEF Solvable, Solution
<1> DEFINE Def(f) == f = [rest \in SUBSET T |->
                            IF rest = {} THEN <<>> ELSE <<LongestOf(rest)>> \o f[rest \ {LongestOf(rest)}]]
<1>11. Def(g)
  <2>1. \A R \in D : g[R] = value(R, g)
    BY <1>4, <1>10
  <2> QED
    BY <1>10, <2>1 DEF value, Less
<1>12. PICK f : Def(f) /\ LongestFirst(T) = f[T]
  BY <1>11 DEF LongestFirst, LongestOf
<1>13. \A R \in D : f[R] = value(R, f)
  BY <1>12 DEF value, Less
<1> HIDE DEF Def
<1> DEFINE S == {R \in D : f[R] \in V /\ Range(f[R]) = R}
<1>14. ASSUME NEW R \in D, \A Q \in D : rank[Q] < rank[R] => Q \in S PROVE R \in S
  <2>1. R # {} => f[Less(R)] \in V /\ Range(f[Less(R)]) = Less(R)
    BY <1>2, <1>14
  <2>2. f[R] \in V /\ (R # {} => Range(f[R]) = {LongestOf(R)} \cup Less(R))
    BY <1>3, <1>13, <2>1
  <2>3. R # {} => {LongestOf(R)} \cup Less(R) = R
    BY <1>2 DEF Less
  <2>4. R = {} => Range(f[R]) = {}
    <3>1. R = {} => f[R] = <<>>
      BY <1>13 DEF value
    <3>2. Range(<<>>) = {}
      BY DEF Range
    <3> QED
      BY <3>1, <3>2
  <2> QED
    BY <2>2, <2>3, <2>4
<1>15. rank \in [D -> Nat]
  BY <1>7
<1>16. \A R \in D : (\A Q \in D : rank[Q] < rank[R] => Q \in S) => R \in S
  BY <1>14
<1>17. T \in D
  OBVIOUS
<1> HIDE DEF S, rank, D, V
<1>18. T \in S
  BY <1>15, <1>16, <1>17, RankInduction
<1> QED
  BY <1>12, <1>18 DEF S, V

-----------------------------------------------------------------------------
(* The values of a function on a finite set are finitely many.             *)
LEMMA ValuesAreFinite ==
  ASSUME NEW S, IsFiniteSet(S), NEW g, DOMAIN g = S
  PROVE  IsFiniteSet({g[x] : x \in S})
<1> DEFINE V == {g[x] : x \in S}
           h == [x \in S |-> g[x]]
<1>1. h \in [S -> V] /\ \A v \in V : \E x \in S : h[x] = v
  OBVIOUS
<1>2. h \in Surjection(S, V)
  BY <1>1 DEF Surjection
<1> QED
  BY <1>2, FS_Surjection

(* So are the items of a text.                                             *)
LEMMA ItemsAreFinite ==
  ASSUME NEW A, NEW s \in Seq(A)
  PROVE  IsFiniteSet(Range(s))
<1>1. IsFiniteSet(1..Len(s)) /\ DOMAIN s = 1..Len(s)
  BY FS_Interval
<1>2. IsFiniteSet({s[x] : x \in 1..Len(s)})
  BY <1>1, ValuesAreFinite
<1> QED
  BY <1>1, <1>2 DEF Range

(* A configuration lists finitely many models.                             *)
LEMMA ListedIsFinite == IsFiniteSet(Listed)
<1> DEFINE P == Range(Providers)
           Models(p) == {<<p, m>> : m \in Range(p.models)}
           g == [p \in P |-> Models(p)]
<1>1. IsFiniteSet(P) /\ \A p \in P : p.models \in Seq(Seq(STRING))
  <2>1. IsFiniteSet(P)
    BY ProvidersAssumption, ItemsAreFinite
  <2>2. \A p \in P : p \in ProviderType
    BY ProvidersAssumption DEF Range
  <2> QED
    BY <2>1, <2>2 DEF ProviderType
<1>2. ASSUME NEW p \in P PROVE IsFiniteSet(Models(p))
  <2> DEFINE M == Range(p.models)
             of == [m \in M |-> <<p, m>>]
  <2>1. IsFiniteSet(M)
    BY <1>1, ItemsAreFinite
  <2>2. IsFiniteSet({of[m] : m \in M})
    <3> HIDE DEF M
    <3> QED
      BY <2>1, ValuesAreFinite
  <2> QED
    BY <2>2
<1>3. IsFiniteSet({g[p] : p \in P})
  <2> HIDE DEF P, Models
  <2> QED
    BY <1>1, ValuesAreFinite
<1>4. {g[p] : p \in P} = {Models(p) : p \in P}
  OBVIOUS
<1>5. \A T \in {g[p] : p \in P} : IsFiniteSet(T)
  BY <1>2
<1>6. IsFiniteSet(UNION {g[p] : p \in P})
  BY <1>3, <1>5, FS_UNION
<1> QED
  BY <1>4, <1>6 DEF Listed

-----------------------------------------------------------------------------
(* The types of what is listed: names of models, and ids, are not empty.   *)
LEMMA ListedTypes ==
  ASSUME NEW x \in Listed
  PROVE  /\ x[1] \in Range(Providers) /\ x[2] \in Range(x[1].models)
         /\ x[1].name \in Seq(STRING) /\ x[1].name # <<>>
         /\ x[2] \in Seq(STRING) /\ x[2] # <<>>
<1>1. PICK p \in Range(Providers) : \E m \in Range(p.models) : x = <<p, m>>
  BY DEF Listed
<1>2. PICK m \in Range(p.models) : x = <<p, m>>
  BY <1>1
<1>3. p \in ProviderType
  BY ProvidersAssumption DEF Range
<1>4. p.name \in Seq(STRING) /\ p.models \in Seq(Seq(STRING)) /\ p.name # <<>> /\ m # <<>>
  BY <1>2, <1>3, ValidAssumption DEF ProviderType, Valid
<1>5. m \in Seq(STRING)
  BY <1>2, <1>4 DEF Range
<1>6. x[1] = p /\ x[2] = m
  BY <1>2
<1> QED
  BY <1>2, <1>4, <1>5, <1>6

(* The atoms of texts, and those that the code puts between or in them.    *)
Atoms == STRING \cup {"/", Redacted}

(* An id, place by place.                                                  *)
LEMMA JoinedPlaces ==
  ASSUME NEW A, NEW n \in Seq(A), NEW m \in Seq(A), "/" \in A
  PROVE  LET w == n \o <<"/">> \o m
         IN  /\ w \in Seq(A) /\ w # <<>>
             /\ \A l \in 1..Len(w) :
                  w[l] = "/" \/ (\E i \in DOMAIN n : w[l] = n[i]) \/ (\E i \in DOMAIN m : w[l] = m[i])
<1> DEFINE s == <<"/">>
           w == n \o s \o m
<1>1. s \in Seq(A) /\ Len(s) = 1 /\ s[1] = "/"
  OBVIOUS
<1> HIDE DEF s
<1>2. s \in Seq(A)
  BY <1>1
<1>3. /\ w \in Seq(A) /\ Len(w) = Len(n) + Len(s) + Len(m)
      /\ \A i \in 1..Len(n) : w[i] = n[i]
      /\ \A i \in 1..Len(s) : w[Len(n) + i] = s[i]
      /\ \A i \in 1..Len(m) : w[Len(n) + Len(s) + i] = m[i]
  BY <1>2, InARow
<1>4. Len(n) \in Nat /\ Len(m) \in Nat /\ DOMAIN n = 1..Len(n) /\ DOMAIN m = 1..Len(m)
  OBVIOUS
<1> HIDE DEF w
<1>5. w # <<>>
  BY <1>1, <1>3, <1>4
<1>6. ASSUME NEW l \in 1..Len(w)
      PROVE  w[l] = "/" \/ (\E i \in DOMAIN n : w[l] = n[i]) \/ (\E i \in DOMAIN m : w[l] = m[i])
  <2>1. CASE l <= Len(n)
    <3>1. l \in 1..Len(n)
      BY <1>4, <2>1
    <3> QED
      BY <1>3, <1>4, <3>1
  <2>2. CASE l = Len(n) + 1
    BY <1>1, <1>3, <2>2
  <2>3. CASE l > Len(n) + 1
    <3>1. l - Len(n) - 1 \in 1..Len(m) /\ Len(n) + Len(s) + (l - Len(n) - 1) = l
      BY <1>1, <1>3, <1>4, <2>3
    <3>2. w[Len(n) + Len(s) + (l - Len(n) - 1)] = m[l - Len(n) - 1]
      BY <1>3, <3>1
    <3>3. w[l] = m[l - Len(n) - 1]
      BY <3>1, <3>2
    <3> QED
      BY <1>4, <3>1, <3>3
  <2> QED
    BY <1>3, <1>4, <2>1, <2>2, <2>3
<1> QED
  BY <1>3, <1>5, <1>6 DEF w, s

(* What is listed, in the atoms of a configuration.                        *)
LEMMA ListedAtoms ==
  ASSUME NEW x \in Listed
  PROVE  x[1].name \in Seq(Atoms) /\ x[2] \in Seq(Atoms) /\ "/" \in Atoms
<1>1. STRING \subseteq Atoms /\ "/" \in Atoms
  BY DEF Atoms
<1>2. x[1].name \in Seq(STRING) /\ x[2] \in Seq(STRING)
  BY ListedTypes
<1>3. \A t \in Seq(STRING) : t \in Seq(Atoms)
  BY <1>1, SeqMonotonic
<1> QED
  BY <1>1, <1>2, <1>3

(* An id of it.                                                            *)
LEMMA IdType ==
  ASSUME NEW x \in Listed
  PROVE  LET id == Id(x[1], x[2])
         IN  /\ id \in Seq(Atoms) /\ id # <<>>
             /\ \A l \in 1..Len(id) :
                  \/ id[l] = "/"
                  \/ \E i \in DOMAIN x[1].name : id[l] = x[1].name[i]
                  \/ \E i \in DOMAIN x[2] : id[l] = x[2][i]
<1> DEFINE n == x[1].name
           m == x[2]
<1>1. n \in Seq(Atoms) /\ m \in Seq(Atoms) /\ "/" \in Atoms
  BY ListedAtoms
<1>2. Id(x[1], x[2]) = n \o <<"/">> \o m
  BY DEF Id
<1> HIDE DEF n, m
<1>3. LET w == n \o <<"/">> \o m
      IN  /\ w \in Seq(Atoms) /\ w # <<>>
          /\ \A l \in 1..Len(w) :
               w[l] = "/" \/ (\E i \in DOMAIN n : w[l] = n[i]) \/ (\E i \in DOMAIN m : w[l] = m[i])
  BY <1>1, JoinedPlaces
<1> QED
  BY <1>2, <1>3 DEF n, m

(* The tokens beside a model are made of them, and are the names and the   *)
(* ids of the others that are listed.                                      *)
LEMMA TokensBesideHas ==
  ASSUME NEW model \in {x[2] : x \in Listed}
  PROVE  LET others == {x \in Listed : x[2] # model}
         IN  /\ OtherModelTokens(model) \in Seq(Seq(Atoms))
             /\ Range(OtherModelTokens(model)) = {x[2] : x \in others} \cup {Id(x[1], x[2]) : x \in others}
<1> DEFINE others == {x \in Listed : x[2] # model}
           names == {x[2] : x \in others}
           ids == {Id(x[1], x[2]) : x \in others}
           T == names \cup ids
<1>1. IsFiniteSet(others)
  BY ListedIsFinite, FS_Subset
<1>2. IsFiniteSet(names)
  <2> DEFINE g == [x \in others |-> x[2]]
  <2>1. names = {g[x] : x \in others} /\ DOMAIN g = others
    OBVIOUS
  <2> HIDE DEF g, names, others
  <2> QED
    BY <1>1, <2>1, ValuesAreFinite
<1>3. IsFiniteSet(ids)
  <2> DEFINE g == [x \in others |-> Id(x[1], x[2])]
  <2>1. ids = {g[x] : x \in others} /\ DOMAIN g = others
    OBVIOUS
  <2> HIDE DEF g, ids, others
  <2> QED
    BY <1>1, <2>1, ValuesAreFinite
<1>4. T \in SUBSET Seq(Atoms)
  BY ListedAtoms, IdType
<1>5. OtherModelTokens(model) = LongestFirst(T)
  BY DEF OtherModelTokens, OtherTokens, TokensBeside
<1>6. IsFiniteSet(T)
  <2> HIDE DEF names, ids
  <2> QED
    BY <1>2, <1>3, FS_Union
<1>7. Range(LongestFirst(T)) = T /\ LongestFirst(T) \in Seq(T)
  <2> HIDE DEF T
  <2> QED
    BY <1>4, <1>6, LongestFirstHas
<1>8. LongestFirst(T) \in Seq(Seq(Atoms))
  <2> HIDE DEF T
  <2> QED
    BY <1>4, <1>7, SeqMonotonic
<1> QED
  BY <1>5, <1>7, <1>8

(* The tokens beside a model: the names and the ids of all others that are *)
(* listed, and nothing else: none is lost and none made up by sorting them *)
(* (other_model_tokens).                                                   *)
THEOREM TokensAreAllOthers ==
  ASSUME NEW model \in {x[2] : x \in Listed}
  PROVE  LET others == {x \in Listed : x[2] # model}
         IN  Range(OtherModelTokens(model)) = {x[2] : x \in others} \cup {Id(x[1], x[2]) : x \in others}
BY TokensBesideHas

(* No name of a configuration contains what is put in place of a name.     *)
NamesArePlain ==
  \A p \in Range(Providers) :
    /\ \A i \in DOMAIN p.name : p.name[i] # Redacted
    /\ \A m \in Range(p.models) : \A i \in DOMAIN m : m[i] # Redacted

(* Then neither does an id, nor a token.                                   *)
LEMMA ListedIsPlain ==
  ASSUME NamesArePlain, NEW x \in Listed
  PROVE  Plain(x[2]) /\ Plain(Id(x[1], x[2]))
<1> DEFINE n == x[1].name
           m == x[2]
           id == Id(x[1], x[2])
<1>1. /\ \A i \in DOMAIN n : n[i] # Redacted
      /\ \A i \in DOMAIN m : m[i] # Redacted
  BY ListedTypes DEF NamesArePlain
<1>2. m # <<>> /\ DOMAIN m = 1..Len(m)
  BY ListedTypes
<1>3. id # <<>> /\ \A l \in 1..Len(id) :
        id[l] = "/" \/ (\E i \in DOMAIN n : id[l] = n[i]) \/ (\E i \in DOMAIN m : id[l] = m[i])
  BY IdType
<1>4. "/" # Redacted
  BY DEF Redacted
<1> HIDE DEF n, m, id
<1>5. \A l \in 1..Len(id) : id[l] # Redacted
  BY <1>1, <1>3, <1>4
<1>6. \A l \in 1..Len(m) : m[l] # Redacted
  BY <1>1, <1>2
<1>7. Plain(m) /\ Plain(id)
  BY <1>2, <1>3, <1>5, <1>6 DEF Plain
<1> QED
  BY <1>7 DEF m, id

(* So it is with all tokens beside a model.                                *)
LEMMA TokensArePlain ==
  ASSUME NamesArePlain, NEW model \in {x[2] : x \in Listed}
  PROVE  PlainTokens(Atoms, OtherModelTokens(model))
<1> DEFINE others == {x \in Listed : x[2] # model}
           tokens == OtherModelTokens(model)
<1>1. /\ tokens \in Seq(Seq(Atoms))
      /\ Range(tokens) = {x[2] : x \in others} \cup {Id(x[1], x[2]) : x \in others}
  BY TokensBesideHas
<1>2. \A u \in Range(tokens) : Plain(u)
  BY <1>1, ListedIsPlain
<1> HIDE DEF tokens
<1>3. \A n \in 1..Len(tokens) : tokens[n] \in Range(tokens)
  BY <1>1 DEF Range
<1>4. PlainTokens(Atoms, tokens)
  BY <1>1, <1>2, <1>3 DEF PlainTokens
<1> QED
  BY <1>4 DEF tokens

(* A text in three parts.                                                  *)
SplitsAround(A, t, m, i) ==
  LET a == SubSeq(t, 1, i - 1)
      b == From(t, i + Len(m))
  IN  a \in Seq(A) /\ b \in Seq(A) /\ Len(a) = i - 1 /\ t = a \o (m \o b)

(* So it is around a place where another text occurs.                      *)
LEMMA SplitAround ==
  ASSUME NEW A, NEW t \in Seq(A), NEW m \in Seq(A), m # <<>>, NEW i \in 1..Len(t), OccursAt(m, t, i)
  PROVE  SplitsAround(A, t, m, i)
<1> DEFINE n == Len(t)
           a == SubSeq(t, 1, i - 1)
           k == i + Len(m) - 1
           b == SubSeq(t, k + 1, n)
<1>1. n \in Nat /\ Len(m) \in Nat \ {0} /\ k \in i..n /\ \A j \in 1..n : t[j] \in A
  BY DEF OccursAt
<1>2. m = SubSeq(t, i, k)
  BY DEF OccursAt
<1> HIDE DEF k
<1>3. a \in Seq(A) /\ Len(a) = i - 1
  <2>1. \A j \in 1..(i - 1) : t[j] \in A
    BY <1>1
  <2> QED
    BY <1>1, <2>1, SubSeqProperties
<1>4. b \in Seq(A)
  <2>1. \A j \in (k + 1)..n : t[j] \in A
    BY <1>1
  <2> QED
    BY <1>1, <2>1, SubSeqProperties
<1>5. m \o b = SubSeq(t, i, n)
  <2>1. i \in 1..(n + 1) /\ k \in (i - 1)..n /\ n \in k..n
    BY <1>1
  <2> QED
    BY <1>2, <2>1, ConcatAdjacentSubSeq
<1>6. a \o SubSeq(t, i, n) = SubSeq(t, 1, n)
  <2>1. 1 \in 1..(n + 1) /\ i - 1 \in (1 - 1)..n /\ n \in (i - 1)..n /\ i - 1 + 1 = i
    BY <1>1
  <2> QED
    BY <2>1, ConcatAdjacentSubSeq
<1>7. SubSeq(t, 1, n) = t
  BY SubSeqFull
<1>8. From(t, i + Len(m)) = b
  BY <1>1 DEF From, k
<1>9. t = a \o (m \o b)
  BY <1>5, <1>6, <1>7
<1> HIDE DEF a, b
<1> QED
  BY <1>3, <1>4, <1>8, <1>9 DEF SplitsAround, a, b

(* What is left of a description when the other models are cut out of it   *)
(* (strip_other_model_mentions): no other model's name or id, and none     *)
(* that cutting would have made; the asked model only where it was, and    *)
(* wherever it was and no other name overlapped it.                        *)
THEOREM OthersAreCut ==
  ASSUME NamesArePlain, NEW model \in {x[2] : x \in Listed}, NEW t \in Seq(Atoms)
  PROVE  LET tokens == OtherModelTokens(model)
             s == StripText(t, tokens)
         IN  /\ \A other \in Range(tokens) : ~Mentions(s, other)
             /\ Mentions(s, model) => Mentions(t, model)
             /\ \A i \in DOMAIN t :
                  /\ OccursAt(model, t, i)
                  /\ \A other \in Range(tokens), j \in DOMAIN t :
                       OccursAt(other, t, j) => j + Len(other) <= i \/ i + Len(model) <= j
                  => Mentions(s, model)
<1> DEFINE tokens == OtherModelTokens(model)
           s == StripText(t, tokens)
           A == Atoms
<1>1. PlainTokens(A, tokens) /\ Redacted \in A
  BY TokensArePlain DEF Atoms
<1>2. model \in Seq(A) /\ Plain(model)
  BY ListedAtoms, ListedIsPlain
<1>3. tokens \in Seq(Seq(A)) /\ DOMAIN tokens = 1..Len(tokens)
  BY <1>1 DEF PlainTokens
<1> HIDE DEF tokens, A
<1>4. /\ \A k \in 1..Len(tokens) : ~Mentions(s, tokens[k])
      /\ \A u \in Seq(A) : Plain(u) /\ Mentions(s, u) => Mentions(t, u)
  BY <1>1, StripCleans DEF A
<1>5. \A other \in Range(tokens) : ~Mentions(s, other)
  BY <1>3, <1>4 DEF Range
<1>6. Mentions(s, model) => Mentions(t, model)
  BY <1>2, <1>4
<1>7. ASSUME NEW i \in DOMAIN t, OccursAt(model, t, i),
             \A other \in Range(tokens), j \in DOMAIN t :
               OccursAt(other, t, j) => j + Len(other) <= i \/ i + Len(model) <= j
      PROVE  Mentions(s, model)
  <2> DEFINE a == SubSeq(t, 1, i - 1)
             b == From(t, i + Len(model))
             w == a \o (model \o b)
  <2>1. t \in Seq(A) /\ i \in 1..Len(t) /\ model # <<>> /\ Len(t) \in Nat /\ DOMAIN t = 1..Len(t)
    BY <1>2 DEF A, Plain
  <2>2. a \in Seq(A) /\ b \in Seq(A) /\ Len(a) = i - 1 /\ t = w
    <3>1. model \in Seq(A) /\ OccursAt(model, t, i)
      BY <1>2, <1>7
    <3>2. SplitsAround(A, t, model, i)
      BY <2>1, <3>1, SplitAround
    <3> QED
      BY <3>2 DEF SplitsAround
  <2> HIDE DEF a, b
  <2>3. ASSUME NEW k \in 1..Len(tokens) PROVE Untouched(a, model, b, tokens[k])
    <3> DEFINE u == tokens[k]
    <3>1. u \in Range(tokens) /\ u \in Seq(A) /\ u # <<>>
      BY <1>1, <1>3, PlainTokensAre DEF Range
    <3> HIDE DEF u
    <3>2. ASSUME NEW j \in 1..Len(w), At(u, w, j)
          PROVE  j + Len(u) - 1 <= Len(a) \/ j > Len(a) + Len(model)
      <4> HIDE DEF w
      <4>0. At(u, t, j) /\ j \in 1..Len(t)
        BY <2>2, <3>2
      <4>1. OccursAt(u, t, j) /\ j \in DOMAIN t
        BY <2>1, <3>1, <4>0, OccursByPlaces
      <4>2. j + Len(u) <= i \/ i + Len(model) <= j
        BY <1>7, <3>1, <4>1
      <4>3. Len(u) \in Nat /\ Len(model) \in Nat /\ j \in Nat /\ i \in Nat
        BY <1>2, <2>1, <2>2, <3>1
      <4> QED
        BY <2>2, <4>2, <4>3, SMTT(30)
    <3>3. Untouched(a, model, b, u)
      BY <3>2 DEF Untouched
    <3> QED
      BY <3>3 DEF u
  <2>4. Mentions(StripText(w, tokens), model)
    <3> HIDE DEF w
    <3>1. Redacted \in A /\ PlainTokens(A, tokens) /\ model \in Seq(A) /\ model # <<>>
      BY <1>1, <1>2, <2>1
    <3> QED
      BY <2>2, <2>3, <3>1, StripKeeps DEF w
  <2> HIDE DEF w
  <2> QED
    BY <2>2, <2>4
<1> HIDE DEF s
<1> QED
  BY <1>5, <1>6, <1>7 DEF tokens, s

(* A text that names no other model is not cut.                            *)
LEMMA OthersAreSpared ==
  ASSUME NamesArePlain, NEW model \in {x[2] : x \in Listed}, NEW t \in Seq(Atoms),
         \A other \in Range(OtherModelTokens(model)) : ~Mentions(t, other)
  PROVE  StripText(t, OtherModelTokens(model)) = t
<1> DEFINE tokens == OtherModelTokens(model)
           A == Atoms
<1>1. PlainTokens(A, tokens) /\ Redacted \in A /\ t \in Seq(A)
  BY TokensArePlain DEF Atoms
<1>2. tokens \in Seq(Seq(A)) /\ DOMAIN tokens = 1..Len(tokens)
  BY <1>1 DEF PlainTokens
<1> HIDE DEF tokens, A
<1>3. \A k \in 1..Len(tokens) : ~Mentions(t, tokens[k])
  <2>1. \A k \in 1..Len(tokens) : tokens[k] \in Range(tokens)
    BY <1>2 DEF Range
  <2>2. \A other \in Range(tokens) : ~Mentions(t, other)
    BY DEF tokens
  <2> QED
    BY <2>1, <2>2
<1>4. StripText(t, tokens) = t
  BY <1>1, <1>3, StripLeaves
<1> QED
  BY <1>4 DEF tokens

(* No value is left of an enum that is another model's name or id.         *)
LEMMA EnumTells ==
  ASSUME NEW A, NEW values \in Seq(A), NEW tokens
  PROVE  \A other \in Range(tokens) : other \notin Range(StripEnum(values, tokens))
<1> DEFINE S == Range(values) \ Range(tokens)
           k == Kept(values, S)
<1>1. k \in Seq(A \cap S)
  BY KeptAreItems
<1>2. StripEnum(values, tokens) = k
  BY DEF StripEnum
<1> HIDE DEF k
<1>3. \A l \in DOMAIN k : k[l] \in S
  BY <1>1
<1> QED
  BY <1>2, <1>3 DEF Range
=============================================================================
