# llm-tool-whisper: a TLA+ model of the tool bridge

llm-tool-whisper is an HTTP proxy for chat models. A client speaks Chat
Completions, Responses or Messages; a configured provider speaks one of the
three. When a request carries tools (or the two protocols differ) the proxy
rewrites it into a plain chat turn whose prompt asks the model to answer tool
calls as XML, and turns the XML in the answer back into the client's native
tool calls. Other requests are relayed with the model name rewritten.

This directory holds TLA+ modules of that program, the TLC runs that check
them, and theorems that TLAPS checks. `PROJECT.json` maps every definition that
stands for code to the lines it stands for.

## Inventory

| Component (source) | State | Operations | Talks to | What makes it correct |
| --- | --- | --- | --- | --- |
| Native stream emitter (`bridge.rs` 2049-2419) | `started`, `open_block`, `next_index` | `emit_piece`, `emit_tool_calls`, `finish_text`, frame by frame | the client's channel | every prefix of the frames extends to a well-formed reply of the protocol; refused sends never leave a reply that looks whole |
| Streaming turn (`bridge.rs` 580-624, 673-763) | captured calls, first send error, scanner, splitter, emitter; the keepalive task and its clone of the sender | deltas, flush, conclusion, abort, error report, ticks | upstream reader, emitter, HTTP body | one outcome per reply, agreeing with what the upstream did; both tasks end; calls only from turns that finished |
| Tool-call scanner (`stream.rs` 146-283) | `buf`, `capturing_end` | `feed`, `finish` | XML parser, turn | events do not depend on how the text was cut into chunks; no XML reaches the client; no prose is lost |
| Thinking splitter (`stream.rs` 36-144, `upstream.rs` 193-242) | state, `buf` | `feed`, `finish` | turn | at most one thinking piece, first; streaming and non-streaming agree |
| XML parser (`xml_protocol.rs`) | none | fragment location, strict / lenient parsing, aliases | scanner, JSON path | what was asked for in the prompt parses back to itself |
| Upstream reader (`upstream.rs` 36-168) | SSE buffer, text | `forward_request`, `complete_turn_json`, `drive_successful_stream` | turn | frames and characters survive any chunking |
| Passthrough and model rewriter (`bridge.rs` 214-321, 2518-2687) | frame buffer | relay, `SseModelRewriter::push`, `finish` | client | only model names change |
| Routing (`provider.rs`, `bridge.rs` 74-212, 829-976) | immutable config | `resolve`, `needs_tool_bridge`, stripping of other models' names | all paths | every advertised model resolves to its provider |
| Request translation (`bridge.rs` 978-1587) | none | tools to prompt, history to chat, results to XML | upstream request | no turn, call or result of the history is lost |
| JSON replies (`bridge.rs` 323-489, 1623-1998) | none | calls, prose and reasoning to native replies | client | every call, all prose, all reasoning are in the reply |
| Config (`config.rs`) | immutable after start | load, validate | routing | what `validate` promises is all that routing relies on |
| Server, shutdown, logging | library | serve, stop, print | - | not modelled, see below |

The hard behaviours are of two kinds. One is the streaming path: two tasks and
the HTTP body share an unbounded channel; the client can leave between any two
frames; the upstream can fail or fall silent at any point; `abort()` acts only
at an await; an operation of the emitter is several sends and may be refused
after any of them; and the readers, the scanner and the splitter decide from
bytes that arrive cut anywhere. The other is that the bridge remembers nothing
between two requests: what a tool result belongs to, and what an earlier answer
was, is found again in the history each client writes in its own protocol, with
ids the bridge itself made up. `PROJECT.json` lists each hazard at its line.

## Modules and how they correspond to the code

```
Wire <- StreamEmitter <- StreamSession              (bridge.rs, upstream.rs)
  ^         ^  \            ^------------ StreamSessionProofs
  ClientStream  StreamEmitterProofs

TextLines <- XmlText <- Scanner <- ScannerMC        (stream.rs, xml_protocol.rs)
   ^  ^                    ^------- ScannerProofs
   |  ThinkingSplitter <- SplitterMC                (stream.rs, upstream.rs)
   |  ^       ^----------- SplitterProofs
   |  SseBody <- SseReader, SseRewriter             (upstream.rs, bridge.rs)
   |                  ^--- SseTurns <- SseMC             SseTurns -INSTANCE-> Framing
   |                          ^------- SseProofs
   Routing <- RoutingProofs                         (provider.rs, config.rs, bridge.rs)
      ^            ^----------------------\
      Conversation <- ConversationMC       |        (bridge.rs, protocol.rs)
       |       ^----- ConversationProofs --/
       Replies -> Translation
```

An arrow points to the module that is extended. `TextLinesProofs` has the
lemmas that `ScannerProofs`, `SplitterProofs`, `SseProofs`, `RoutingProofs` and
`ConversationProofs` share: about blank lines, about recursion and induction
over a text, and about what flattening, selecting, joining and trimming keep.

### The streaming turn

**Wire** names the frames of the three streaming protocols in one vocabulary
and defines a decoder: its state after a frame, and the frames a strict decoder
accepts next. The channel is FIFO and loses nothing while its receiver lives,
so what a decoder has read is a function of what was sent, and the channel
needs no variable of its own.

**ClientStream** is the abstract specification: a client receives frames, each
acceptable after the last. It knows nothing of blocks, tasks or sends.

**StreamEmitter** is `NativeStreamEmitter`. One action is one
`send_event_now`, so the keepalive's comments and the client's departure fall
between any two frames of an operation. `started`, `openBlock` and `nextIndex`
are the struct's fields; `op` is the operation under way (the program counter
inside `emit_piece`, `emit_tool_calls`, `finish_text`); `failed` says that an
operation returned `Err`. The order of assignments around a send is the code's:
`started` and `open_block` change before it, `next_index` after it, so a
refused send leaves them as the code leaves them. The caller is arbitrary:
pieces in any order, then at most one concluding operation.

**StreamSession** composes the emitter with the rest of a turn. `phase` is the
position of the spawned task: `drive` (inside `drive_successful_stream`),
`flush` (events of `scanner.finish` and `thinking.finish`), `close` (the
concluding operation), `over` (`stream_once` returned), `report` (after
`keepalive.abort()`), `done`. `events` holds what one delta released and the
closure has not handled yet. The keepalive task is `waiting` at its tick,
`woken` past it, or `gone`. The upstream sends deltas, ends, fails or stays
silent. What the session takes for granted of the splitter, that thinking comes
at most once and first, is `ThinkingLeads` of `ThinkingSplitter`, and is proved.

### The text of a turn

**XmlText** is the fragment locator and the parser of `xml_protocol.rs` as
operators over texts of atoms: brackets, slashes, tag names, one attribute, the
CDATA brackets and words. A text can be cut between any two atoms, so inside a
tag. The readings of a fragment are tried in the code's order: the block the
prompt asks for, a tool named by its tag's attribute, a block of invokes, name
and arguments wherever they are, and what is left.

**Scanner** is `Scanner::feed` and `finish`: `buf`, `capturing` (the tag whose
closer ends the capture, `capturing_end` in the code) and one action for each
branch of the loop's body. `out` keeps the events, one per atom of emitted
text, so that two ways of cutting the same text can be compared.
**ScannerMC** has the documents of the runs.

**TextLines** has the string functions the program's text handling is built
from: the first blank line in either spelling (`find_sse_separator`,
`first_blank_line`), `str::lines`, `str::trim`.

**ThinkingSplitter** is `ThinkingSplitter::feed`, `flush_thinking` and `finish`,
one action for each way a call of `feed` can go. `shown` is what a client has
of the pieces released so far: the thoughts and the text as one. `ViewOf` is the
same of a whole text, without a buffer, and `SplitLeadingThinking` is the other
function that splits thoughts off (`split_leading_thinking`, for replies that
are not streamed; it leaves a text alone whose thought does not end or is empty).
`WholeReply` is what such a reply shows. **SplitterMC** has the texts.

### The bytes of a stream

**SseBody** is the body of an event stream in bytes, cut into chunks, and what
is in it: lines, JSON values, a character of two bytes, per-chunk decoding with
replacement characters (`String::from_utf8_lossy`). The characters of a value
are the string `extract_stream_delta` finds in it, under whatever key; which keys
those are in the events of each protocol is said in `Replies`.

**SseReader** is `drive_successful_stream`: a poll of the body, or one turn of
the inner loop over complete frames, with `parse_sse_frame` and its errors.

**SseRewriter** is `rewrite_sse_model_stream` with `SseModelRewriter`: `push`,
which holds back bytes rather than characters, and `finish`.

**Framing** is the abstract specification of both: the complete frames of what
has arrived are handled once each, in order, and none waits for a later chunk or
is missed at the end. **SseTurns** feeds one body to both, states that each
implements `Framing` under its own refinement mapping, and compares what they
make of the body with what the event-stream standard reads in it. **SseMC** has
the bodies.

### Requests and replies

**Routing** is the configuration as `validate` leaves it (an assumption), the
list of models, `split_model` and `resolve`, `apply_provider_headers` with the
headers `forward_request` leaves behind, and the redaction of other models'
names in tool definitions. A tool has a name, a description and an enum; the
first two stand for all strings of its definition, which the code redacts alike.
A name is a sequence of atoms, so that one model's name can be a part of
another's, or of a tool's, and hold a slash.

**Translation** is what happens to a body: `needs_tool_bridge`, `collect_tools`,
the three rewritings of calls and results, `value_indicates_error`,
`inject_system_prompt`, `prepare_tool_request`, and Messages to Chat. The content
of a chat message that stands beside calls is a string (`TextPart`) or an array
of parts (`ContentPart`), since `rewrite_chat_tool_results` keeps only the first.

**Replies** is what happens to an answer: `bridge_json` with
`native_tool_calls_response` and `structure_response_body`,
`chat_response_to_messages_body`, the passthrough, and a bridged stream as its
client puts it together. `StreamOf` (external) is the sequence of events in which
an upstream of each protocol streams an answer, with the field that holds each
event's string; `ExtractStreamDelta` is what the bridge reads of an event. A
Responses upstream names most of its strings `delta` and sends every text a
second time when it is done, and the bridge reads all of them.

**Conversation** composes them: `Refuse` and `Forward` are `Bridge::handle` up
to the request, `UpstreamAnswers` and `UpstreamFails` the rest. The client, the
tools and the upstream are external and do what their protocols allow. The
client keeps its `history` in its own protocol; `log` is a history variable that
records what was said, by whom, independently of how anybody spells it.
**ConversationMC** has the providers, clients, tools and answers.

## Runs

| Run | States | What it shows |
| --- | --- | --- |
| `session` | 101 386 | `SessionInv`; the emitter's fields agree with the decoder (`EmitterInv`), and every frame is one that `ClientStream` allows next (`WireWellFormed`): envelope first, one block open at a time, contiguous indices, one outcome, a stop reason that agrees with the calls, wherever comments fall and whenever the client leaves. A complete reply is the whole of a turn that ended well (`CompleteMeansWhole`); no calls from a turn that may still fail (`CallsOnlyFromFinishedTurns`); an error frame blames only the upstream (`ErrorsAreUpstreams`); no silent end (`NoSilentEnd`); the turn's use of the emitter is the one its own specification assumes (`UsesEmitterRightly`); both tasks end (`TurnEnds`, `KeepaliveLeavesWithClient`) and a good turn completes (`CleanTurnCompletes`). |
| `session_outlives_client` | violation | `TurnLivesAsLongAsClient` fails: the closure remembers the first refused send and goes on reading the upstream. |
| `scanner` | 75 476 | `ScannerInv`; the calls are those of the whole text, as in a non-streaming reply (`CallsAgree`); every word comes out once and in its place (`NothingLost`); no opening tag streams out as prose (`OpenersHidden`); the loop terminates (`FeedAdvances`). |
| `scanner_early_cut` | violation | `BlocksIntercepted` fails: while a wrapped call arrives, a closing tag inside the CDATA of its arguments ends the early cut; the call is handed over with half of its arguments, and the rest of the block, its closing tags included, is emitted as prose. |
| `scanner_prose` | violation | `ProseForwarded` fails: a capture opened by a `<name>` tag (a mention in prose, or a call without its wrapper) runs to the next `</tool_call>`, and the prose in it is dropped once a call in it parses. |
| `splitter` | 172 882 | `SplitterInv`; what has been released is the splitting of what has arrived, however it was cut (`CutsDoNotShow`); thinking comes at most once and first (`ThinkingLeads`); no word is lost or repeated (`NoWordLost`); a thought that ends and is not empty is read alike with and without streaming, and what each reply shows of the other marked texts (`StreamAgreesWithReply`). |
| `sse` | 45 105 | `SseInv`; a bridged turn hands on the texts of the body's events and fails where the body does, and a cut costs at most the character it goes through (`TurnReadsTheBody`); in the rewritten body a client's parser finds the upstream's events with only model names changed (`EventsRewritten`); both readers implement `Framing` (`ReaderKeepsFraming`, `RewriterKeepsFraming`). |
| `conversation` | 324 613 | `ConversationInv`; the upstream is told the whole dialogue as the client holds it, every result under the name of its call (`UpstreamSeesDialogue`); tools arrive as one prompt in its place, under their own names unless these hold another model's (`PromptDescribesTools`), which names no other model, and the asked one where the client did (`ModelsUnmentioned`); requests go where their id is listed (`RoutedAsListed`) with one credential (`CredentialsAreProviders`) and are refused only for a reason (`RefusedForAReason`); bridged replies carry the words and calls of an answer, under fresh ids, and nothing else unless a Responses upstream streams (`ReplyCarriesAnswer`). |
| `conversation_tools` | violation | `PromptDescribesTools` fails: a Responses client that spells its function tools flat, as that protocol does, loses them; they leave the body and do not reach the prompt. |
| `conversation_history` | violation | `RefusedForAReason` fails: a Messages client that returns the thinking block of an earlier reply to a provider that speaks Chat is refused. |
| `conversation_thinking` | violation | `ThinkingKept` fails: of an answer that has reasoning of its own, thinking that leaked into the text is taken out of it and shown nowhere. |
| `conversation_stream` | violation | `ReplyIsAnswer` fails: of a Responses upstream that streams, the client is shown the reasoning as text, and everything twice. |

The violation runs state sentences of the README and of comments in the
source; `findings` in `PROJECT.json` quotes them with their places.

### Bounds, and why they are enough

- `session`: three deltas of up to two events and four items in all. A piece
  and a call can come from one delta, calls can precede and follow pieces, and
  `finish` can release both; nothing in the code counts further than "the first
  error", "any call". The theorems below remove the bounds on the safety part.
  The pieces come in the order the splitter releases them;
  `EmitterInvariant` and `EmitterKeepsPromise` hold of a caller that hands them
  over in any order.
- `scanner`: every document of up to three segments out of prose, prose with a
  stray `<`, an arguments element of no call, and two calls (one with CDATA),
  the calls with their wrapper or without it; and of up to two segments with a
  `function_calls` block of two invokes, an invoke by itself and a call named by
  its tag. Every cut into chunks and every place where the answer may stop is
  explored. A call looks back at no more than the segment before it, so three
  segments cover a call between two others; the other spellings are captured
  up to their own closing tag and look back at nothing. Wrapped and bare calls
  in one document (`scanner_prose`), and markup inside arguments
  (`scanner_early_cut`), have runs of their own and are left out here.
- `splitter`: `MaxLines = 2` lines behind the beginning, quoted, empty, plain or
  once more the marker, each broken in either way, and a quoted tail. Two
  lines give a thought of one line, its blank line in each spelling (and in the
  mixed ones, which are none), text behind it, and a thought of quotation marks
  only, ended and not. Chunks of any size. The
  proofs remove the bound for all five properties.
- `sse`: bodies of up to `MaxFrames = 2` frames and a tail, in both spellings,
  with every line the readers tell apart; chunks of up to `MaxChunk = 2` atoms
  or all that is left. Two frames give one chunk that completes both and a
  chunk that ends in either separator; the longest thing that may be cut in
  more than two places is the separator of four bytes, which chunks of one byte
  cut everywhere. The proofs remove the bounds for all five properties, for the
  two about events of bodies in one spelling of line breaks.
- `conversation`: `MaxRequests = 2`, that is a question and then its tool
  results or a second question, or a retry; an answer has up to two calls, and
  their results come in any order. The calls of an answer are all in its text or
  (in a passthrough turn, or from an upstream that calls on its own) all native;
  the proofs allow both at once. A chat client writes an answer's text beside
  its calls as a string, and one of them as an array of parts. One tool's name
  holds the name of a model.
  Five providers cover the equal protocols, the one translation there is and a
  pair with none, a slash in a model's name, a model's name inside another's,
  and credentials in common, other and no headers. No provider's name holds a
  slash; see the known limits. The nine ids of `CallIds` are more than two
  answers of two calls use up, read twice. The proofs remove the bounds for all
  of the run's properties. `conversation_stream` has one answer, a word with a
  word of reasoning, and stops at the first reply that differs from it.

### Fairness

The session assumes weak fairness of the task (a ready future is polled), of
the tick (the timer fires) and of the keepalive's steps. It assumes nothing of
the upstream, which may stay silent for ever, nor of the client. `TurnEnds` is
therefore conditional on the upstream's end, as `config.rs` says of streaming
turns. The scanner, the splitter, the two stream readers and the
conversation are used without fairness: they state safety properties, and
termination of the scanner's loop is a measure that every turn lowers. That
nothing is held for ever is stated as safety too: `HoldInv` and the buffer
invariants of the readers say what may be held at any time, and `Framing`
that the next chunk is taken only when every complete frame was handled.

`CHECK_DEADLOCK` is off where a run really may stop: a turn that is over with
its client gone, a scanner, a splitter or a body that has finished, and a
conversation that has used its requests or was refused.

## Proofs

Eight modules hold the theorems: `StreamEmitterProofs`, `StreamSessionProofs`,
`ScannerProofs`, `SplitterProofs`, `SseProofs`, `RoutingProofs`,
`ConversationProofs`, and `TextLinesProofs` with lemmas only. What they assume
of the constants is little:

- the bounds are natural numbers, with `MaxItems` not above the other two;
- documents and bodies are sequences of strings (`BodiesAssumption`), and a
  turn's text is a sequence of the marker's atoms and of words, which are none
  of them (`TextsAssumption`);
- the configuration has the types of `config.rs` and what `validate` promises
  (`ProvidersAssumption`, `ValidAssumption`);
- a client has a model id, one of the three protocols, a system text of words
  and a way of writing content (`ClientsAssumption`), and asks in words and images
  (`QuestionsAssumption`);
- the ids of calls are distinct (`CallIdsAssumption`: the bridge's are UUIDs; how
  many there are bounds the calls of a conversation), and an answer consists of
  words, calls and leaked thinking, with reasoning in words and with calls of its
  own under ids that nobody has used yet; thinking leaks only where a text begins,
  and only calls follow a thought that does not end (`AnswersAssumption`).

The arguments:

- **The emitter keeps its promise.** `EmitterInv` is inductive
  (`EmitterInvariant`): its heart is `InStep`, which relates the emitter's
  fields to the decoder's state while the receiver lives. Acceptability of the
  next frame follows from `InStep` action by action (`EmitterKeepsPromise`:
  the refinement of `ClientStream`). `InStep` alone is not inductive: `OpShape`
  must say which fields an operation under way has.
- **The session.** `SessionInv` adds `PhaseInv` (what has been learnt of the
  upstream against where the task stands) and `CallsInv` (the calls being sent
  are the captured ones) to `EmitterInv` (`SessionInvariant`). From it every
  step of the session is a step of the emitter or leaves it alone
  (`SessionKeepsContract`), so the promise carries over (`SessionKeepsPromise`).
  `CompleteMeansWhole`, `CallsOnlyFromFinishedTurns` and `ErrorsAreUpstreams`
  are inductive together, relative to `SessionInv` (`CompleteIsWhole`,
  `CallsAreFinal`, `ErrorsAreHonest`); `NoSilentEnd` follows from `SessionInv`
  (`EndsAreAnnounced`).
- **The scanner.** For every set of documents the buffer is the end of what was
  fed and between two calls holds a capture or the beginning of a marker only
  (`BufferInvariant`), and every turn of the loop that does not return lowers a
  measure (`FeedTerminates`). Both rest on `FragmentInside`: what the locator
  finds lies behind the cursor, inside the text, and is not empty.
  `ScannerInvariant` adds the types, and with them that every event is text or a
  call whose name and arguments are texts. For that the parser's three recursions
  (parameters, invokes, fragments) are proved to be walks: each goes on at a later
  place than it read (`ElementsWalk`, `ReadingType`), so each has a solution, and
  what it reads is of the right type at every place (`WalkExists`, `WalkTyped`).
  That the parser never goes back, with a fragment that means nothing or an
  element without its closing tag, is the same fact.
- **The splitter.** `CutsDoNotShow` (`CutsNeverShow`) is proved for every set of
  texts. It is not inductive by itself: the invariant `SplitInv` adds what the
  buffer holds in each state (`HoldInv`), that in the state `Text` the thought
  is behind, and `ThinkingLeads`. The step rests on two facts about a text that
  grows: once marked it stays marked and its rest only grows (`MarkedStays`,
  `UnmarkedStays`), and its first blank line does not move (`SeparatorStays`,
  `CutStays` in `TextLinesProofs`). What `strip_thinking_prefixes` returns is
  opaque to that proof, which needs only that it is a function of the frame.
  `WordsSurvive` needs its value: splitting a text into lines, dropping a line's
  marker and quotation mark, joining and trimming each keep the words and their
  order. `StreamsAgreeWithReplies` follows from `CutsDoNotShow` and a
  comparison of the two splittings of a whole text (`RepliesSplit`): the same
  thought and text, but for the two marked texts that a reply which is not
  streamed leaves alone. There the property says what a stream shows: of a thought
  that never ends nothing but the thought, and of an empty one all words.
- **The stream readers.** `RewriterHoldsTheEnd` and `ReaderHoldsTheEnd`: for
  every body and every cut, what is held back is the end of what has arrived
  (in the reader but for the characters that a chunk has halved), and between
  two chunks never a complete frame. The strengthening fixes where in the body
  the buffer begins (`IsEnd`); chunks extend it at one end, frames at the other.
- **They implement `Framing`** (`ReaderFrames`, `RewriterFrames`). The mapping
  counts the frames handled and compares with the complete frames of what has
  arrived. The invariant that carries it is `Whole`: what was handled is a text
  to which whatever follows adds its own frames and no other. A frame that is
  taken keeps it (`WholeGrows`), since a first blank line does not move. The
  reader's buffer differs from the body in halved characters, but never in a
  line break (`Damaged`, `Counted`).
- **The rewritten events** (`RewrittenBodiesAgree`). The hypothesis
  `BodiesAreLines` says that a body consists of lines that are all ended by the
  same break, and perhaps one more that is not ended. It is needed: a blank line
  that mixes the two breaks ends an event for a client's parser and none for
  `find_sse_separator`. The invariant `Matched` says that what was sent and
  what was read before the unsent text show the same events (`ReadSame`), with
  none of them open, whatever follows (`GoesOn`). A frame keeps it: it is a
  sequence of lines without a blank one (`FrameOfLines`), each is rewritten to a
  line that reads as shown (`LineRewritten`, `ReadShown`), and reading goes on
  line by line (`ReadConcat`).
- **The turn's text** (`TurnsReadTheBody`), under the same hypothesis and for
  the same reason. The invariant (`TurnInv`, `Followed`) says of a turn that
  runs: the buffer is, but for halved characters, the beginning of what is left
  of a body in lines, no event is open before it, all events before it are JSON,
  and their texts have been given (`Handled`). A frame that is taken adds one
  event to both sides (`FrameTaken`), and so do the bytes left at the end
  (`FollowedEnds`); the first event that is not JSON settles what is expected,
  whatever follows it (`Fails`, `FailsMore`). What remains is that a halved
  character changes neither the lines of a frame, nor which of them are data,
  nor whether the data is JSON, nor where its text begins and ends. `EachIn`
  says place by place how two sequences correspond; it is carried through each
  operator that `parse_sse_frame` applies (`LinesIn`, `DataLinesIn`, `TrimIn`,
  `JoinIn`, `TestsIn`, `DeltaIn`).
- **Routing.** `ResolvedIsListed` and `ListedIsResolved` are the two halves of
  "the list of models is what is served": an id that resolves stands in the
  list for that provider, model and protocol, and an id of the list resolves to
  them, whatever slashes the model's name has. The second half needs that the
  provider's name has none, which `validate` does not demand. From the first
  follows `RoutedAsListed` for every client's id (`RequestsAreRoutedAsListed`).
- **Credentials.** `CredentialsAreProviders` holds in every configuration whose
  `auth_header` is not a header of the connection
  (`CredentialsAreTheProviders`); the hypothesis is needed, since `validate`
  admits one that `forward_request` then leaves behind.

- **Conversations** (`ConversationInvariant`). The heart is the pairing of calls
  and results (`Paired`), which is not inductive by itself: a reply's calls must
  not use an id of the history. `FreshInv` says so: all ids of the history are
  minted already, and those of a reply are distinct and not in the history. It
  rests on `MintedWithAnswer` (which ids an answer's calls get) and on the order of results
  being a permutation (`OrderIsInjective`).
- **Replies** (`RepliesCarryAnswers`). Every way to a reply (a passthrough, a
  bridged stream, `native_tool_calls_response` and `structure_response_body` in
  each protocol, with and without the translation to Messages) is brought to one
  shape: thoughts, then one text, then calls (`ReplyIs`, `BridgedReply`). What a
  turn reads of a stream is the answer's text or, of a Responses upstream, that
  text twice between other words (`StreamTextIs`, `TwiceReadIs`, `TextReadIs`);
  a part in the middle is still mentioned (`MiddleIsMentioned`). What is in the
  answer and what is in that shape are then compared once.
- **Refusals** (`RefusalsHaveReasons`). An id that is refused is not listed, by
  the second half of the routing theorem. That a body has a translation needs an
  invariant about the history behind it (`ReturnableInv`): a client that returns
  no thinking to a translated upstream writes no part that has no chat
  counterpart, unless it has shown a file; and where its history has calls it
  has results, so the bridge rewrites them. The two hypotheses are needed:
  `conversation_history` violates the property with a client that returns
  thinking, and a provider's name with a slash is listed and never resolves.

- **The dialogue** (`UpstreamsSeeDialogue`). A body as segments with their roles
  is brought to one shape in every protocol: the system entries, the prompt if
  there is one, the other entries (`Sends3`, `ForwardSends`). What the bridge
  rewrites part by part becomes a mapping over entries, and the name of a result
  is the name of the call it answers (`NameOfNew`), which the pairing of
  `ConversationInv` provides. The invariant `DialogueInv` then compares the log
  with the history after leaving out what is not said: prompts, leaked thinking,
  which a rewriting may move, and the words a chat client writes in parts beside
  calls, which `rewrite_chat_tool_results` loses and the log has as asides. It is
  inductive together with `HistoryInv`, `FreshInv`, and the invariants on the log
  and on the pairing (`LogInv`, `PairedInv`). What the model has said is taken as
  the client holds it, from the reply; that a reply has what was answered is
  `RepliesCarryAnswers`. One hypothesis: a tool's failure shows in what it returns
  as `value_indicates_error` reads it (`ToolsTell`).
- **The prompt** (`PromptsDescribeTools`) is found in the same shape. It needs
  that the tools are spelled as `collect_tools` expects (`ToolsCollected`);
  `conversation_tools` violates the property with a client whose are not. That a
  tool keeps its name unless this holds another model's needs that redaction
  leaves alone what mentions none of the names it cuts (`StripLeaves`,
  `OthersAreSpared`, `PromptIsDescribed`), and so that no name of the
  configuration holds the mark put in its place (`NamesArePlain`).
- **Other models** (`OthersGoUnmentioned`). `str::replace` is treated place by
  place (`OccursByPlaces`, `RunsStep`): a stretch of the redacted text in which
  the mark does not occur is a stretch of the text (`StretchesAreOld`), so a
  replacement makes no name that was not there, and the names replaced before
  stay away (`RedactCleans`, `StripCleans`). An occurrence of the asked name
  that no token overlaps splits the text in two that are redacted by themselves
  (`RedactAround`), and still nothing overlaps it (`UntouchedStays`,
  `StripKeeps`). Names, descriptions and enums of tools are treated alike
  (`EnumTells`). The order of the tokens plays no part. The tokens are those of
  the configuration (`TokensAreAllOthers`). The hypotheses are `ToolsCollected`
  and that no name of the configuration holds the mark itself (`NamesArePlain`).
  That the asked name is found afterwards only where the client had named it
  *alone* is false and not stated: cutting one name can uncover another that had
  overlapped it.

Several of these need induction over data. The library's induction theorems
take an operator, which no backend instantiates; `TextLinesProofs` has them
restated for sets (`AppendInduction`, `RankInduction`: a set of texts that holds
the empty one and grows with every item is the set of all) and derives the
unfolding of a recursive function from the library's definition theorem
(`Recursion`). The properties are then membership in a set, and the provers see
no operator argument.

Model-checked only:

- the liveness properties (fairness and `ENABLED` are out of the prover's reach);
- `CallsAgree`, `NothingLost` and `OpenersHidden` of the scanner. They hold of
  the documents of their run, which are texts as models write them, and not of
  every document. A call's tag inside an arguments element, or a name element
  that is never closed, makes the calls depend on where the text is cut, or drops
  words (`scanner_prose` shows a case); an arguments element that holds a name
  tag and parses as no call is emitted with it.

## Known limits of the code, as the models show them

What the code does and no property denies; a reader of a property should know
it.

- A cut costs the character it goes through in a bridged turn
  (`TurnReadsTheBody` allows it); a passthrough turn does not decode.
- A bridged turn trims every data line, so that one of blanks only is no data;
  the standard would take one blank away (`EventText` trims as the code does).
- A passthrough stream is rewritten line by line: JSON over several data lines
  keeps the upstream's model name (`EventsRewritten` says "a value by itself").
- A blank line spelled with both breaks ("\n\r\n") ends neither an event nor a
  thought.
- A thought that never ends is thinking in a stream and text in a reply that is
  not streamed. A thought of quotation marks only that does end is dropped with
  its marker in a stream, while a reply that is not streamed keeps both in its
  text (`StreamAgreesWithReply` has the two cases).
- Leaked thinking is dropped where a Responses or translated reply has reasoning
  of its own (`conversation_thinking`), and replaces that reasoning in a chat
  reply.
- Calls that are not XML, and the upstream's reasoning, are dropped in bridged
  streams of Chat and Messages upstreams and in replies rebuilt from their text.
  In bridged streams of Responses upstreams they are text, the arguments for the
  calls, and the answer's text and its calls come twice (`conversation_stream`).
- Content that a chat client writes as an array of parts is lost where calls
  stand beside it (`UpstreamSeesDialogue` leaves it out as an aside).
- A tool whose name holds another model's is described to the model under a
  redacted name; a call the model makes under that name does not match the tool
  the client has, and two tools may come to share one (`PromptDescribesTools`
  allows it for such names only).
- An answer that stops inside a tag with an attribute may lose that tag's words:
  a block of function calls is read without its last, incomplete tag
  (`NothingLost` leaves such answers out, `StopsInTag`).
- A call named by its tag's attribute has no arguments when they come in an
  `arguments` element; only parameter elements are read there.
- Names of other models are cut from tool definitions also inside ordinary words,
  and are looked for nowhere else. Where names overlap, cutting one may cut into
  the asked model's name or uncover it (`ModelsUnmentioned` allows both). The mark put in their place is one atom here; in the code a model whose
  name is a part of that text would be found in it again.
- Calls of one history that share an id name their results after the last one.
- A provider's name may hold a slash; its models are listed and never resolve.

## Not modelled

- The spelling of frames, ids, timestamps, logs: no behaviour depends on them.
- Attributes beyond a name, self-closing tags, white space between tags, aliases
  of names, values in tags of their own, JSON repair and the renaming of
  arguments: string-level data. A well-formed block of function calls is read by
  an XML parser first, with the same result. The JSON of arguments is one opaque
  word, which is why a truncated JSON text (which the code repairs) shows
  up as a shorter sequence of words.
- A cut inside a tag's name: the scanner holds any prefix of a marker back, the
  cut before the name and the one behind it are modelled. A text that *stops*
  inside a name is not. Nor are cuts inside an atom of a stream's body or of a
  thinking marker, but for the cut in the middle of "Thinking...".
- Of requests: sampling parameters, the legacy `function_call` fields, content
  that is a bare string (a text part here). Of replies: usage, stop reasons of
  JSON replies, response headers, the body of an error status.
- The composition of scanner, splitter and session as one state machine: the
  session takes what one delta releases as a choice within what the splitter's
  theorems allow; the product of the three would only multiply the states.
- A panic in a task: the release profile aborts the process.
- Memory: the channel is unbounded in the code and in the model's histories.
- Reading the configuration file and the limits of its numbers; HTTP routes,
  the body limit and signals (warp and tokio, where the program keeps no state
  of its own); logging.

## Plan

Done in this state of the project:

1. `Wire`, `ClientStream` (abstract promise), `StreamEmitter` with its
   refinement of the promise, and proofs.
2. `StreamSession`: the turn around the emitter, with liveness, and proofs.
3. `XmlText`, `Scanner`: chunked scanning of tool calls in five spellings, the
   buffer's invariant and the loop's termination proved.
4. `ThinkingSplitter`, with the proof that cuts do not show.
5. `SseBody`, `SseReader`, `SseRewriter`: the two readers of event streams, both
   proved to implement `Framing`, the rewriter to keep the events and the reader
   to hand on their texts.
6. `Routing`, `Translation`, `Replies`, `Conversation`: two rounds of a
   conversation through the bridge, with proofs of all its properties: routes,
   credentials, the pairing of calls and results, the dialogue and the prompt an
   upstream receives, replies and refusals.

Next, in this order:

7. A text that stops inside a tag's name, with tag names in two halves as the
   splitter has its marker.
8. The renaming of arguments (`coerce_argument_aliases`) and the repair of JSON as
   operators over short texts.
