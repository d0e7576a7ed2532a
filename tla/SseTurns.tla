------------------------------- MODULE SseTurns ------------------------------
(***************************************************************************)
(* The two readers of an event stream side by side: the same chunks go to  *)
(* a bridged turn (SseReader) and to a passthrough turn (SseRewriter),     *)
(* which must make the same of them.  A client's view of the rewritten     *)
(* body is read as the event-stream standard says, line by line.           *)
(***************************************************************************)
EXTENDS SseReader, SseRewriter

CONSTANT MaxChunk        \* bound on a chunk that is not the rest of the body

ASSUME MaxChunkAssumption == MaxChunk \in Nat

-----------------------------------------------------------------------------
(* One upstream, two readers.  A bridged turn that has returned takes no   *)
(* more; a broken connection breaks both.  The inner loops do not touch    *)
(* each other's state, so the reader's runs first.                         *)
SseInit == BodyInit /\ ReaderInit /\ RewriterInit

ChunkSizes == (1..MaxChunk) \cup {Len(body) - taken}

ReaderAlone(step) == step /\ UNCHANGED rewriterVars
RewriterAlone(step) == reader # "draining" /\ step /\ UNCHANGED readerVars
ReaderGone == Returned /\ UNCHANGED readerVars

SseNext ==
  \/ \E n \in ChunkSizes : n > 0 /\ Push(n) /\ (Poll(n) \/ ReaderGone)
  \/ ConnectionBreaks /\ (TransportError \/ ReaderGone)
  \/ ReaderAlone(TakeFrame) \/ ReaderAlone(Drained) \/ ReaderAlone(StreamEnds)
  \/ RewriterAlone(RewriteNext) \/ RewriterAlone(Pushed) \/ RewriterAlone(Finished)

SseSpec == SseInit /\ [][SseNext]_<<bodyVars, readerVars, rewriterVars>>

SseInv == ReaderInv /\ RewriterInv

-----------------------------------------------------------------------------
(* The reader and the rewriter keep one promise, each in its own state.    *)
Arrived == Frames(SubSeq(body, 1, taken))

Reading == INSTANCE Framing WITH
  complete <- Arrived,
  handled <- read,
  stage <- IF reader \in {"polling", "draining"} THEN "open"
           ELSE IF reader \in {"ok", "empty"} THEN "ended" ELSE "failed"

Rewriting == INSTANCE Framing WITH
  complete <- Arrived,
  handled <- rewritten,
  stage <- IF rewriter \in {"polling", "pushing"} THEN "open"
           ELSE IF rewriter = "finished" THEN "ended" ELSE "failed"

(* Every complete frame is read once, in order, before the next chunk is   *)
(* taken, wherever the chunks end.                                         *)
ReaderKeepsFraming == Reading!FramingSpec

(* So is every frame rewritten: a client never waits for a later chunk to  *)
(* see a frame the upstream has completed.                                 *)
RewriterKeepsFraming == Rewriting!FramingSpec

(* The events of a body as the event-stream standard has them, each the    *)
(* values of its data lines: a blank line ends an event, and one without   *)
(* data is none.                                                           *)
Unread == [events |-> <<>>, values |-> <<>>]
ReadLine(state, l) ==
  IF l = <<>>
  THEN [events |-> state.events \o (IF state.values = <<>> THEN <<>> ELSE <<state.values>>),
        values |-> <<>>]
  ELSE IF IsDataLine(l) THEN [events |-> state.events, values |-> Append(state.values, Tail(l))]
  ELSE state
ReadLines(state, lines) ==
  LET after[n \in 0..Len(lines)] == IF n = 0 THEN state ELSE ReadLine(after[n - 1], lines[n])
  IN  after[Len(lines)]
Events(t) == ReadLines(Unread, Lines(t)).events

(* What a turn should make of the whole body: the texts of its events, up  *)
(* to the first one that is not JSON; the end of the body ends an event.   *)
(* The blanks around a data line's value are no part of it, as in          *)
(* parse_sse_frame, so that a value of blanks is no data.                  *)
Ended(t) == t \o <<"n", "n">>
EventText(event) == Join([i \in DOMAIN event |-> Trim(event[i])])
Texts(events) == FlattenSeq([k \in DOMAIN events |-> Given(EventText(events[k]))])
Expected(events) ==
  LET bad == {k \in DOMAIN events : Invalid(EventText(events[k]))}
      valid == IF bad = {} THEN events ELSE SubSeq(events, 1, Min(bad) - 1)
  IN  [deltas |-> Texts(valid), invalid |-> bad # {}]

Agrees(expected) ==
  /\ reader = "invalid" <=> expected.invalid
  /\ reader = "empty" <=> ~expected.invalid /\ expected.deltas = <<>>
  /\ Len(deltas) = Len(expected.deltas)
  /\ \A i \in DOMAIN deltas : Damaged(deltas[i], expected.deltas[i])

(* A bridged turn hands on the text of the events of the whole body, and   *)
(* fails where that does, however the bytes were cut: a cut costs at most  *)
(* the character it goes through.                                          *)
TurnReadsTheBody ==
  Returned /\ reader # "broken" => Agrees(Expected(Events(Ended(body))))

(* A passthrough client's parser finds in the rewritten body the events of *)
(* the upstream's, in order, none lost and none split, and in every line   *)
(* that is a value by itself the model it asked for.                       *)
Shown(value) == IF IsJson(value) THEN ClientModel(Trim(value)) ELSE value
ShownEvent(event) == [i \in DOMAIN event |-> Shown(event[i])]
ShownEvents(events) == [k \in DOMAIN events |-> ShownEvent(events[k])]

EventsRewritten == rewriter = "finished" => Events(out) = ShownEvents(Events(body))
=============================================================================
