---------------------------- MODULE StreamSession ---------------------------
(***************************************************************************)
(* One bridged streaming turn after a 2xx upstream status: the tail of     *)
(* Bridge::bridge_stream and stream_once (src/src/bridge.rs).  Three       *)
(* actors share the client's channel: the task that runs stream_once, the  *)
(* keepalive task, and the HTTP body whose receiver dies when the client   *)
(* leaves.  The upstream is external: it may send text deltas, end, fail,  *)
(* or stay silent for ever.                                                *)
(*                                                                         *)
(* The scanner and the thinking splitter appear as what they hand over for *)
(* one delta: a sequence of events, a captured call or a visible piece; at *)
(* most one thinking piece, before any text (ThinkingSplitter).            *)
(***************************************************************************)
EXTENDS StreamEmitter, SequencesExt

CONSTANTS MaxDeltas,     \* bound on the non-empty text deltas of the upstream
          MaxEvents,     \* bound on the events one delta, or the end, releases
          MaxItems       \* bound on the pieces and calls of the whole turn

ASSUME SessionAssumption ==
  /\ MaxDeltas \in Nat /\ MaxEvents \in Nat /\ MaxItems \in Nat
  /\ MaxItems <= MaxPieces /\ MaxItems <= MaxCalls

VARIABLES phase,         \* where stream_once and the task around it stand
          upstream,      \* what the task has learnt of the upstream response
          read,          \* non-empty deltas taken from the upstream
          events,        \* scan events released and not yet handled
          captured,      \* captured_calls.len()
          keepalive,     \* the keepalive task
          aborting       \* keepalive.abort() has been called

taskVars == <<phase, upstream, read, events, captured>>
pingVars == <<keepalive, aborting>>
sessionVars == <<emitterVars, phase, upstream, read, events, captured, keepalive, aborting>>

ScanEvents == {"Thinking", "Text", "Call"}

(* What the scanner and the splitter can release in their present state.   *)
Releasable(evs) ==
  /\ pieces + captured + Len(evs) <= MaxItems
  /\ \A i \in DOMAIN evs : evs[i] = "Thinking" =>
       pieces = 0 /\ \A j \in 1..(i - 1) : evs[j] = "Call"

-----------------------------------------------------------------------------
(* drive_successful_stream: the closure runs to its end for one delta      *)
(* before the next chunk is polled.  A failed send is remembered and does  *)
(* not stop the loop.                                                      *)

Polling == phase = "drive" /\ Idle /\ events = <<>>

UpstreamDelta(evs) ==
  /\ Polling /\ read < MaxDeltas /\ Releasable(evs)
  /\ read' = read + 1
  /\ events' = evs
  /\ UNCHANGED <<emitterVars, pingVars, phase, upstream, captured>>

(* A mutant: an upstream error is taken for the end of the turn.           *)
UpstreamFailsMutant ==
  /\ Polling
  /\ upstream' = "failed"
  /\ phase' = "flush"
  /\ UNCHANGED <<emitterVars, pingVars, read, events, captured>>

(* A transport error or a frame that is not JSON: `?` leaves stream_once   *)
(* at once, with what was captured or still buffered in the scanner.       *)
UpstreamFails ==
  /\ Polling
  /\ upstream' = "failed"
  /\ phase' = "over"
  /\ UNCHANGED <<emitterVars, pingVars, read, events, captured>>

(* A mutant: a turn with text returns early as well.                       *)
UpstreamEndsEmptyMutant ==
  /\ Polling
  /\ upstream' = "ended"
  /\ phase' = "over"
  /\ UNCHANGED <<emitterVars, pingVars, read, events, captured>>

(* "upstream stream completed without text" is an error as well.           *)
UpstreamEndsEmpty ==
  /\ Polling /\ read = 0
  /\ upstream' = "ended"
  /\ phase' = "over"
  /\ UNCHANGED <<emitterVars, pingVars, read, events, captured>>

(* The end of a turn with text: scanner.finish and thinking.finish.        *)
UpstreamEnds(evs) ==
  /\ Polling /\ read > 0 /\ Releasable(evs)
  /\ upstream' = "ended"
  /\ phase' = "flush"
  /\ events' = evs
  /\ UNCHANGED <<emitterVars, pingVars, read, captured>>

NextEvent ==
  /\ phase \in {"drive", "flush"} /\ Idle /\ events # <<>>
  /\ events' = Tail(events)
  /\ \/ /\ Head(events) = "Call"
        /\ captured' = captured + 1
        /\ UNCHANGED emitterVars
     \/ /\ Head(events) \in Kinds
        /\ EmitPiece(Head(events))
        /\ UNCHANGED captured
  /\ UNCHANGED <<pingVars, phase, upstream, read>>

(* While flushing, `?` on a refused piece leaves stream_once.              *)
TaskSends ==
  /\ EmitterStep
  /\ IF phase = "flush" /\ ~rxOpen
     THEN phase' = "over" /\ events' = <<>>
     ELSE UNCHANGED <<phase, events>>
  /\ UNCHANGED <<pingVars, upstream, read, captured>>

(* A mutant: the turn is concluded with events still to be handled.        *)
ConcludeEarlyMutant ==
  /\ phase = "flush" /\ Idle
  /\ IF captured > 0 THEN EmitToolCalls(captured) ELSE FinishText
  /\ phase' = "close"
  /\ UNCHANGED <<pingVars, upstream, read, events, captured>>

(* A mutant: finish_text is forgotten for a turn without calls.            *)
ConcludeCallsOnlyMutant ==
  /\ phase = "flush" /\ Idle /\ events = <<>>
  /\ IF captured > 0 THEN EmitToolCalls(captured) ELSE UNCHANGED emitterVars
  /\ phase' = "close"
  /\ UNCHANGED <<pingVars, upstream, read, events, captured>>

Conclude ==
  /\ phase = "flush" /\ Idle /\ events = <<>>
  /\ IF captured > 0 THEN EmitToolCalls(captured) ELSE FinishText
  /\ phase' = "close"
  /\ UNCHANGED <<pingVars, upstream, read, events, captured>>

StreamOnceReturns ==
  /\ phase = "close" /\ Idle
  /\ phase' = "over"
  /\ UNCHANGED <<emitterVars, pingVars, upstream, read, events, captured>>

-----------------------------------------------------------------------------
(* The rest of the spawned task: abort the keepalive, report an Err, drop  *)
(* the sender.                                                             *)

(* A mutant: a turn without visible text counts as failed.                 *)
ResultErrMutant == failed \/ upstream = "failed" \/ pieces = 0

ResultErr == failed \/ upstream = "failed" \/ read = 0

(* A mutant: the keepalive is never aborted.                               *)
AbortKeepaliveMutant ==
  /\ phase = "over"
  /\ phase' = "report"
  /\ UNCHANGED <<emitterVars, upstream, read, events, captured, pingVars>>

AbortKeepalive ==
  /\ phase = "over"
  /\ phase' = "report"
  /\ aborting' = TRUE
  /\ UNCHANGED <<emitterVars, upstream, read, events, captured, keepalive>>

(* A mutant: the Err is dropped.                                           *)
ReportNothingMutant ==
  /\ phase = "report"
  /\ phase' = "done"
  /\ UNCHANGED <<emitterVars, pingVars, upstream, read, events, captured>>

(* A mutant: an error frame follows every turn.                            *)
ReportAlwaysMutant ==
  /\ phase = "report"
  /\ ErrorFrame
  /\ phase' = "done"
  /\ UNCHANGED <<pingVars, upstream, read, events, captured>>

Report ==
  /\ phase = "report"
  /\ IF ResultErr THEN ErrorFrame ELSE UNCHANGED emitterVars
  /\ phase' = "done"
  /\ UNCHANGED <<pingVars, upstream, read, events, captured>>

-----------------------------------------------------------------------------
(* The keepalive task.  Its first tick, which fires at once and sends      *)
(* nothing, is left out.  abort() takes effect at the await: a task that   *)
(* is already past it sends one more frame.                                *)

Tick ==
  /\ keepalive = "waiting" /\ ~aborting
  /\ keepalive' = "woken"
  /\ UNCHANGED <<emitterVars, taskVars, aborting>>

(* A mutant: a refused keepalive frame is ignored.                         *)
PingMutant ==
  /\ keepalive = "woken"
  /\ Keepalive
  /\ keepalive' = "waiting"
  /\ UNCHANGED <<taskVars, aborting>>

Ping ==
  /\ keepalive = "woken"
  /\ Keepalive
  /\ keepalive' = IF rxOpen THEN "waiting" ELSE "gone"
  /\ UNCHANGED <<taskVars, aborting>>

Cancelled ==
  /\ keepalive = "waiting" /\ aborting
  /\ keepalive' = "gone"
  /\ UNCHANGED <<emitterVars, taskVars, aborting>>

ClientLeaves == Disconnect /\ UNCHANGED <<taskVars, pingVars>>

-----------------------------------------------------------------------------
SessionInit ==
  /\ EmitterInit
  /\ phase = "drive" /\ upstream = "open" /\ read = 0 /\ events = <<>> /\ captured = 0
  /\ keepalive = "waiting" /\ aborting = FALSE

Task == NextEvent \/ TaskSends \/ Conclude \/ StreamOnceReturns \/ AbortKeepalive \/ Report

Upstream == \/ \E evs \in SeqOf(ScanEvents, MaxEvents) : UpstreamDelta(evs) \/ UpstreamEnds(evs)
            \/ UpstreamFails \/ UpstreamEndsEmpty

SessionNext == Upstream \/ Task \/ Tick \/ Ping \/ Cancelled \/ ClientLeaves

(* The runtime polls a ready task and the timer fires; the upstream owes   *)
(* nothing and the client may stay or leave.                               *)
Fairness == WF_sessionVars(Task) /\ WF_sessionVars(Tick) /\ WF_sessionVars(Ping)
              /\ WF_sessionVars(Cancelled)

SessionSpec == SessionInit /\ [][SessionNext]_sessionVars /\ Fairness

-----------------------------------------------------------------------------
SessionTypeOK ==
  /\ EmitterTypeOK
  /\ phase \in {"drive", "flush", "close", "over", "report", "done"}
  /\ upstream \in {"open", "ended", "failed"}
  /\ read \in Nat /\ captured \in Nat
  /\ events \in Seq(ScanEvents)
  /\ keepalive \in {"waiting", "woken", "gone"} /\ aborting \in BOOLEAN

(* How far the task has come agrees with what it has learnt and with the   *)
(* emitter's state; with EmitterInv this is inductive.                     *)
PhaseInv ==
  /\ phase = "drive" <=> upstream = "open"
  /\ phase \in {"drive", "flush"} => ~retired
  /\ phase \in {"flush", "close"} => upstream = "ended" /\ read > 0
  /\ phase \notin {"drive", "flush"} => events = <<>>
  /\ phase \in {"close", "done"} => retired
  /\ phase \in {"over", "report", "done"} => Idle
  /\ phase \in {"over", "report"} => ResultErr \/ retired
  /\ retired /\ phase # "done" => upstream = "ended" /\ read > 0
  /\ aborting <=> phase \in {"report", "done"}
  /\ pieces + captured + Len(events) <= MaxItems

(* The calls the emitter is sending, or has sent, are the captured ones.   *)
CallsInv ==
  /\ op.do = "calls" => op.all = captured
  /\ op.do = "finish" => captured = 0
  /\ op.do = "stop" /\ rxOpen => view.calls = captured
  /\ ~retired => view.calls = 0 /\ view.outcome = "none"

SessionInv == SessionTypeOK /\ EmitterInv /\ PhaseInv /\ CallsInv

(* The channel's senders are the task and the keepalive: when both are     *)
(* gone the HTTP body ends.                                                *)
BodyEnded == phase = "done" /\ keepalive = "gone"

(* The task uses the emitter as its contract asks: no operation begins     *)
(* before the last one returned, none after the concluding one, and the    *)
(* error frame only when the turn did not conclude on this stream.         *)
UsesEmitterRightly == EmitterSpec

(* A reply that says it is complete holds every visible piece and every    *)
(* captured call of a turn the upstream really finished: nothing is still  *)
(* in the scanner and no send was refused on the way.                      *)
CompleteMeansWhole ==
  view.outcome = "complete" =>
    /\ upstream = "ended" /\ events = <<>>
    /\ view.deltas = pieces /\ view.calls = captured

(* No tool call reaches the client from a turn that may still fail: a      *)
(* client never runs a tool of a reply that then ends in an error.         *)
CallsOnlyFromFinishedTurns ==
  view.calls > 0 => upstream = "ended" /\ view.outcome # "error"

(* A connected client is told of an error only when the upstream failed or *)
(* sent no text, never because of the proxy's own bookkeeping.             *)
ErrorsAreUpstreams ==
  view.outcome = "error" => upstream = "failed" \/ (upstream = "ended" /\ read = 0)

(* The body never just ends: a client that stayed was given a terminal or  *)
(* an error frame first, whichever of the two senders was dropped last.    *)
NoSilentEnd == BodyEnded /\ rxOpen => view.outcome # "none"

(* Once the upstream is through, the body ends: the abort really stops the *)
(* keepalive, whose clone of the sender would keep the body open.          *)
TurnEnds == upstream # "open" ~> BodyEnded

(* A turn that ended well completes on the stream, or its client has left. *)
CleanTurnCompletes ==
  (upstream = "ended" /\ read > 0) ~> (view.outcome = "complete" \/ ~rxOpen)

(* The keepalive task does not outlive its client, even if the upstream    *)
(* stays silent for ever.                                                  *)
KeepaliveLeavesWithClient == ~rxOpen ~> keepalive = "gone"

(* config.rs: streaming turns "live as long as the client SSE".  Once a    *)
(* send has told the task that the client is gone, it takes nothing more   *)
(* from the upstream.                                                      *)
TurnLivesAsLongAsClient == [][failed => read' = read]_sessionVars
=============================================================================
