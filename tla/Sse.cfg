SPECIFICATION SseSpec
CONSTANTS
  MaxFrames = 2
  MaxChunk = 2
  Bodies <- MCBodies
INVARIANTS
  SseInv
  TurnReadsTheBody
  EventsRewritten
PROPERTIES
  ReaderKeepsFraming
  RewriterKeepsFraming
CHECK_DEADLOCK FALSE
