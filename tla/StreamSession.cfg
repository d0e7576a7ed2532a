\* One turn: up to three deltas, two events each, four items in all, in all three protocols.
SPECIFICATION SessionSpec
CONSTANTS
  MaxPieces = 4
  MaxCalls = 4
  MaxDeltas = 3
  MaxEvents = 2
  MaxItems = 4
INVARIANTS
  EmitterInv
  SessionInv
  CompleteMeansWhole
  CallsOnlyFromFinishedTurns
  ErrorsAreUpstreams
  NoSilentEnd
PROPERTIES
  WireWellFormed
  UsesEmitterRightly
  TurnEnds
  CleanTurnCompletes
  KeepaliveLeavesWithClient
\* A turn is over when both senders are gone and the client has left.
CHECK_DEADLOCK FALSE
