\* The task keeps pulling the upstream after the client has gone.
SPECIFICATION SessionSpec
CONSTANTS
  MaxPieces = 3
  MaxCalls = 3
  MaxDeltas = 3
  MaxEvents = 1
  MaxItems = 3
PROPERTY TurnLivesAsLongAsClient
CHECK_DEADLOCK FALSE
