\* Every document of up to three segments, cut into any chunks, ended anywhere.
SPECIFICATION ScannerSpec
CONSTANT Documents <- WellFormed
INVARIANTS
  ScannerInv
  CallsAgree
  NothingLost
  OpenersHidden
PROPERTY FeedAdvances
\* Nothing follows finish.
CHECK_DEADLOCK FALSE
