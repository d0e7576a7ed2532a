SPECIFICATION SplitterSpec
CONSTANTS
  MaxLines = 2
  Words <- MCWords
  Texts <- MCTexts
INVARIANTS
  SplitterInv
  ThinkingLeads
  CutsDoNotShow
  NoWordLost
  StreamAgreesWithReply
CHECK_DEADLOCK FALSE
