SPECIFICATION ConversationSpec
CONSTANTS
  Providers <- MCProviders
  Clients <- MCClients
  Questions <- MCQuestions
  Tools <- MCTools
  Answers <- MCAnswers
  Outcomes <- MCOutcomes
  CallIds <- MCCallIds
  ResponsesSpelling = "nested"
  EchoThinking = FALSE
  MaxRequests = 2
INVARIANT
  ThinkingKept
CHECK_DEADLOCK FALSE
