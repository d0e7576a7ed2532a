SPECIFICATION ConversationSpec
CONSTANTS
  Providers <- MCProviders
  Clients <- MCClients
  Questions <- MCQuestions
  Tools <- MCTools
  Answers <- MCAnswers
  Outcomes <- MCOutcomes
  CallIds <- MCCallIds
  ResponsesSpelling = "nested"
  EchoThinking = TRUE
  MaxRequests = 2
INVARIANT
  RefusedForAReason
CHECK_DEADLOCK FALSE
