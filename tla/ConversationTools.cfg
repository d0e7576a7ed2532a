SPECIFICATION ConversationSpec
CONSTANTS
  Providers <- MCProviders
  Clients <- MCClients
  Questions <- MCQuestions
  Tools <- MCTools
  Answers <- MCAnswers
  Outcomes <- MCOutcomes
  CallIds <- MCCallIds
  ResponsesSpelling = "flat"
  EchoThinking = FALSE
  MaxRequests = 2
INVARIANT
  PromptDescribesTools
CHECK_DEADLOCK FALSE
