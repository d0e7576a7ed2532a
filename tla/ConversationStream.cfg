SPECIFICATION ConversationSpec
CONSTANTS
  Providers <- MCProviders
  Clients <- MCClients
  Questions <- MCQuestions
  Tools <- MCTools
  Answers <- ThoughtfulAnswers
  Outcomes <- MCOutcomes
  CallIds <- MCCallIds
  ResponsesSpelling = "nested"
  EchoThinking = FALSE
  MaxRequests = 2
INVARIANT
  ReplyIsAnswer
CHECK_DEADLOCK FALSE
