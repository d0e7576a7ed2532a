SPECIFICATION ConversationSpec
CONSTANTS
  Providers <- MCProviders
  Clients <- MCClients
  Questions <- MCQuestions
  Tools <- MCTools
  Answers <- MCAnswers
  Outcomes <- MCOutcomes
  CallIds <- MCCallIds
  ResponsesSpelling = "nested"
  EchoThinking = FALSE
  MaxRequests = 2
INVARIANTS
  ConversationInv
  UpstreamSeesDialogue
  PromptDescribesTools
  ModelsUnmentioned
  RoutedAsListed
  CredentialsAreProviders
  RefusedForAReason
  ReplyCarriesAnswer
CHECK_DEADLOCK FALSE
