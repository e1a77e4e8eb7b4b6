\* The handshake, two requests and one or two questions, on every transport.
SPECIFICATION FairSpec
CONSTANTS
  MaxRequests = 3
  MaxAsks <- QuestionsOn
  ToolCalls = {2}
  Setups <- OneHandlerEach
INVARIANTS
  TypeOK
  CloseReleases
PROPERTIES
  ImplementsRequestReply
  RequestsEnd
  RepliedAsksEnd
CHECK_DEADLOCK FALSE
