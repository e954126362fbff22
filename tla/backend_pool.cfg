CONSTANTS
  Authority <- MCAuthority
  Target <- MCTarget
  Rule <- MCRule
  BackendResponse <- MCBackendResponse
  Cases <- MCCases
  MaxTokens = 7
  Client = "client"
SPECIFICATION FairSpec
INVARIANTS
  TypeOK
  ParsesAsGenerated
  HeadersDescribeBody
PROPERTIES
  ImplementsContract
  ChainMovesOn
  AnsweredUnlessSilent
CHECK_DEADLOCK FALSE
