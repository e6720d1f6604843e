SPECIFICATION Spec
CONSTANTS
  mock = mock
  other = other
  Accounts = {mock, other}
  TOLERANCE_SECONDS = 1
  MAX_ASSERTION_DURATION = 3
  BEARER_TTL_SECONDS = 3
  Anchor = 4
  WallStart = 7
  MaxOffset = 7
  MaxWall = 9
  MaxBoots = 2
  MaxTokens = 1
  Steps <- MCSteps
INVARIANTS TypeOK HonestAccepted OpensToItsAccount
PROPERTIES LateForGood BearersSurvive
