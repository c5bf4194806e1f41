SPECIFICATION Spec
CONSTANTS
  None = None
  Invalid = Invalid
  c1 = c1
  c2 = c2
  c0 = c0
  Payloads <- MCPayloads
  EmptyPayloads <- MCEmptyPayloads
  Configurations <- MCConfigurations
  AccessCounts <- MCAccessCounts
  MaxRefreshes = 9
INVARIANTS
  TypeOK
  RuleMatchesHistory
  DecisionInFuture
PROPERTIES
  BacksOff
