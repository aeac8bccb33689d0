SPECIFICATION Spec
CONSTANTS
  Tests <- MCTests
  Weight <- MCWeight
  Agreements = {3, 4}
  MaxSessions = 2
INVARIANT PassEarned
INVARIANT ScoreExact
PROPERTY SessionJudged
CHECK_DEADLOCK FALSE
