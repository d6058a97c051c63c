\* AGENT_MAX_TURNS as shipped (20), and as small as the properties allow.
SPECIFICATION MCSpec
CONSTANTS
  TurnCap = 20
  TightCap = 5
  MaxAttempts = 2
INVARIANTS
  PersistsWhatWasJudged
  EnrichedFromSource
  EndMeansStored
  TurnsBounded
PROPERTIES
  RetryCarriesFeedback
  RunEnds
CHECK_DEADLOCK FALSE
