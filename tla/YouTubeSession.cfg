SPECIFICATION FairSpec
CONSTANTS
  Scenarios <- MCScenarios
  MaxResolveFailures = 2
  MaxAttempt = 1
  Uploaders = {1, 2}
INVARIANTS
  TypeOK
  BreakerTrips
  SessionsLeakNothing
  SessionIsCurrent
PROPERTIES
  ComesBack
  StaleUpIsCorrected
CHECK_DEADLOCK FALSE
