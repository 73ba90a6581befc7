SPECIFICATION FairSpec
CONSTANTS
  N = 2
  MaxAttempts = 2
PROPERTY ParentIsResumed
CHECK_DEADLOCK FALSE
