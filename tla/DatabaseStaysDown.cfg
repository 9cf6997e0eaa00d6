SPECIFICATION SupervisionSpec
CONSTANTS
  Children = {1, 2}
  MaxRestartAttempts = 1
  FailureThreshold = 2
PROPERTY FailureIsAnswered
CHECK_DEADLOCK FALSE
