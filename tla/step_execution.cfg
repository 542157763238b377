SPECIFICATION Spec
CONSTANTS
  MaxIterations = 3
  MaxVerificationRetries = 2
  MaxApiRetries = 1
  MaxAttempts = 3
  MaxToolUses = 2
INVARIANTS AllAnswered OfLastRound
PROPERTIES TimeoutStops Ends
CHECK_DEADLOCK FALSE
