SPECIFICATION Spec

CONSTANTS
  a = a
  b = b
  c = c
  Steps = {a, b, c}
  Deps <- Join
  Workers = {w1}
  Clients = {u1}
  NeedsApproval = {a}
  MaxAttempts = 2
  FirstAttempt = 0
  Faults = {"throw"}
  MaxVersion = 1
  MaxJobs = 1
  MaxReruns = 0
  MaxCrashes = 0
  Cron = cron
  Boot = boot
  NoStep = none
  Nobody = nobody
  Ghost = ghost

INVARIANT LastFailureMarked

CHECK_DEADLOCK FALSE
