SPECIFICATION Spec

CONSTANTS
  a = a
  b = b
  c = c
  Steps = {a, b}
  Deps <- Pair
  Workers = {w1}
  Clients = {u1}
  NeedsApproval = {a}
  MaxAttempts = 1
  FirstAttempt = 1
  Faults = {"rolling", "db", "null", "throw", "anyReview", "ttl", "overlap"}
  MaxVersion = 1
  MaxJobs = 1
  MaxReruns = 0
  MaxCrashes = 1
  Cron = cron
  Boot = boot
  NoStep = none
  Nobody = nobody
  Ghost = ghost

INVARIANTS
  TypeOK
  ReviewedHasArtifact

CHECK_DEADLOCK FALSE
