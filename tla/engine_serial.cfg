SPECIFICATION FairSpec

CONSTANTS
  a = a
  b = b
  c = c
  Steps = {a, b, c}
  Deps <- Join
  Workers = {w1}
  Clients = {u1}
  NeedsApproval = {a}
  MaxAttempts = 2
  FirstAttempt = 0
  Faults = {"redis", "eager", "throw"}
  MaxVersion = 3
  MaxJobs = 1
  MaxReruns = 1
  MaxCrashes = 0
  Cron = cron
  Boot = boot
  NoStep = none
  Nobody = nobody
  Ghost = ghost

INVARIANTS
  FreshInputs
  DraftIsIdle
  OneJobPerStep

PROPERTIES
  StrandsNothing
  WatchdogRescues

CHECK_DEADLOCK FALSE
