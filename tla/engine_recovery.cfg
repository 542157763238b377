SPECIFICATION Spec

CONSTANTS
  a = a
  b = b
  c = c
  Steps = {a, b, c}
  Deps <- Join
  Workers = {w1, w2}
  Clients = {u1}
  NeedsApproval = {c}
  MaxAttempts = 2
  FirstAttempt = 0
  Faults = {"throw", "eager", "rejects", "quick"}
  MaxVersion = 3
  MaxJobs = 1
  MaxReruns = 1
  MaxCrashes = 1
  Cron = cron
  Boot = boot
  NoStep = none
  Nobody = nobody
  Ghost = ghost

INVARIANTS
  LockExcludes
  DependencyOrder
  ChargedOnce
  CompletedIsTerminal

PROPERTIES
  RefinesLifecycle
  StrandsNothing

CHECK_DEADLOCK FALSE
