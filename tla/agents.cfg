SPECIFICATION AgentsSpec

CONSTANTS
  w1 = w1
  w2 = w2
  Cron <- EveryAndOther
  Flows = {w1, w2}
  Users = {u1}
  Fibers = {w1, w2, u1}
  Places <- AgentPlaces
  Causes <- Runs
  Crons = {1, 2}
  BatchSize = 1
  MaxRuns = 6
  MaxTime = 2
  MaxUpsets = 2
  Amounts = {1}
  Caps = {}
  Months = {1}
  InitBalance = 2
  NoCap = noCap
  Nobody = nobody

INVARIANTS
  OnlyCompletedCharged
  CompletedIsCharged
  SuccessIsPaid

PROPERTIES
  OncePerDue
  DueIsServed

CHECK_DEADLOCK FALSE
