CONSTANTS
  a = a
  b = b
  Steps = {a}
  Deps <- Single
  NeedsApproval = {a}
  MaxFetches = 2
  MaxChanges = 2
  MaxUpsets = 1
SPECIFICATION Spec
PROPERTIES ActiveViewConverges HeardConverges
CHECK_DEADLOCK FALSE
