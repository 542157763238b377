SPECIFICATION BillingSpec

CONSTANTS
  Fibers = {f1, f2}
  Places <- BillingPlaces
  Causes <- BillingCauses
  Packs = {p1}
  Amounts = {2}
  Caps = {2, 3}
  Months = {1, 2}
  InitBalance = 2
  NoCap = noCap
  Nobody = nobody
  MaxDeliveries = 2
  MaxDebits = 2
  MaxCrashes = 1

INVARIANTS
  NeverNegative
  SerialBalance
  GrantedOnce

PROPERTIES
  RefinesBudget
  PurchaseGranted

CHECK_DEADLOCK FALSE
