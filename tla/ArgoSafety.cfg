SPECIFICATION Spec
CONSTANTS
  top = top
  chart = chart
  stack = stack
  None = None
  Apps = {top, chart, stack}
  GitApps = {top, stack}
  Parent <- MCParent
  Since <- AllOld
  Stack = stack
  Provider = chart
  Consumers = {}
  LargeCrd = {}
  Hooked = {chart}
  Leftovers <- OldFailures
  StartRev = 2
  MaxRev = 2
  MaxFaults = 1
  Stalled = FALSE
  Phased = {top}
  RootApps = {top, stack}
  RootGates = {top}
  Order <- MCOrder
  Finalized = {}
  MayExpire = FALSE
INVARIANT TypeOK
INVARIANT ReadyMeansFresh
PROPERTY NeverRollsBack
PROPERTY RecyclesOncePerCooldown
PROPERTY StaleFailureIsNotFinal
