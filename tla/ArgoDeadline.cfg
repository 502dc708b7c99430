SPECIFICATION DeadlineSpec
CONSTANTS
  top = top
  chart = chart
  stack = stack
  None = None
  Apps = {top, chart, stack}
  GitApps = {top, stack}
  Parent <- MCParent
  Since <- NoChart
  Stack = stack
  Provider = chart
  Consumers = {}
  LargeCrd = {}
  Hooked = {}
  Leftovers = {}
  StartRev = 1
  MaxRev = 2
  MaxFaults = 0
  Stalled = FALSE
  Phased = {top}
  RootApps = {top, stack}
  RootGates = {}
  Order <- MCOrder
  Finalized = {}
  MayExpire = TRUE
PROPERTY AlwaysEnds
