SPECIFICATION Spec
CONSTANTS
  top = top
  chart = chart
  stack = stack
  None = None
  Apps = {top, chart, stack}
  GitApps = {top, stack}
  Parent <- MCParent
  Since <- NewChart
  Stack = stack
  Provider = chart
  Consumers = {}
  LargeCrd = {}
  Hooked = {}
  Leftovers = {}
  StartRev = 2
  MaxRev = 2
  MaxFaults = 0
  Stalled = FALSE
  Phased = {top}
  RootApps = {top, stack}
  RootGates = {top}
  Order <- MCOrder
  Finalized = {}
  MayExpire = FALSE
INVARIANT DescendantsAreVerified
