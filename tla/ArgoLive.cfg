SPECIFICATION LiveSpec
CONSTANTS
  top = top
  chart = chart
  stack = stack
  None = None
  Apps = {top, chart, stack}
  GitApps = {top, stack}
  Parent <- MCParent
  Since <- AllOld
  Stack = stack
  Provider = chart
  Consumers = {stack}
  LargeCrd = {chart}
  Hooked = {}
  Leftovers <- OldOptions
  StartRev = 2
  MaxRev = 2
  MaxFaults = 1
  Stalled = TRUE
  Phased = {top}
  RootApps = {top, stack}
  RootGates = {top}
  Order <- MCOrder
  Finalized = {}
  MayExpire = FALSE
PROPERTY EventuallyReady
