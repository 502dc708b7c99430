SPECIFICATION Spec
CONSTANTS
  c1 = c1
  c2 = c2
  sealed = sealed
  hand = hand
  Clones = {c1, c2}
  Outsider = Outsider
  GenPaths = {sealed}
  HandPaths = {hand}
  NewPaths = {}
  HeadChoices = {TRUE}
  Commands = {"sync", "push"}
  MaxEdits = 1
  MaxSeal = 1
  MaxOutside = 0
  MaxFaults = 0
INVARIANT PushedIsComplete
PROPERTY LogSpec
SYMMETRY CloneSymmetry
