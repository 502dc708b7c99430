SPECIFICATION FairSpec
CONSTANTS
  c1 = c1
  sealed = sealed
  hand = hand
  Clones = {c1}
  Outsider = Outsider
  GenPaths = {sealed}
  HandPaths = {hand}
  NewPaths = {}
  HeadChoices = {TRUE}
  Commands = {"sync", "push", "pushall", "generate"}
  MaxEdits = 1
  MaxSeal = 1
  MaxOutside = 1
  MaxFaults = 1
INVARIANT EditInv
PROPERTY EditsReachRemote
PROPERTY PublicationRecovers
