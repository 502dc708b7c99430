SPECIFICATION Spec
CONSTANTS
  c1 = c1
  sealed = sealed
  hand = hand
  note = note
  Clones = {c1}
  Outsider = Outsider
  GenPaths = {sealed}
  HandPaths = {hand}
  NewPaths = {note}
  HeadChoices = {TRUE, FALSE}
  Commands = {"sync", "push", "pushall", "generate"}
  MaxEdits = 1
  MaxSeal = 1
  MaxOutside = 1
  MaxFaults = 0
INVARIANT ReportIsTrue
