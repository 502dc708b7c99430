SPECIFICATION Spec
CONSTANTS
  c1 = c1
  sealed = sealed
  hand = hand
  note = note
  Clones = {c1}
  Outsider = Outsider
  GenPaths = {sealed}
  HandPaths = {hand}
  NewPaths = {note}
  HeadChoices = {TRUE}
  Commands = {"sync", "push", "pushall", "generate"}
  MaxEdits = 2
  MaxSeal = 1
  MaxOutside = 1
  MaxFaults = 0
INVARIANT TypeOK
INVARIANT NoLostEdit
INVARIANT UntrackedStaysPrivate
INVARIANT PushedIsComplete
PROPERTY SyncKeepsFastForward
PROPERTY LogSpec
