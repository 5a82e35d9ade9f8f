SPECIFICATION MCSpec
CONSTANTS
  Pointers = {p1, p2}
  Groups = {g1}
  None = None
  MaxWorkspaces = 2
  MaxEdits = 2
  MaxStops = 1
  MaxArrivals = 1
  MaxActivations = 1
  Windows = {a1, a2}
  MaxWindowEdits = 2
  MaxWindowStops = 1
  MaxWindowArrivals = 1
  MaxCommands = 1
  MaxTogether = 2
INVARIANTS
  ShownIsDeclared
  IdsAreStable
  ShownIsCommitted
  FocusShown
PROPERTIES
  DesktopRecovers
CHECK_DEADLOCK FALSE
