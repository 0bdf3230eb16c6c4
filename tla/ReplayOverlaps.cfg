\* Two checks of a device and one of the house, two requests at once, one fault.
CONSTANTS
  d1 = d1
  d2 = d2
  DeviceChecks = {d1, d2}
  HouseChecks = {h1}
  Journals <- Parties
  Slots = {s1, s2}
  MaxFaults = 1
  None = None
SPECIFICATION Spec
SYMMETRY SlotSymmetry
INVARIANTS ReachesOwnCheck FloorSettles
CHECK_DEADLOCK FALSE
