SPECIFICATION Spec
CONSTANTS
  ann = ann
  bob = bob
  regular = regular
  s1 = s1
  s2 = s2
  None = None
  Customers <- MCCustomers
  House <- MCHouse
  Clash <- MCClash
  Alike <- MCAlike
  Events <- MCEvents
  For <- MCFor
  MaxDrops = 2
  MaxFaults = 1
INVARIANTS TypeOK CustomersKept SalesKeepCustomers
