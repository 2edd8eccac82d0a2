SPECIFICATION Spec
CONSTANTS
  p1 = p1  p2 = p2
  o1 = o1  o2 = o2  o3 = o3  o4 = o4
  NoOne = NoOne
  Producers = {p1, p2}
  Objects = {o1, o2, o3, o4}
  Capacity = 3
  Percent = 40
  BatchLimit = 2
  Offered = {"process", "read", "tamper"}
  MaxOffers = 4
SYMMETRY Symmetry
INVARIANTS TypeOK OneOwner Custody Accounting TriageReserve StoredOrLogged DrainedOnStop
CHECK_DEADLOCK FALSE
