SPECIFICATION FairSpec
CONSTANTS
  p1 = p1  p2 = p2
  o1 = o1  o2 = o2  o3 = o3  o4 = o4
  NoOne = NoOne
  Producers = {p1, p2}
  Objects = {o1, o2, o3}
  Capacity = 2
  Percent = 80
  BatchLimit = 2
  Offered = {"read", "tamper"}
  MaxOffers = 3
PROPERTIES ImplementsLog EventuallyDecided StopReturns
CHECK_DEADLOCK FALSE
