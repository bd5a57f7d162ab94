SPECIFICATION FairSpec
CONSTANTS
  p1 = p1
  p2 = p2
  Producers = {p1, p2}
  Consumers = {c1, c2}
  Size = 2
  MaxEnqueues <- MCMaxEnqueues
  None = None
  Torn = Torn
INVARIANTS WritersApart
PROPERTIES ImplementsFifo Drains
