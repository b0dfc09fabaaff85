CONSTANTS
  Nodes = {1}
  Flaky = {}
  p1 = p1
  p2 = p2
  p3 = p3
  small = small
  big = big
  Pods = {p1, p2}
  Deps = {small}
  DepOf <- MCDepOf
  Req <- MCReq
  Total <- MCTotal
  NoNode = NoNode
  NoPod = NoPod
  NoDep = NoDep
  MaxQueue = 2
  MaxCount = 2
  Workers = {w1}
  Removers = {x1, x2}
  Monitors = {}
SYMMETRY Symmetry
SPECIFICATION Spec
INVARIANT ExactAccounting
PROPERTY ImplementsLedger
