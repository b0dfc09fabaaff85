CONSTANTS
  Nodes = {1, 2}
  Flaky = {}
  p1 = p1
  p2 = p2
  p3 = p3
  small = small
  big = big
  Pods = {p1, p2, p3}
  Deps = {small, big}
  DepOf <- MCDepOf
  Req <- MCReq
  Total <- MCTotal
  NoNode = NoNode
  NoPod = NoPod
  NoDep = NoDep
  MaxQueue = 1
  MaxCount = 1
  Workers = {w1, w2}
  Removers = {}
  Monitors = {}
SYMMETRY Symmetry
SPECIFICATION Spec
INVARIANTS ExactAccounting NoOvercommit
PROPERTY ImplementsLedger
