SPECIFICATION Spec
CONSTANTS
  Keys = {k1, k2, k3}
  Values = {v1, v2}
  Nodes = {n1, n2, n3}
  Root = root
  NoNode = null
  Absent = absent
  Undefined = undefined
  Ttls <- MCTtls
  Times <- MCTimes
  Maxes <- MCMaxes
SYMMETRY Symmetry
INVARIANTS
  TypeOK
  MapMatchesList
  RingIntact
PROPERTIES
  ImplementsCache
  ImplementsRecency
