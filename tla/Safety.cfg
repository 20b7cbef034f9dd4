SPECIFICATION Spec
CONSTANTS
  n1 = n1
  n2 = n2
  worker1 = worker1
  NoObject = NoObject
  NoFile = NoFile
  Ki = 2
  Frac = 1
  Half = 64
  NodeSwaps <- MCNodeSwaps
  Pools = {}
  MatchLabels <- NoLabels
  PoolConditions = {}
  Specs <- SafetySpecs
  MaxEdits = 2
  MaxFaults = 1
SYMMETRY Symmetry
INVARIANTS TypeOK OneVerdict NoLostWakeup
PROPERTY StatusExplained
