SPECIFICATION Spec
CONSTANTS
  n1 = n1
  n2 = n2
  worker1 = worker1
  NoObject = NoObject
  NoFile = NoFile
  Ki = 2
  Frac = 1
  Half = 64
  NodeSwaps <- OneNodeSwap
  Pools = {}
  MatchLabels <- NoLabels
  PoolConditions = {}
  Specs <- AllSpecs
  MaxEdits = 2
  MaxFaults = 0
INVARIANT AvailableIsDeployed
