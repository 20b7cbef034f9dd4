SPECIFICATION ResyncSpec
CONSTANTS
  n1 = n1
  n2 = n2
  worker1 = worker1
  NoObject = NoObject
  NoFile = NoFile
  Ki = 2
  Frac = 1
  Half = 64
  NodeSwaps <- OneNodeSwap
  Pools <- MCPools
  MatchLabels <- MCMatchLabels
  PoolConditions <- MCPoolConditions
  Specs <- OneSpec
  MaxEdits = 3
  MaxFaults = 0
PROPERTIES MachineConfigComesBack PoolReadinessCatchesUp
