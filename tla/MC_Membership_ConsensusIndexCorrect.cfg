CONSTANTS
  g1 = g1
  g2 = g2
  g3 = g3
  n1 = n1
  Nodes <- MCNodes
  Genesis <- MCGenesis
  Self = g1
  NoNode = NoNode
  HashRank <- MCHashRank
  SortedArrangements <- MCSortedArrangements
  RefWindow = 1
  AcceptPeriod = 4
  Epoch = 1
  MaxTime = 11
SPECIFICATION Spec
INVARIANTS
  ConsensusIndexCorrect
