SPECIFICATION Spec
CONSTANTS
  None = None
  Nodes <- ThreeNodes
  NodeOrder <- InOrder
  Leaves <- AllLeaves
  Misnamed <- NoName
  Requests <- Graphs
CHECK_DEADLOCK FALSE
INVARIANTS
  VerifiedTotalsAreSound
  VerdictIsExact
PROPERTIES
  GraphsAreReplayed
