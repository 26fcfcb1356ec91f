CONSTANTS
  SlotNos = {n1, n2, n3}
  None = None
  Items <- MCItems
  Roots <- MCRoots
  Kind <- MCKind
  Size <- MCSize
  TopBit = {"rate"}
  Keys <- MCKeys
  Out <- MCOut
  Indices = {"first"}
  Child <- MCChild
  Paths <- MCPaths
SYMMETRY MCSymmetry
SPECIFICATION Spec
INVARIANTS HandlesFaithful Accounted CheckedDecodes
PROPERTIES PathCost
CHECK_DEADLOCK FALSE
