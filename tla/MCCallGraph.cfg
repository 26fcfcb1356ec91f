SPECIFICATION Spec
CONSTANTS
  NImpF = 1
  NFuncs = 4
  Graphs <- MCGraphs
INVARIANTS RecursionExact InlineOrder
CHECK_DEADLOCK FALSE
