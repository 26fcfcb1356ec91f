SPECIFICATION CleanFairSpec
CONSTANTS
  NImpF = 1
  NFuncs = 4
  NImpG = 1
  NGlobals = 4
  None = None
  Inputs <- MCAllInputs
  Datas <- MCAllDatas
  Sections <- MCSections
  Bytes = {0, 1}
  MemSize = 4
  GlobalAt = 1
  MaxData = 2
  MaxValue = 3
INVARIANTS KeepsWhatIsNeeded ReferencesPreserved SameMemory NoDeadWeight
PROPERTY Terminates
CHECK_DEADLOCK FALSE
