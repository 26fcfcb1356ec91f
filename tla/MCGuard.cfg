SPECIFICATION FairSpec
CONSTANTS
  Width = 16
  MaxIter = 3
  AutoBase = 8
  UserBase = 12
  None = None
  Args = {1, 2, 4}
  Programs <- MCPrograms
INVARIANTS ResultGuarded GuardsInvisible
PROPERTY GuardedEnds
CHECK_DEADLOCK FALSE
