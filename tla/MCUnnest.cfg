SPECIFICATION Spec
CONSTANTS
  Width = 4
  Args = {0, 1, 2}
  Programs <- MCPrograms
INVARIANTS FixpointReached NeverDeeper SameBehaviour
CHECK_DEADLOCK FALSE
