SPECIFICATION Spec
CONSTANTS
  Width = 4
  None = None
  EntryType = "entry"
  GType = "g"
  Args = {0, 1, 2}
  Programs <- LabelPrograms
INVARIANT SameBehaviour
CHECK_DEADLOCK FALSE
