\* A DELETE of a record that dies between its two saves.
CONSTANTS
  Workers = {w1}
  EmployeeId = {e1}
  Type = {licence}
  MaxRecords = 1
  MaxDay = 0
  Buffer = 1
  IssuedDates = {0}
  ExpiryDates = {2}
  MaxBatch = 1
  Ops = {"create", "update", "bulk", "archive", "createEmployee"}
  Crashes = TRUE
  None = None
SPECIFICATION Spec
SYMMETRY Symmetry
INVARIANT ArchivedIsDeleted
