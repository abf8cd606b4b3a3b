\* A PATCH in flight while the employee of the record is archived.
CONSTANTS
  Workers = {w1, w2}
  EmployeeId = {e1}
  Type = {licence}
  MaxRecords = 1
  MaxDay = 0
  Buffer = 1
  IssuedDates = {0}
  ExpiryDates = {2}
  MaxBatch = 1
  Crashes = FALSE
  Ops = {"create", "bulk", "update", "createEmployee", "archiveEmployee"}
  None = None
SPECIFICATION Spec
SYMMETRY Symmetry
PROPERTY ClosedForGood
