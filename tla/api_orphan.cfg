\* A POST or a renewal in flight while the employee is archived.
CONSTANTS
  Workers = {w1, w2}
  EmployeeId = {e1}
  Type = {licence}
  MaxRecords = 2
  MaxDay = 0
  Buffer = 1
  IssuedDates = {0}
  ExpiryDates = {2}
  MaxBatch = 1
  Crashes = FALSE
  Ops = {"create", "renew", "bulk", "createEmployee", "archiveEmployee"}
  None = None
SPECIFICATION Spec
SYMMETRY Symmetry
INVARIANT NoOrphans
