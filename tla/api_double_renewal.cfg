\* Two renewals of one record at a time.
CONSTANTS
  Workers = {w1, w2}
  EmployeeId = {e1}
  Type = {licence}
  MaxRecords = 3
  MaxDay = 0
  Buffer = 1
  IssuedDates = {0}
  ExpiryDates = {2}
  MaxBatch = 1
  Crashes = FALSE
  Ops = {"create", "renew", "createEmployee"}
  None = None
SPECIFICATION Spec
SYMMETRY Symmetry
INVARIANT OneSuccessor
