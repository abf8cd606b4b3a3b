\* Two requests at a time, every endpoint, any request may die half-way.
CONSTANTS
  Workers = {w1, w2}
  EmployeeId = {e1, e2}
  Type = {licence, training}
  MaxRecords = 2
  MaxDay = 0
  Buffer = 1
  IssuedDates = {0}
  ExpiryDates = {2}
  MaxBatch = 1
  Ops = {"create", "update", "renew", "bulk", "archive", "createEmployee", "updateEmployee", "archiveEmployee"}
  Crashes = TRUE
  None = None
SPECIFICATION Spec
SYMMETRY Symmetry
INVARIANTS
  TypeOK
  RenewalLinks
  RenewedHasSuccessor
PROPERTY HistoryKept
