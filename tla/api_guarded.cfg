\* Two requests at a time, on the endpoints that write with a guard or in a transaction.
CONSTANTS
  Workers = {w1, w2}
  EmployeeId = {e1, e2}
  Type = {licence}
  MaxRecords = 3
  MaxDay = 1
  Buffer = 1
  IssuedDates = {0}
  ExpiryDates = {2}
  MaxBatch = 2
  Ops = {"create", "renew", "bulk", "createEmployee", "archiveEmployee"}
  Crashes = TRUE
  None = None
SPECIFICATION Spec
SYMMETRY Symmetry
INVARIANTS
  RenewalLinks
PROPERTY ClosedForGood
