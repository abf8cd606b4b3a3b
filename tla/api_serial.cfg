\* One request at a time, every endpoint, any request may die half-way.
CONSTANTS
  Workers = {w1}
  EmployeeId = {e1, e2}
  Type = {licence}
  MaxRecords = 3
  MaxDay = 0
  Buffer = 1
  IssuedDates = {0, 2}
  ExpiryDates = {2, 3}
  MaxBatch = 1
  Ops = {"create", "update", "renew", "bulk", "archive", "createEmployee", "updateEmployee", "archiveEmployee"}
  Crashes = TRUE
  None = None
SPECIFICATION Spec
SYMMETRY Symmetry
INVARIANTS
  DeletedMatchesStatus
  DatesOrdered
  NoOrphans
  OneSuccessor
PROPERTY ImplementsLifecycle
