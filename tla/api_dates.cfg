\* Two PATCHes of one record at a time, one of each date.
CONSTANTS
  Workers = {w1, w2}
  EmployeeId = {e1}
  Type = {licence}
  MaxRecords = 1
  MaxDay = 0
  Buffer = 1
  IssuedDates = {0, 2}
  ExpiryDates = {2, 3}
  MaxBatch = 1
  Crashes = FALSE
  Ops = {"create", "update", "createEmployee"}
  None = None
SPECIFICATION Spec
SYMMETRY Symmetry
INVARIANT DatesOrdered
