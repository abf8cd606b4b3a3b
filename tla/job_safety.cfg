SPECIFICATION Spec
CONSTANTS
  RecordId = {1, 2}
  Days = {1, 2}
  ExpiryDates = {1, 2}
  Correctable = {2}
  Buffer = 0
  PageSize = 1
  BatchSize = 2
  MaxAttempts = 2
  MaxLate = 1
  None = None
INVARIANTS TypeOK NeverEarly CleanRunSettles FaithfulReport
