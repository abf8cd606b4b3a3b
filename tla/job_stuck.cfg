SPECIFICATION FairSpec
CONSTANTS
  RecordId = {1}
  Days = {1, 2}
  ExpiryDates = {1, 2}
  Correctable = {1}
  Buffer = 0
  PageSize = 1
  BatchSize = 1
  MaxAttempts = 1
  MaxLate = 0
  None = None
PROPERTY CorrectedDateHeals
