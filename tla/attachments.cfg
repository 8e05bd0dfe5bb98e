SPECIFICATION AttachmentsSpec
CONSTANTS
  Items = {1, 2}
  ConnOf <- MCConnOf
  Medium <- MCMedium
  BatchSize = 1
  MaxAttempts = 2
  MaxCalls = 3
  DailyLimit = 2
INVARIANTS
  AttachmentsTypeOK
  RecordsTrue
PROPERTIES
  AttachmentsSettle
