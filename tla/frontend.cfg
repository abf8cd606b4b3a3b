SPECIFICATION FairSpec
CONSTANTS
  MaxRequests = 2
  RecordId = {1, 2, 3}
  Orphans = {2}
  Department <- Department1
  TypeOf <- TypeOf1
  RowStatus = {"active", "expiring", "archived"}
  Day = {1, 2, 3}
  Limit = {1, 2}
  Breakdowns = {"department"}
  Filters = {"preset", "custom"}
  DefaultFilter = "preset"
  Offsets = {0, 1}
  Rows = {1, 2}
INVARIANTS
  TypeOK
  ShowsLatest
  MetricsAgree
  PagesComplete
  PresetIsExpiring
  UpdateOwn
  ArchiveOwn
  SingleRenew
PROPERTIES
  LoggedOutLeaves
  SettlesDown
