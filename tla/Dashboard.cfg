SPECIFICATION ServiceSpec
CONSTANTS
  NoDate = NoDate
  Unusable = Unusable
  None = None
  Ids = {1, 2}
  DueDates <- Dates
  CreatedOn <- Days
  Settings <- Rows
  MaxDay = 1
INVARIANTS
  ServiceTypeOK
  DashboardsAreExact
  UrgentTasksComeFirst
  WeightsWereStored
  FailuresHaveACause
  SumsOnlyGrow
