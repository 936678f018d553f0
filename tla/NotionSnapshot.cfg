SPECIFICATION SnapshotSpec
CONSTANTS
  MaxRows = 2
  PageSize = 1
  MaxClients = 2
  MaxTasks = 3
  Empty = Empty
  Refused = Refused
  InTrash = InTrash
INVARIANTS
  SnapshotInv
  SteadyPagesAreExact
  RelationErrorsHaveACause
