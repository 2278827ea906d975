\* A port for administration and an ordinary service, one inspection.
SPECIFICATION FairSpec
CONSTANTS
  Ports = {ssh}
  Services = {cast}
  Admin = {ssh}
  Absent = Absent
  LearningDays = 1
  LeastSpan = 1
  RemovalAge = 2
  RefreshAge = 1
  AgeCap = 2
  MaxInspections = 1
  MaxCrashes = 1
INVARIANTS
  AdminIsApproved
  PendingWasTold
  AcceptedIsExpected
PROPERTIES
  RemovalIsEarned
  GoneIsNoticed
