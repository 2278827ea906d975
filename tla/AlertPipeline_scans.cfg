SPECIFICATION Spec
CONSTANTS
  Findings <- Unlimited
  QueueSize = 2
  MaxBatches = 4
  MaxStarts = 0
  Monitor = "monitor"
  Scans = {"scan"}
  Subjects = {"m1", "dhcp"}
  MaxPerWindow = 0
  Window = 1
  MinSeverity = 0
  Pushes = 1
  Recipients = 2
  Segments = 2
  MaxSegments = 3
  AgeCap = 2
INVARIANTS
  Accounted
  NothingLeftBehind
  SmsOverrunBounded
