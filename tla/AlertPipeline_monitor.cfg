SPECIFICATION FairSpec
CONSTANTS
  Findings <- OneLane
  QueueSize = 1
  MaxBatches = 2
  MaxStarts = 1
  Monitor = "monitor"
  Scans = {}
  Subjects = {"m1", "dhcp"}
  MaxPerWindow = 1
  Window = 1
  MinSeverity = 2
  Pushes = 1
  Recipients = 1
  Segments = 1
  MaxSegments = 0
  AgeCap = 2
INVARIANTS
  VolumeBounded
  CapSparesSevere
PROPERTIES
  CooldownKept
  QueuedIsTaken
  ShutdownEnds
