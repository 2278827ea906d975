SPECIFICATION Spec
CONSTANTS
  Macs = {m1}
  Ifaces = {"eth0"}
  Subnets = {"net1"}
  Unknown = Unknown
  Targets <- OneNetwork
  MissedAfter = 2
  Grace = 1
  Overrides = {2}
  AgeCap = 2
  MaxLag = 1
  MaxCrashes = 1
  PassiveEnabled = TRUE
  Ipv6Enabled = FALSE
  RetryProbe = TRUE
  AlwaysOnPing = TRUE
  AddressReuse = FALSE
INVARIANTS
  LogTellsStatus
  OfflineIsEarned
  HeardIsNotMissed
  NoDoubleFire
  AlertedMeansAbsent
PROPERTY
  KeepsContract
