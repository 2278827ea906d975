SPECIFICATION FairSpec
CONSTANTS
  Macs = {m1}
  Ifaces = {"eth0", "eth1"}
  Subnets = {"net1"}
  Unknown = Unknown
  Targets <- TwoNetworks
  MissedAfter = 2
  Grace = 1
  Overrides = {}
  AgeCap = 1
  MaxLag = 0
  MaxCrashes = 0
  PassiveEnabled = FALSE
  Ipv6Enabled = TRUE
  RetryProbe = TRUE
  AlwaysOnPing = TRUE
  AddressReuse = TRUE
PROPERTIES
  GoneGoesOffline
  GoneIsReported
