\* Queues of two, one item taken at a time, a server that answers now and then.
SPECIFICATION FairSpec
CONSTANTS
  Packets <- MCPackets
  Servers = {s1}
  Nothing = Nothing
  Captured = {"passive", "dhcp"}
  QueueSize = 2
  DrainLimit = 1
  Interval = 2
  Cooldown = 1
  MaxLag = 2
  AgeCap = 3
  MaxDropped = 1
PROPERTIES
  SweepsGoOn
  LossIsTold
  UnexpectedIsReported
  OncePerCooldown
