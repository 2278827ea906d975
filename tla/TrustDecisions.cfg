\* The host and a device, two editors beside the monitor.
SPECIFICATION FairSpec
CONSTANTS
  Macs = {own, m1}
  Own = own
  Names <- MCNames
  None = None
  OnLan = {m1}
  Editors = {e1, e2}
INVARIANT
  DecisionKept
PROPERTY
  DecisionTakesEffect
