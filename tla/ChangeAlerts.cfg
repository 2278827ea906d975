SPECIFICATION Spec
CONSTANTS
  Signatures <- MCSignatures
  Rules <- MCRules
  Configured = Nothing
  Nothing = Nothing
  Services = {"ssh", "http"}
  Admin = {"ssh"}
  Profiles <- MCProfiles
  Arounds <- MCArounds
  Beginnings <- MCBeginnings
  Incidents <- MCIncidents
  Decisions = {"accepted", "snoozed"}
  Excludable = {{"mdns", "identity"}}
  Spans = {7}
  MaxTurns = 2
INVARIANTS
  AdminIsTold
  QuietWhenCalm
  RiskSettles
PROPERTIES
  RiseIsRecorded
  ExcludedIsSilent
