\* A setup, a text editor, and two processes of the portal.
SPECIFICATION Spec
CONSTANTS
  Setups = {s1}
  Portals = {p1, p2}
  Sites = {here, there}
  None = None
  MaxEdits = 1
SYMMETRY MCSymmetry
INVARIANTS
  SettingKept
  OutdatedIsRestarted
