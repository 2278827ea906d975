\* Two detectors, batches of one row, one pass that ends early.
SPECIFICATION Spec
CONSTANTS
  Detectors = {monitor, scan}
  Macs = {m1}
  Nobody = Nobody
  Batch = 1
  MaxFindings = 1
  MaxRows = 2
  MaxCrashes = 1
INVARIANTS
  NothingSkipped
  OnceEach
SYMMETRY MCSymmetry
