SPECIFICATION Spec
CONSTANTS
  r1 = r1
  r2 = r2
  r3 = r3
  None = None
  Requests = {r1, r2, r3}
  Uploads = {}
  LocalLimit = 2
  LastStreamId = 2
  MaxSettings = 3
  Windows = {TRUE}
  Checkpoints = FALSE
  Yields = FALSE
SYMMETRY Symmetry
INVARIANTS PermitsConserved NoNeedlessRead StreamsDistinct RetrySafe
PROPERTIES AdmissionBounded
