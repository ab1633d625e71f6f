SPECIFICATION FairSpec
CONSTANTS
  r1 = r1
  r2 = r2
  None = None
  Requests = {r1, r2}
  Uploads = {r2}
  LocalLimit = 2
  LastStreamId = 2
  MaxSettings = 1
  Windows = {FALSE}
  Checkpoints = TRUE
  Yields = FALSE
PROPERTIES Ends
