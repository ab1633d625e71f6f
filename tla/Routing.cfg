\* Two mounts of every two kinds, or those of the environment; every path of up to three pieces.
CONSTANTS
  None = None
  Invalid = Invalid
  Labels <- TheLabels
  Length <- TheLength
  Networks <- TheNetworks
  Texts <- TheTexts
  Clients <- TheClients
  MaxPath = 5
SPECIFICATION Spec
INVARIANTS Canonical PathResolved MostSpecificMount NoProxyHonoured
CHECK_DEADLOCK FALSE
