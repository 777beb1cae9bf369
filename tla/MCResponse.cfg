CONSTANTS
  MaxBody = 3
  MaxRecords = 3
  RevealRecords = 2
  ChunkSize = 4
  BlockSize = 2
  Suffix = 1
  None = None
SPECIFICATION MCSpec
INVARIANTS
  ParsedAsSent
  EarlyEndSeen
  OnlySelectedShown
  SelectedShown
  AttestorSeesClientsView
CHECK_DEADLOCK FALSE
