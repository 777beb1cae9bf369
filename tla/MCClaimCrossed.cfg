SPECIFICATION Spec
CONSTANTS
  maxRetries = 2
  Size = 5
  RecordSize = 2
  Redactions <- MCRedactions
  MaxServer = 2
INVARIANT RedactedKeysHidden
CHECK_DEADLOCK FALSE
