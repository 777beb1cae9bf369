CONSTANTS
  PING_INTERVAL_MS = 4
  MAX_NO_DATA_INTERVAL_MS = 12
  RoundTrip = 3
  MaxLost = 1
  Off = Off
  r1 = r1
  r2 = r2
  c1 = c1
  c2 = c2
  Requests = {r1, r2}
  AppCalls = {c1, c2}
  maxRetries = 2
  MaxWaits = 1
  None = None
SPECIFICATION MCSpec
INVARIANTS
  LivePeerKept
  NoTimerAfterClose
  OneReply
  OpenCallsAreLeftovers
PROPERTIES
  SilentPeerDropped
  EveryRequestAnswered
  ListenersGo
CHECK_DEADLOCK FALSE
