CONSTANTS
  c1 = c1
  Calls = {c1}
  InitReq = InitReq
  MaxWire = 2
  Unset = Unset
  Thrown = Thrown
  MaxSafe = 7
  MaxUnknown = 2
SPECIFICATION MCSpec
INVARIANTS
  TypeOK
  ClosedLeavesNoWaiter
  InitialisedByServer
  DecodedAsSent
  JsonRoundTrip
  SignedBytesSurvive
PROPERTY ImplementsRpcCall
CHECK_DEADLOCK FALSE
