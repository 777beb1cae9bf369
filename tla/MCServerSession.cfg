CONSTANTS
  i1 = i1
  h1 = h1
  h2 = h2
  x = x
  y = y
  f1 = f1
  f2 = f2
  f3 = f3
  s1 = s1
  s2 = s2
  Frames = {f1, f2, f3}
  Query = f1
  Batches <- MCBatches
  TunnelIds = {i1}
  Hosts = {h1, h2}
  Auths <- MCAuths
  Sockets = {s1, s2}
  Bytes = {x}
  Offsets <- MCOffsets
  MAX_CLAIM_TIMESTAMP_DIFF_S = 10
  BgpChecks = TRUE
  UsesProxy = FALSE
  MaxSent = 2
  MaxRecv = 1
  None = None
SYMMETRY MCSymmetry
SPECIFICATION Spec
INVARIANTS
  TypeOK
  HostWhitelisted
  ClaimCoversWire
  OrphanNeedsIdReuse
  BatchedWriteFindsTunnel
PROPERTY ClaimFreezesTunnel
CHECK_DEADLOCK FALSE
