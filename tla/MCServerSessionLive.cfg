CONSTANTS
  i1 = i1
  h1 = h1
  h2 = h2
  x = x
  y = y
  f1 = f1
  f2 = f2
  f3 = f3
  s1 = s1
  s2 = s2
  Frames = {f1, f2}
  Query = f1
  Batches <- MCLiveBatches
  TunnelIds = {i1}
  Hosts = {h1, h2}
  Auths <- MCAuths
  Sockets = {s1, s2}
  Bytes = {x}
  Offsets = {10}
  MAX_CLAIM_TIMESTAMP_DIFF_S = 10
  BgpChecks = TRUE
  UsesProxy = TRUE
  MaxSent = 2
  MaxRecv = 0
  None = None
SPECIFICATION FairSpec
PROPERTIES
  EveryFrameEnds
  MappedTunnelsClose
CHECK_DEADLOCK FALSE
