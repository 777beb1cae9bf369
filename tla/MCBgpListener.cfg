CONSTANTS
  a = a
  b = b
  pa = pa
  pb = pb
  dflt = dflt
  bad = bad
  w1 = w1
  w2 = w2
  w3 = w3
  w4 = w4
  l1 = l1
  l2 = l2
  Listeners = {l1, l2}
  Ips = {a, b}
  Prefixes = {pa, pb, dflt, bad}
  Covers <- MCCovers
  DefaultRoutes = {dflt}
  Malformed = {bad}
  Updates <- MCUpdates
  Ws = {w1, w2, w3}
  First = w1
SPECIFICATION FairSpec
INVARIANTS
  TypeOK
  NoStaleTarget
  MissNeedsSharedIp
  CurrentSubscribed
PROPERTIES
  ClosedForGood
  Resubscribes
CHECK_DEADLOCK FALSE
