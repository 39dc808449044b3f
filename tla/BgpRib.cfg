SPECIFICATION Spec
CONSTANTS
  r1 = r1
  r2 = r2
  k1 = k1
  path1 = path1
  path2 = path2
  old = old
  merged = merged
  comm = comm
  Peers <- MCPeers
  FourByte <- MCFourByte
  Buckets <- MCBuckets
  Bucket <- MCBucket
  Updates <- MCUpdates
  Reconcile <- MCReconcile
  Addresses <- MCAddresses
  MaxUpdates = 4
  MaxLookups = 1
INVARIANTS RibIsAdj RefsExact TreeSound
CHECK_DEADLOCK FALSE
