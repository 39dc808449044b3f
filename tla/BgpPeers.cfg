SPECIFICATION Spec
CONSTANTS
  MaxPeers = 3
  Addrs = {a1, a2, a3, a4}
  Allowed = {a1, a2, a3}
  NoAddr = NoAddr
  Fds = {4, 5, 6, 7}
  HoldTime = 1
  Batch = 2
  Interval = 1
  PeerBuckets = 2
  PerPeer = 2
  Bursts <- SessionBursts
  Step = 2
  MaxBacklog = 1
  MaxConns = 3
  MaxSends = 2
  MaxClock = 4
SYMMETRY AddrSymmetry
INVARIANTS PeersSound RoutesOwned Watched BoundedWait
CHECK_DEADLOCK FALSE
