SPECIFICATION Spec
CONSTANTS
  MaxPeers = 1
  Addrs = {a1}
  Allowed = {a1}
  NoAddr = NoAddr
  Fds = {4, 5}
  HoldTime = 1
  Batch = 0
  Interval = 0
  PeerBuckets = 1
  PerPeer = 1
  Bursts <- CleanBursts
  Step = 1
  MaxBacklog = 1
  MaxConns = 1
  MaxSends = 2
  MaxClock = 3
INVARIANT Reassembled
CHECK_DEADLOCK FALSE
