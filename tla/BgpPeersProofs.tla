---------------------------- MODULE BgpPeersProofs ----------------------------
(***************************************************************************)
(* What holds of the BGP daemon's peers table for every number of slots,   *)
(* routers, descriptors and messages: the table, the descriptors select()  *)
(* looks at and the routes in the RIB agree (PeersSound, Watched,          *)
(* RoutesOwned), and the round-robin search bounds a peer's wait           *)
(* (BoundedWait).                                                          *)
(***************************************************************************)
EXTENDS BgpPeers, TableFacts

-----------------------------------------------------------------------------
(* Arithmetic *)

\* Every index is met by the search, wherever it starts.
LEMMA TurnReaches ==
  ASSUME NEW m \in Nat \ {0}, NEW r \in Nat, NEW s \in 0 .. m - 1
  PROVE  \E k \in 0 .. m - 1 : (k + r) % m = s
PROOF
  <1>2. PICK d \in Int, b \in 0 .. m - 1 : r = m * d + b
    <2>1. r \in Int
      OBVIOUS
    <2> QED
      BY <2>1, Division, Zenon
  <1>3. CASE s >= b
    <2>1. s - b \in 0 .. m - 1 /\ s - b + r = m * d + s
      BY <1>2, <1>3
    <2>2. s - b + r \in Int
      BY <1>2
    <2>3. (s - b + r) % m = s
      BY <2>1, <2>2, ModUnique
    <2> QED
      BY <2>1, <2>3
  <1>4. CASE s < b
    <2>1. s - b + m \in 0 .. m - 1 /\ s - b + m + r = m * (d + 1) + s /\ d + 1 \in Int
      BY <1>2, <1>4
    <2>2. PICK a \in Int, q \in Int : a = s - b + m + r /\ a = m * q + s
      BY <1>2, <2>1
    <2>3. a = m * q + s
      BY <2>2
    <2>4. a % m = s
      <3>1. m \in Nat \ {0} /\ q \in Int /\ s \in 0 .. m - 1 /\ a \in Int
        OBVIOUS
      <3> QED
        BY <2>3, <3>1, ModUnique, ZenonT(30)
    <2> QED
      BY <2>1, <2>2, <2>4
  <1> QED
    BY <1>2, <1>3, <1>4

\* A search that starts one later meets an index one earlier.
LEMMA TurnMoves ==
  ASSUME NEW m \in Nat \ {0}, NEW r \in Nat, NEW k \in 1 .. m - 1
  PROVE  (k - 1 + ((r + 1) % m)) % m = (k + r) % m
PROOF
  <1>1. \A a \in Int, q \in Int, u \in 0 .. m - 1 : a = m * q + u => a % m = u
    BY ModUnique
  <1>2. PICK d \in Int, t \in 0 .. m - 1 : r + 1 = m * d + t /\ (r + 1) % m = t
    <2>1. r + 1 \in Int
      OBVIOUS
    <2> QED
      BY <2>1, Division, Zenon
  <1>3. PICK w \in Int, u \in 0 .. m - 1 : k - 1 + t = m * w + u /\ (k - 1 + t) % m = u
    <2>1. k - 1 + t \in Int
      BY <1>2
    <2> QED
      BY <2>1, Division
  <1>4. k + r = m * (d + w) + u /\ d + w \in Int
    BY <1>2, <1>3
  <1>5. (k + r) % m = u
    <2>1. PICK a \in Int, q \in Int : a = k + r /\ a = m * q + u
      BY <1>4
    <2>2. a % m = u
      BY <1>1, <2>1
    <2> QED
      BY <2>1, <2>2
  <1> QED
    BY <1>2, <1>3, <1>5

\* The buckets of a peer: PerPeer of them from the one of the first path, which
\* is where bgp_peer_info_delete() looks.
LEMMA PeerBucketRange ==
  ASSUME NEW fd \in Nat, NEW path \in Nat
  PROVE  /\ Modulo(fd, path) \in 0 .. (PeerBuckets * PerPeer) - 1
         /\ Modulo(fd, path) - Modulo(fd, 1) \in 0 .. PerPeer - 1
PROOF
  <1>1. /\ PerPeer \in Nat \ {0} /\ PeerBuckets \in Nat \ {0}
    BY BgpAssumption
  <1>3. PICK d \in Int, b \in 0 .. PeerBuckets - 1 : fd = PeerBuckets * d + b
    <2>1. fd \in Int
      OBVIOUS
    <2> QED
      BY <1>1, <2>1, Division, Zenon
  <1>m. PeerBuckets * PerPeer \in Nat \ {0}
    BY <1>1
  <1>4. ASSUME NEW c \in 0 .. PerPeer - 1
        PROVE  /\ (fd * PerPeer + c) % (PeerBuckets * PerPeer) = b * PerPeer + c
               /\ b * PerPeer + c \in 0 .. (PeerBuckets * PerPeer) - 1
    <2>1. fd * PerPeer + c = (PeerBuckets * PerPeer) * d + (b * PerPeer + c)
      BY <1>1, <1>3
    <2>2. b * PerPeer + c \in 0 .. (PeerBuckets * PerPeer) - 1
      <3>1. (b + 1) * PerPeer <= PeerBuckets * PerPeer
        BY <1>1, <1>3
      <3>2. (b + 1) * PerPeer = b * PerPeer + PerPeer
        BY <1>1, <1>3
      <3>3. b * PerPeer \in Nat /\ PeerBuckets * PerPeer \in Nat
        BY <1>1, <1>3
      <3> QED
        BY <1>1, <3>1, <3>2, <3>3
    <2>3. fd * PerPeer + c \in Int
      BY <1>1
    <2> QED
      BY <1>m, <1>3, <2>1, <2>2, <2>3, ModUnique
  <1>5. (path - 1) % PerPeer \in 0 .. PerPeer - 1
    BY <1>1, Division
  <1>6. (1 - 1) % PerPeer = 0
    BY <1>1, ModUnique
  <1>7. 0 \in 0 .. PerPeer - 1
    BY <1>1
  <1>8. Modulo(fd, path) = b * PerPeer + ((path - 1) % PerPeer)
    BY <1>4, <1>5 DEF Modulo
  <1>9. Modulo(fd, 1) = b * PerPeer + 0
    BY <1>4, <1>6, <1>7 DEF Modulo
  <1>10. Modulo(fd, path) \in 0 .. (PeerBuckets * PerPeer) - 1
    BY <1>4, <1>5, <1>8
  <1>11. b * PerPeer \in Int
    BY <1>1
  <1> QED
    BY <1>1, <1>5, <1>8, <1>9, <1>10, <1>11

\* A finite set of numbers has a greatest one: max_peers_idx and select_fd.
LEMMA MaxOf ==
  ASSUME NEW T, T \subseteq Nat, IsFiniteSet(T), T # {}
  PROVE  Max(T) \in T /\ \A n \in T : n <= Max(T)
PROOF
  <1> DEFINE F == {U \in SUBSET T : U = {} \/ \E m \in U : \A n \in U : m >= n}
  <1>1. {} \in F
    OBVIOUS
  <1>2. \A U \in SUBSET T : \A x \in T \ U : U \in F => U \cup {x} \in F
    <2> SUFFICES ASSUME NEW U \in SUBSET T, NEW x \in T \ U, U \in F
                 PROVE  \E m \in U \cup {x} : \A n \in U \cup {x} : m >= n
      OBVIOUS
    <2>1. CASE U = {}
      BY <2>1
    <2>2. CASE U # {}
      <3>1. PICK m \in U : \A n \in U : m >= n
        BY <2>2
      <3>2. CASE m >= x
        BY <3>1, <3>2
      <3>3. CASE ~(m >= x)
        <4>1. \A n \in U : x >= n
          BY <3>1, <3>3
        <4> QED
          BY <4>1
      <3> QED
        BY <3>2, <3>3
    <2> QED
      BY <2>1, <2>2
  <1>3. T \in F
    <2>1. T \in SUBSET T
      OBVIOUS
    <2> HIDE DEF F
    <2> QED
      BY <1>1, <1>2, <2>1, FiniteInduction
  <1>4. \E m \in T : \A n \in T : m >= n
    BY <1>3
  <1>5. Max(T) \in T /\ \A n \in T : Max(T) >= n
    BY <1>4 DEF Max
  <1> QED
    BY <1>5

-----------------------------------------------------------------------------
(***************************************************************************)
(* The peers table, the RIB and the watched descriptors belong together.   *)
(***************************************************************************)
PeerRec == [fd : {0} \cup Fds, addr : {NoAddr} \cup Addrs,
            status : {0, Idle, Active, Established},
            ht : {0, HoldTime}, last_keepalive : Nat, held : Cuts, session : Nat]

\* an entry of the RIB, with what the peer p[e.peer] says of it
OwnedBy(e, p) ==
  /\ p[e.peer].fd # 0 /\ p[e.peer].status = Established
  /\ p[e.peer].session = e.session
  /\ e.bucket = Modulo(p[e.peer].fd, e.path)

Table(p, r, w) ==
  /\ p \in [Slots -> PeerRec]
  /\ \A s \in Slots : p[s].fd = 0 => p[s] = EmptyPeer
  /\ \A s, t \in Slots : p[s].fd = p[t].fd /\ p[s].fd # 0 => s = t
  /\ w = {0} \cup {p[s].fd : s \in {t \in Slots : p[t].fd # 0}}
  /\ r \subseteq Entries
  /\ \A e \in r : OwnedBy(e, p)

OneEach(p) ==
  \A s, t \in Slots :
    p[s].fd # 0 /\ p[t].fd # 0 /\ p[s].addr = p[t].addr => s = t

\* An empty slot is a peer record.
LEMMA EmptyPeerType == EmptyPeer \in PeerRec /\ EmptyPeer.fd = 0
PROOF
  BY DEF EmptyPeer, PeerRec, Cuts

\* What is known of an entry.
LEMMA EntryType ==
  ASSUME NEW e \in Entries
  PROVE  /\ e.peer \in Slots /\ e.path \in Nat /\ e.session \in Nat
         /\ e.bucket \in 0 .. (PeerBuckets * PerPeer) - 1
PROOF
  <1>1. \A m \in Msgs : m.path \in Nat
    BY BgpAssumption DEF Msgs
  <1>2. e.peer \in Slots /\ e.path \in {m.path : m \in Msgs} /\ e.session \in Nat
        /\ e.bucket \in 0 .. (PeerBuckets * PerPeer) - 1
    BY DEF Entries
  <1> QED
    BY <1>1, <1>2

\* bgp_peer_close(), after FD_CLR: the slot is empty, its descriptor is not
\* watched any more and its routes are gone; nothing else changes.
LEMMA CloseKeeps ==
  ASSUME NEW p, NEW r, NEW w, NEW S, S \subseteq Slots, Table(p, r, w), Close(p, r, w, S),
         \A s \in S : p[s].fd # 0
  PROVE  Table(peers', rib', bkp')
PROOF
  <1>0. /\ p \in [Slots -> PeerRec] /\ r \subseteq Entries
        /\ \A s \in Slots : p[s].fd \in Nat
        /\ Fds \subseteq Nat
    <2>1. Fds \subseteq Nat
      BY BgpAssumption
    <2>2. p \in [Slots -> PeerRec] /\ r \subseteq Entries
      BY DEF Table
    <2>3. \A s \in Slots : p[s].fd \in {0} \cup Fds
      BY <2>2 DEF PeerRec
    <2>4. \A x \in {0} \cup Fds : x \in Nat
      BY <2>1
    <2>5. \A s \in Slots : p[s].fd \in Nat
      BY <2>3, <2>4
    <2> QED
      BY <2>1, <2>2, <2>5
  <1>1. /\ peers' = [s \in Slots |-> IF s \in S THEN EmptyPeer ELSE p[s]]
        /\ rib' = {e \in r : \A s \in S : e \in InfoDelete(r, s, p[s].fd)}
        /\ bkp' = w \ {p[s].fd : s \in S}
    BY DEF Close, Cleared
  <1>2. /\ \A s \in S : peers'[s] = EmptyPeer
        /\ \A s \in Slots \ S : peers'[s] = p[s]
        /\ peers' \in [Slots -> PeerRec]
    BY <1>0, <1>1, EmptyPeerType
  <1>3. \A s \in Slots : peers'[s].fd = 0 => peers'[s] = EmptyPeer
    BY <1>2 DEF Table
  <1>4. \A s, t \in Slots : peers'[s].fd = peers'[t].fd /\ peers'[s].fd # 0 => s = t
    BY <1>2, EmptyPeerType DEF Table
  <1>5. bkp' = {0} \cup {peers'[s].fd : s \in {t \in Slots : peers'[t].fd # 0}}
    <2>1. w = {0} \cup {p[s].fd : s \in {t \in Slots : p[t].fd # 0}}
      BY DEF Table
    <2>2. \A s \in S : \A t \in Slots \ S : p[t].fd # p[s].fd
      BY DEF Table
    <2>3. ASSUME NEW x \in bkp' PROVE x = 0 \/ \E t \in Slots : peers'[t].fd = x /\ x # 0
      <3>1. CASE x # 0
        <4>1. PICK t \in Slots : p[t].fd = x
          BY <1>1, <2>1, <2>3, <3>1
        <4>2. t \notin S
          BY <1>1, <2>3, <4>1
        <4> QED
          BY <1>2, <3>1, <4>1, <4>2
      <3> QED
        BY <3>1
    <2>4. ASSUME NEW t \in Slots, peers'[t].fd # 0 PROVE peers'[t].fd \in bkp'
      <3>1. t \notin S
        BY <1>2, <2>4, EmptyPeerType
      <3>2. peers'[t].fd = p[t].fd
        BY <1>2, <3>1
      <3>3. p[t].fd \in w
        BY <2>1, <2>4, <3>2
      <3>4. p[t].fd \notin {p[s].fd : s \in S}
        BY <2>2, <3>1
      <3> QED
        BY <1>1, <3>2, <3>3, <3>4
    <2>5. 0 \in bkp'
      BY <1>1, <2>1
    <2> QED
      BY <2>3, <2>4, <2>5
  <1>6. \A e \in rib' : e \in r /\ e.peer \notin S
    <2> SUFFICES ASSUME NEW e \in rib', e.peer \in S PROVE FALSE
      BY <1>1
    <2>1. e \in r /\ e \in InfoDelete(r, e.peer, p[e.peer].fd)
      BY <1>1
    <2>2. OwnedBy(e, p) /\ e \in Entries
      BY <2>1 DEF Table
    <2>3. e.bucket - Modulo(p[e.peer].fd, 1) \in 0 .. PerPeer - 1
      BY <1>0, <2>2, EntryType, PeerBucketRange DEF OwnedBy
    <2> QED
      BY <2>1, <2>3 DEF InfoDelete
  <1>7. \A e \in rib' : OwnedBy(e, peers')
    <2> SUFFICES ASSUME NEW e \in rib' PROVE OwnedBy(e, peers')
      OBVIOUS
    <2>1. e \in r /\ e.peer \notin S /\ e.peer \in Slots /\ OwnedBy(e, p)
      BY <1>0, <1>6, EntryType DEF Table
    <2> QED
      BY <1>2, <2>1 DEF OwnedBy
  <1>8. rib' \subseteq Entries
    BY <1>0, <1>6
  <1> QED
    BY <1>2, <1>3, <1>4, <1>5, <1>7, <1>8 DEF Table

\* Closing connections leaves no more of an address than there were.
LEMMA CloseLeavesOne ==
  ASSUME NEW p, NEW r, NEW w, NEW S, S \subseteq Slots, p \in [Slots -> PeerRec],
         OneEach(p), Close(p, r, w, S)
  PROVE  OneEach(peers')
PROOF
  <1>1. peers' = [s \in Slots |-> IF s \in S THEN EmptyPeer ELSE p[s]]
    BY DEF Close
  <1>2. \A s \in S : peers'[s].fd = 0
    BY <1>1, EmptyPeerType
  <1>3. \A s \in Slots \ S : peers'[s] = p[s]
    BY <1>1
  <1> QED
    BY <1>2, <1>3 DEF OneEach

-----------------------------------------------------------------------------
(***************************************************************************)
(* bgp_parse_msg(), a message at a time.                                   *)
(***************************************************************************)
Start(s) == [status |-> peers[s].status, ht |-> peers[s].ht, rib |-> rib, ret |-> "0",
             last_keepalive |-> KeepaliveSent(peers[s])]

After(s, f, k) == IF k = 0 THEN Start(s) ELSE ParseMsg(s, f[k - 1], inbound[s][k])

IsParse(s, f, n) == f = [k \in 0 .. n |-> After(s, f, k)]

\* what parsing may have made of the session in slot s and of the RIB
Result(s, y) ==
  /\ y \in [status : {0, Idle, Active, Established}, ht : {0, HoldTime},
            rib : SUBSET Entries, last_keepalive : Nat,
            ret : {"0", "ERR", "LOOP", "HEADER_ERR", "OPEN_ERR", "FSM_ERR", "UPDATE_ERR"}]
  /\ \A e \in y.rib :
       IF e.peer # s THEN e \in rib
       ELSE /\ y.status = Established /\ e.session = peers[s].session
            /\ e.bucket = Modulo(peers[s].fd, e.path)

\* Parsing a buffer is parsing its messages one after the other.
LEMMA ParseExists ==
  ASSUME NEW s, NEW n \in Nat
  PROVE  \E f : IsParse(s, f, n)
PROOF
  <1> DEFINE N == {m \in Nat : \E f : IsParse(s, f, m)}
  <1>1. 0 \in N
    <2> DEFINE f == [k \in 0 .. 0 |-> Start(s)]
    <2>1. IsParse(s, f, 0)
      BY DEF IsParse, After
    <2> HIDE DEF f
    <2> QED
      BY <2>1
  <1>2. ASSUME NEW m \in Nat, m \in N PROVE m + 1 \in N
    <2>1. PICK f : IsParse(s, f, m)
      BY <1>2
    <2> DEFINE g == [k \in 0 .. m + 1 |-> After(s, f, k)]
    <2>2. \A k \in 0 .. m : k \in 0 .. m + 1 /\ g[k] = f[k]
      <3> SUFFICES ASSUME NEW k \in 0 .. m PROVE k \in 0 .. m + 1 /\ g[k] = f[k]
        OBVIOUS
      <3>1. k \in 0 .. m + 1
        OBVIOUS
      <3>2. f[k] = After(s, f, k)
        BY <2>1 DEF IsParse
      <3> QED
        BY <3>1, <3>2
    <2>3. \A k \in 0 .. m + 1 : After(s, g, k) = After(s, f, k)
      <3> SUFFICES ASSUME NEW k \in 0 .. m + 1 PROVE After(s, g, k) = After(s, f, k)
        OBVIOUS
      <3>1. CASE k = 0
        BY <3>1 DEF After
      <3>2. CASE k # 0
        <4>1. k - 1 \in 0 .. m
          BY <3>2
        <4> HIDE DEF g
        <4>2. g[k - 1] = f[k - 1]
          BY <2>2, <4>1
        <4> QED
          BY <3>2, <4>2 DEF After
      <3> QED
        BY <3>1, <3>2
    <2>4. IsParse(s, g, m + 1)
      BY <2>3 DEF IsParse
    <2> HIDE DEF g
    <2> QED
      BY <2>4
  <1> HIDE DEF N
  <1>3. Nat \subseteq N
    BY <1>1, <1>2, NatSetInduction
  <1> QED
    BY <1>3 DEF N

\* One message keeps what is known of the result: routes are only of
\* established sessions and in the buckets of the peer's descriptor.
LEMMA ParseMsgResult ==
  ASSUME TypeOK, NEW s \in Slots, NEW m \in Msgs, NEW y, Result(s, y)
  PROVE  Result(s, ParseMsg(s, y, m))
PROOF
  <1> DEFINE z == ParseMsg(s, y, m)
  <1>1. m.type \in MsgTypes /\ m.path \in Nat
    BY BgpAssumption DEF Msgs
  <1>2. /\ y.status \in {0, Idle, Active, Established}
        /\ y.rib \subseteq Entries /\ now \in Nat
    <2>1. now \in Nat
      BY DEF TypeOK
    <2> QED
      BY <2>1 DEF Result
  <1>3. y.status = Established <=> y.status >= OpenSent
    BY <1>2 DEF Idle, Active, OpenSent, Established
  <1>4. y.status = Established <=> ~(y.status < Established)
    BY <1>2 DEF Idle, Active, Established
  <1>5. y.status = Established <=> ~(y.status < OpenSent)
    BY <1>2 DEF Idle, Active, OpenSent, Established
  <1>6. CASE y.ret # "0"
    BY <1>6 DEF ParseMsg
  <1>7. CASE y.ret = "0" /\ m.type = "BADHDR"
    <2>1. z = [y EXCEPT !.ret = "HEADER_ERR"]
      BY <1>7 DEF ParseMsg
    <2> QED
      BY <2>1 DEF Result
  <1>8. CASE y.ret = "0" /\ m.type = "NOTIFICATION"
    <2>1. z = [y EXCEPT !.ret = "ERR"]
      BY <1>8 DEF ParseMsg
    <2> QED
      BY <2>1 DEF Result
  <1>9. CASE y.ret = "0" /\ m.type \in {"OPEN", "BADOPEN"}
    <2>1. z = OpenMsg(y, m)
      BY <1>9 DEF ParseMsg
    <2>2. CASE y.status >= OpenSent
      <3>1. z = [y EXCEPT !.ret = "OPEN_ERR"]
        BY <2>1, <2>2 DEF OpenMsg
      <3> QED
        BY <3>1 DEF Result
    <2>3. CASE ~(y.status >= OpenSent) /\ m.type = "BADOPEN"
      <3>1. z = [y EXCEPT !.status = Active, !.ret = "OPEN_ERR"]
        BY <2>1, <2>3 DEF OpenMsg
      <3> QED
        BY <1>3, <2>3, <3>1 DEF Result
    <2>4. CASE ~(y.status >= OpenSent) /\ m.type # "BADOPEN"
      <3>1. z = [y EXCEPT !.status = Established, !.ht = HoldTime, !.last_keepalive = now]
        BY <2>1, <2>4 DEF OpenMsg
      <3> QED
        BY <1>2, <1>3, <2>4, <3>1 DEF Result
    <2> QED
      BY <2>2, <2>3, <2>4
  <1>10. CASE y.ret = "0" /\ m.type = "KEEPALIVE"
    <2>1. z = KeepaliveMsg(y)
      BY <1>10 DEF ParseMsg
    <2>2. CASE y.status < OpenSent
      BY <2>1, <2>2 DEF KeepaliveMsg
    <2>3. CASE ~(y.status < OpenSent)
      <3>1. z = [y EXCEPT !.status = Established, !.last_keepalive = now]
        BY <2>1, <2>3 DEF KeepaliveMsg
      <3> QED
        BY <1>2, <3>1 DEF Result
    <2> QED
      BY <2>2, <2>3
  <1>11. CASE y.ret = "0" /\ m.type \in {"ANNOUNCE", "WITHDRAW", "BADUPDATE"}
    <2>1. z = UpdateMsg(s, y, m)
      BY <1>11 DEF ParseMsg
    <2>2. CASE y.status < Established
      <3>1. z = [y EXCEPT !.ret = "FSM_ERR"]
        BY <2>1, <2>2 DEF UpdateMsg
      <3> QED
        BY <3>1 DEF Result
    <2>3. CASE ~(y.status < Established) /\ m.type = "BADUPDATE"
      <3>1. z = [y EXCEPT !.ret = "UPDATE_ERR"]
        BY <2>1, <2>3 DEF UpdateMsg
      <3> QED
        BY <3>1 DEF Result
    <2>4. CASE ~(y.status < Established) /\ m.type = "ANNOUNCE"
      <3> DEFINE e == [peer |-> s, prefix |-> m.prefix, path |-> m.path,
                       bucket |-> Modulo(peers[s].fd, m.path), session |-> peers[s].session]
      <3>1. z = [y EXCEPT !.rib = ProcessUpdate(y.rib, s, m)]
        BY <2>1, <2>4 DEF UpdateMsg
      <3>2. e \in Entries
        <4>1. Modulo(peers[s].fd, m.path) \in 0 .. (PeerBuckets * PerPeer) - 1
          <5>1. peers[s].fd \in {0} \cup Fds /\ Fds \subseteq Nat
            BY BgpAssumption DEF TypeOK
          <5>2. \A x \in {0} \cup Fds : x \in Nat
            BY <5>1
          <5> QED
            BY <1>1, <5>1, <5>2, PeerBucketRange
        <4>2. peers[s].session \in Nat
          BY DEF TypeOK
        <4>3. m.prefix \in {k.prefix : k \in Msgs} /\ m.path \in {k.path : k \in Msgs}
          OBVIOUS
        <4> QED
          BY <4>1, <4>2, <4>3 DEF Entries
      <3>3. ProcessUpdate(y.rib, s, m) \subseteq y.rib \cup {e}
        BY DEF ProcessUpdate
      <3>4. /\ e.peer = s /\ e.session = peers[s].session
            /\ e.bucket = Modulo(peers[s].fd, e.path)
        OBVIOUS
      <3> HIDE DEF e
      <3>5. z.rib \subseteq y.rib \cup {e} /\ z.status = Established
        BY <1>4, <2>4, <3>1, <3>3 DEF Result
      <3>6. z.rib \subseteq Entries
        BY <1>2, <3>2, <3>5
      <3>7. z \in [status : {0, Idle, Active, Established}, ht : {0, HoldTime},
                   rib : SUBSET Entries, last_keepalive : Nat,
                   ret : {"0", "ERR", "LOOP", "HEADER_ERR", "OPEN_ERR", "FSM_ERR", "UPDATE_ERR"}]
        BY <3>1, <3>6 DEF Result
      <3> HIDE DEF z
      <3>8. y.status = Established
        BY <1>4, <2>4
      <3>9. \A x \in z.rib :
              IF x.peer # s THEN x \in rib
              ELSE /\ z.status = Established /\ x.session = peers[s].session
                   /\ x.bucket = Modulo(peers[s].fd, x.path)
        <4> SUFFICES ASSUME NEW x \in z.rib
                     PROVE  IF x.peer # s THEN x \in rib
                            ELSE /\ z.status = Established /\ x.session = peers[s].session
                                 /\ x.bucket = Modulo(peers[s].fd, x.path)
          OBVIOUS
        <4>1. CASE x \in y.rib
          BY <3>5, <3>8, <4>1 DEF Result
        <4>2. CASE x = e
          BY <3>4, <3>5, <4>2
        <4> QED
          BY <3>5, <4>1, <4>2
      <3>10. Result(s, z)
        BY <3>7, <3>9 DEF Result
      <3> QED
        BY <3>10 DEF z
    <2>5. CASE ~(y.status < Established) /\ m.type = "WITHDRAW"
      <3>1. z = [y EXCEPT !.rib = ProcessWithdraw(y.rib, s, m)]
        BY <2>1, <2>5 DEF UpdateMsg
      <3>2. ProcessWithdraw(y.rib, s, m) \subseteq y.rib
        BY DEF ProcessWithdraw
      <3> QED
        BY <1>2, <3>1, <3>2 DEF Result
    <2> QED
      BY <1>11, <2>2, <2>3, <2>4, <2>5
  <1>12. CASE y.ret = "0" /\ m.type = "NOLENGTH"
    <2>1. z = [KeepaliveMsg(y) EXCEPT !.ret = "LOOP"]
      BY <1>12 DEF ParseMsg
    <2>2. CASE y.status < OpenSent
      <3>1. z = [y EXCEPT !.ret = "LOOP"]
        BY <2>1, <2>2 DEF KeepaliveMsg
      <3> QED
        BY <3>1 DEF Result
    <2>3. CASE ~(y.status < OpenSent)
      <3>1. z = [y EXCEPT !.status = Established, !.last_keepalive = now, !.ret = "LOOP"]
        BY <2>1, <2>3 DEF KeepaliveMsg
      <3> QED
        BY <1>2, <3>1 DEF Result
    <2> QED
      BY <2>2, <2>3
  <1> QED
    BY <1>1, <1>2, <1>6, <1>7, <1>8, <1>9, <1>10, <1>11, <1>12 DEF MsgTypes

\* What bgp_parse_msg() makes of a read: the entries of other peers are as they
\* were, those of this one are of its session.
LEMMA ParseResult ==
  ASSUME TypeOK, Table(peers, rib, bkp), NEW s \in Slots, NEW cut \in Cuts,
         NEW n \in 0 .. Len(inbound[s])
  PROVE  Result(s, Parse(s, n, cut))
PROOF
  <1> DEFINE f == CHOOSE g : IsParse(s, g, n)
  <1>1. Parse(s, n, cut) = IF n = 0 /\ cut = "header"
                           THEN [Start(s) EXCEPT !.ret = "HEADER_ERR"] ELSE f[n]
    BY DEF Parse, Start, After, IsParse
  <1>2. /\ inbound[s] \in Seq(Msgs) /\ Len(inbound[s]) \in Nat /\ n \in Nat
        /\ \A k \in 1 .. n : inbound[s][k] \in Msgs
    <2>1. inbound[s] \in Seq(Msgs)
      BY DEF TypeOK
    <2>2. Len(inbound[s]) \in Nat /\ inbound[s] \in [1 .. Len(inbound[s]) -> Msgs]
      BY <2>1, LenProperties
    <2> QED
      BY <2>1, <2>2
  <1>3. IsParse(s, f, n)
    BY <1>2, ParseExists
  <1> HIDE DEF f
  <1>4. Result(s, Start(s))
    <2>1. /\ peers[s] \in PeerRec /\ now \in Nat
          /\ rib \subseteq Entries /\ \A e \in rib : OwnedBy(e, peers)
      BY DEF Table, TypeOK
    <2>2. /\ peers[s].status \in {0, Idle, Active, Established}
          /\ peers[s].ht \in {0, HoldTime} /\ peers[s].last_keepalive \in Nat
      BY <2>1 DEF PeerRec
    <2>3. KeepaliveSent(peers[s]) \in Nat
      BY <2>1, <2>2 DEF KeepaliveSent
    <2> QED
      BY <2>1, <2>2, <2>3 DEF Start, Result, OwnedBy
  <1>5. \A k \in 0 .. n : f[k] = After(s, f, k)
    BY <1>3 DEF IsParse
  <1>6. \A k \in Nat : k <= n => Result(s, f[k])
    <2> DEFINE N == {k \in Nat : k <= n => Result(s, f[k])}
    <2>1. 0 \in N
      BY <1>2, <1>4, <1>5 DEF After
    <2>2. ASSUME NEW k \in Nat, k \in N PROVE k + 1 \in N
      <3> SUFFICES ASSUME k + 1 <= n PROVE Result(s, f[k + 1])
        OBVIOUS
      <3>1. Result(s, f[k])
        BY <1>2, <2>2
      <3>2. k + 1 \in 1 .. n /\ k + 1 \in 0 .. n /\ (k + 1) - 1 = k /\ k + 1 # 0
        BY <1>2
      <3>3. f[k + 1] = ParseMsg(s, f[k], inbound[s][k + 1])
        BY <1>5, <3>2 DEF After
      <3>4. inbound[s][k + 1] \in Msgs
        BY <1>2, <3>2
      <3> QED
        BY <3>1, <3>3, <3>4, ParseMsgResult
    <2> HIDE DEF N
    <2>3. Nat \subseteq N
      BY <2>1, <2>2, NatSetInduction
    <2> QED
      BY <2>3 DEF N
  <1>7. Result(s, f[n])
    BY <1>2, <1>6
  <1>8. Result(s, [Start(s) EXCEPT !.ret = "HEADER_ERR"])
    BY <1>4 DEF Start, Result
  <1> QED
    BY <1>1, <1>7, <1>8

\* the peers table with what parsing found for slot s
Heard(s, y) == [peers EXCEPT ![s] = [@ EXCEPT !.status = y.status, !.ht = y.ht,
                                              !.last_keepalive = y.last_keepalive]]

\* With that the table, the RIB after parsing and the descriptors agree.
LEMMA HeardTable ==
  ASSUME TypeOK, Table(peers, rib, bkp), NEW s \in Slots, Open(s), NEW y, Result(s, y)
  PROVE  Table(Heard(s, y), y.rib, bkp)
PROOF
  <1> DEFINE p == Heard(s, y)
  <1>1. /\ peers \in [Slots -> PeerRec] /\ peers[s] \in PeerRec
        /\ rib \subseteq Entries /\ \A e \in rib : OwnedBy(e, peers)
    BY DEF Table
  <1>2. /\ y.status \in {0, Idle, Active, Established} /\ y.ht \in {0, HoldTime}
        /\ y.last_keepalive \in Nat /\ y.rib \subseteq Entries
    BY DEF Result
  <1>3. /\ p[s] = [peers[s] EXCEPT !.status = y.status, !.ht = y.ht,
                                   !.last_keepalive = y.last_keepalive]
        /\ \A t \in Slots \ {s} : p[t] = peers[t]
        /\ DOMAIN p = Slots
    BY <1>1 DEF Heard
  <1>4. p[s] \in PeerRec /\ p[s].fd = peers[s].fd /\ p[s].session = peers[s].session
        /\ p[s].status = y.status
    BY <1>1, <1>2, <1>3 DEF PeerRec
  <1>5. \A t \in Slots : p[t].fd = peers[t].fd /\ p[t].session = peers[t].session
    BY <1>3, <1>4
  <1>6. p \in [Slots -> PeerRec]
    <2>1. p = [peers EXCEPT ![s] = p[s]]
      BY <1>1, <1>3 DEF Heard
    <2> QED
      BY <1>1, <1>4, <2>1
  <1> HIDE DEF p
  <1>7. \A t \in Slots : p[t].fd = 0 => p[t] = EmptyPeer
    BY <1>3, <1>5 DEF Table, Open
  <1>8. \A t, u \in Slots : p[t].fd = p[u].fd /\ p[t].fd # 0 => t = u
    BY <1>5 DEF Table
  <1>9. bkp = {0} \cup {p[t].fd : t \in {u \in Slots : p[u].fd # 0}}
    <2>1. {p[t].fd : t \in {u \in Slots : p[u].fd # 0}}
            = {peers[t].fd : t \in {u \in Slots : peers[u].fd # 0}}
      BY <1>5
    <2> QED
      BY <2>1 DEF Table
  <1>10. ASSUME NEW e \in y.rib PROVE OwnedBy(e, p)
    <2>1. e.peer \in Slots
      BY <1>2, EntryType
    <2>2. CASE e.peer = s
      BY <1>4, <2>2 DEF Result, OwnedBy, Open
    <2>3. CASE e.peer # s
      <3>1. e \in rib
        BY <2>3 DEF Result
      <3>2. p[e.peer] = peers[e.peer]
        BY <1>3, <2>1, <2>3
      <3> QED
        BY <1>1, <3>1, <3>2 DEF OwnedBy
    <2> QED
      BY <2>2, <2>3
  <1> QED
    BY <1>2, <1>6, <1>7, <1>8, <1>9, <1>10 DEF p, Table

-----------------------------------------------------------------------------
(***************************************************************************)
(* The inductive invariant.                                                *)
(***************************************************************************)
\* the state beside the table
Counters ==
  /\ pc \in {"select", "accept", "read", "stuck"}
  /\ ready \subseteq {0} \cup Fds
  /\ select_fd \in Nat /\ max_idx \in 0 .. MaxPeers /\ rr \in Slots
  /\ recalc \in BOOLEAN /\ now \in Nat
  /\ batch \in [num_current : 0 .. Batch, base_stamp : Nat]
  /\ clock \in Nat /\ backlog \in Seq(Addrs)
  /\ conns \in 0 .. MaxConns /\ sends \in 0 .. MaxSends
  /\ waited \in [Slots -> Nat]

Streams == inbound \in [Slots -> Seq(Msgs)] /\ eof \in [Slots -> BOOLEAN]

\* the caches of the table, unless they are due
Covered ==
  ~recalc => \A s \in Slots : Open(s) => s < max_idx /\ peers[s].fd < select_fd

\* who got a slot since the batch began got a place of the batch for it
Batches ==
  /\ admits \in Seq(Nat) /\ batch.base_stamp <= clock
  /\ Batch > 0 =>
       /\ Len(admits) + batch.num_current <= Batch
       /\ \A i \in 1 .. Len(admits) :
            admits[i] \in batch.base_stamp .. batch.base_stamp + Interval

\* in a round: what select() found is of the searched part of the table
InRound ==
  /\ pc # "select" => /\ now = clock
                      /\ \A s \in Slots : Open(s) /\ peers[s].fd \in ready => s < max_idx
  /\ pc = "accept" => backlog # << >> /\ ready \subseteq bkp

\* a slot at distance k of the search's start saw max_idx - 1 - k reads at most
Waiting ==
  \A s \in Slots : waited[s] > 0 =>
    /\ s < max_idx
    /\ \E k \in 0 .. max_idx - 1 :
         (k + rr) % max_idx = s /\ waited[s] + k <= max_idx - 1

PeersInv ==
  /\ Counters /\ Streams /\ Table(peers, rib, bkp) /\ OneEach(peers)
  /\ Covered /\ Batches /\ InRound /\ Waiting

\* The invariant holds the types.
LEMMA InvTypes == PeersInv => TypeOK
PROOF
  <1> SUFFICES ASSUME PeersInv PROVE TypeOK
    OBVIOUS
  <1>1. peers \in [Slots -> PeerRec] /\ rib \subseteq Entries
    BY DEF PeersInv, Table
  <1>2. bkp \subseteq {0} \cup Fds
    <2>1. \A s \in Slots : peers[s].fd \in {0} \cup Fds
      BY <1>1 DEF PeerRec
    <2> QED
      BY <2>1 DEF PeersInv, Table
  <1>3. ready \subseteq bkp \cup Fds
    <2>1. 0 \in bkp
      BY DEF PeersInv, Table
    <2> QED
      BY <2>1 DEF PeersInv, Counters
  <1> QED
    BY <1>1, <1>2, <1>3 DEF PeersInv, Counters, Streams, PeerRec, TypeOK

\* The constants.
LEMMA Constants ==
  /\ MaxPeers \in Nat \ {0} /\ HoldTime \in Nat \ {0} /\ Allowed \subseteq Addrs
  /\ NoAddr \notin Addrs /\ Fds \subseteq Nat \ {0} /\ Batch \in Nat /\ Interval \in Nat
  /\ MaxConns \in Nat /\ MaxSends \in Nat /\ Step \in Nat /\ Slots \subseteq Nat
  /\ 0 \in Slots /\ (Batch = 0 <=> Interval = 0)
PROOF
  <1>1. MaxPeers \in Nat \ {0}
    BY BgpAssumption
  <1>2. Slots \subseteq Nat /\ 0 \in Slots
    BY <1>1 DEF Slots
  <1> QED
    BY <1>2, BgpAssumption

\* Routers write messages.
LEMMA BurstType == \A b \in Bursts : b \in Seq(Msgs)
PROOF
  <1> SUFFICES ASSUME NEW b \in Bursts PROVE b \in Seq(Msgs)
    OBVIOUS
  <1>1. b \in Seq(Range(b)) /\ Range(b) \subseteq Msgs
    BY BgpAssumption DEF Msgs
  <1>2. Len(b) \in Nat /\ b \in [1 .. Len(b) -> Range(b)]
    BY <1>1, LenProperties
  <1>3. b = [i \in 1 .. Len(b) |-> b[i]] /\ \A i \in 1 .. Len(b) : b[i] \in Msgs
    BY <1>1, <1>2
  <1> QED
    BY <1>2, <1>3, IsASeq

\* The thread starts with an empty table.
LEMMA InitInv == Init => PeersInv
PROOF
  <1> SUFFICES ASSUME Init PROVE PeersInv
    OBVIOUS
  <1> USE DEF Init
  <1>1. Counters
    <2>1. batch \in [num_current : 0 .. Batch, base_stamp : Nat]
      BY Constants
    <2>2. << >> \in Seq(Addrs)
      OBVIOUS
    <2>3. clock \in Nat /\ 0 \in 0 .. MaxPeers /\ 0 \in 0 .. MaxConns /\ 0 \in 0 .. MaxSends
      BY Constants
    <2>4. waited \in [Slots -> Nat]
      OBVIOUS
    <2> QED
      BY <2>1, <2>2, <2>3, <2>4, Constants DEF Counters
  <1>2. Streams
    BY DEF Streams
  <1>3. \A s \in Slots : peers[s] = EmptyPeer
    OBVIOUS
  <1>4. Table(peers, rib, bkp) /\ OneEach(peers)
    BY <1>3, EmptyPeerType DEF Table, OneEach
  <1>5. Covered /\ InRound /\ Waiting
    BY <1>3, EmptyPeerType DEF Covered, InRound, Waiting, Open
  <1>6. Batches
    <2>1. admits \in Seq(Nat) /\ Len(admits) = 0
      OBVIOUS
    <2> QED
      BY <2>1, Constants DEF Batches
  <1> QED
    BY <1>1, <1>2, <1>4, <1>5, <1>6 DEF PeersInv

\* What routers do changes their streams and the backlog only.
LEMMA EnvInv ==
  ASSUME PeersInv,
         \/ \E a \in Addrs : Connect(a)
         \/ \E s \in Slots, b \in Bursts : Send(s, b)
         \/ \E s \in Slots : Disconnect(s)
         \/ Tick
  PROVE  PeersInv'
PROOF
  <1>1. /\ UNCHANGED <<pc, peers, bkp, ready, select_fd, max_idx, rr, recalc, now, batch, rib>>
        /\ UNCHANGED <<admits, waited>> /\ pc = "select"
    BY DEF Connect, Send, Disconnect, Tick, daemonVars
  <1>2. clock' \in Nat /\ clock <= clock' /\ clock \in Nat
    <2>1. clock \in Nat
      BY DEF PeersInv, Counters
    <2>2. CASE Tick
      BY <2>1, <2>2, Constants DEF Tick
    <2>3. CASE clock' = clock
      BY <2>1, <2>3
    <2> QED
      BY <2>2, <2>3 DEF Connect, Send, Disconnect
  <1>3. backlog' \in Seq(Addrs)
    <2>1. backlog \in Seq(Addrs)
      BY DEF PeersInv, Counters
    <2>2. ASSUME NEW a \in Addrs, Connect(a) PROVE backlog' \in Seq(Addrs)
      BY <2>1, <2>2 DEF Connect
    <2> QED
      BY <2>1, <2>2 DEF Send, Disconnect, Tick
  <1>4. conns' \in 0 .. MaxConns /\ sends' \in 0 .. MaxSends
    <2>1. conns \in 0 .. MaxConns /\ sends \in 0 .. MaxSends
      BY DEF PeersInv, Counters
    <2>2. MaxConns \in Nat /\ MaxSends \in Nat
      BY Constants
    <2>3. CASE \E a \in Addrs : Connect(a)
      BY <2>1, <2>2, <2>3 DEF Connect
    <2>4. CASE \E s \in Slots, b \in Bursts : Send(s, b)
      BY <2>1, <2>2, <2>4 DEF Send
    <2>5. CASE \E s \in Slots : Disconnect(s)
      BY <2>1, <2>5 DEF Disconnect
    <2>6. CASE Tick
      BY <2>1, <2>6 DEF Tick
    <2> QED
      BY <2>3, <2>4, <2>5, <2>6
  <1>5. Streams'
    <2>1. inbound \in [Slots -> Seq(Msgs)] /\ eof \in [Slots -> BOOLEAN]
      BY DEF PeersInv, Streams
    <2>2. ASSUME NEW s \in Slots, NEW b \in Bursts, Send(s, b) PROVE Streams'
      <3>1. inbound[s] \o b \in Seq(Msgs)
        BY <2>1, BurstType
      <3> QED
        BY <2>1, <2>2, <3>1 DEF Send, Streams
    <2>3. ASSUME NEW s \in Slots, Disconnect(s) PROVE Streams'
      BY <2>1, <2>3 DEF Disconnect, Streams
    <2>4. ASSUME UNCHANGED <<inbound, eof>> PROVE Streams'
      BY <2>1, <2>4 DEF Streams
    <2> QED
      BY <2>2, <2>3, <2>4 DEF Connect, Tick
  <1>6. Counters'
    BY <1>1, <1>2, <1>3, <1>4 DEF PeersInv, Counters
  <1>7. Table(peers', rib', bkp') /\ OneEach(peers')
    BY <1>1 DEF PeersInv
  <1>8. Covered' /\ InRound' /\ Waiting'
    BY <1>1 DEF PeersInv, Covered, InRound, Waiting, Open
  <1>9. Batches'
    BY <1>1, <1>2 DEF PeersInv, Batches, Counters
  <1> QED
    BY <1>5, <1>6, <1>7, <1>8, <1>9 DEF PeersInv

\* What the table says of a slot.
LEMMA TableSlots ==
  ASSUME Table(peers, rib, bkp)
  PROVE  /\ \A s \in Slots : peers[s].fd \in Nat /\ (Open(s) => peers[s].fd \in Fds)
         /\ \A s \in Slots : ~Open(s) => peers[s].addr = NoAddr
         /\ \A s \in Slots : peers[s] \in PeerRec
         /\ bkp = {0} \cup {peers[s].fd : s \in Used} /\ 0 \in bkp
PROOF
  <1>1. peers \in [Slots -> PeerRec]
    BY DEF Table
  <1>2. \A s \in Slots : peers[s] \in PeerRec /\ peers[s].fd \in {0} \cup Fds
    BY <1>1 DEF PeerRec
  <1>3. \A x \in {0} \cup Fds : x \in Nat
    BY Constants
  <1>4. bkp = {0} \cup {peers[s].fd : s \in Used}
    BY DEF Table, Used, Open
  <1>5. \A s \in Slots : ~Open(s) => peers[s].addr = NoAddr
    BY DEF Table, Open, EmptyPeer
  <1>6. \A s \in Slots : Open(s) => peers[s].fd \in Fds
    BY <1>2 DEF Open
  <1>7. \A s \in Slots : peers[s].fd \in Nat
    BY <1>2, <1>3
  <1> QED
    BY <1>2, <1>4, <1>5, <1>6, <1>7

\* max_peers_idx and select_fd, recomputed.
LEMMA Recalculated ==
  ASSUME Table(peers, rib, bkp)
  PROVE  /\ MaxIdx \in 0 .. MaxPeers /\ SelectFd \in Nat
         /\ \A s \in Slots : Open(s) => s < MaxIdx /\ peers[s].fd < SelectFd
PROOF
  <1>1. Used \subseteq Slots /\ Slots \subseteq Nat /\ IsFiniteSet(Slots)
    BY Constants, FS_Interval DEF Used, Slots
  <1>2. IsFiniteSet(Used) /\ Used \subseteq Nat
    BY <1>1, FS_Subset
  <1>3. MaxIdx \in 0 .. MaxPeers /\ \A s \in Used : s < MaxIdx
    <2>1. CASE Used = {}
      BY <2>1, Constants DEF MaxIdx
    <2>2. CASE Used # {}
      <3>1. Max(Used) \in Used /\ \A s \in Used : s <= Max(Used)
        BY <1>2, <2>2, MaxOf
      <3>2. MaxIdx = Max(Used) + 1
        BY <2>2 DEF MaxIdx
      <3>3. Max(Used) \in 0 .. MaxPeers - 1
        BY <1>1, <3>1 DEF Slots
      <3> QED
        BY <1>2, <3>1, <3>2, <3>3, Constants
    <2> QED
      BY <2>1, <2>2
  <1> DEFINE F == {peers[s].fd : s \in Slots}
  <1>4. IsFiniteSet(F)
    <2> DEFINE fd == [s \in Slots |-> peers[s].fd]
    <2>1. fd \in Surjection(Slots, F)
      BY DEF Surjection
    <2> HIDE DEF fd, F
    <2> QED
      BY <1>1, <2>1, FS_Surjection
  <1>5. F \subseteq Nat
    BY TableSlots
  <1>6. IsFiniteSet({0} \cup F)
    <2>1. {0} \cup F = F \cup {0}
      OBVIOUS
    <2> HIDE DEF F
    <2> QED
      BY <1>4, <2>1, FS_AddElement
  <1>7. \A s \in Slots : peers[s].fd \in F
    OBVIOUS
  <1>8. SelectFd = Max({0} \cup F) + 1
    BY DEF SelectFd
  <1> HIDE DEF F
  <1>9. {0} \cup F \subseteq Nat /\ {0} \cup F # {}
    BY <1>5
  <1>10. Max({0} \cup F) \in {0} \cup F /\ \A n \in {0} \cup F : n <= Max({0} \cup F)
    BY <1>6, <1>9, MaxOf
  <1>11. SelectFd \in Nat /\ \A s \in Slots : peers[s].fd < SelectFd
    <2>1. Max({0} \cup F) \in Nat
      BY <1>9, <1>10
    <2>2. \A s \in Slots : peers[s].fd \in Nat /\ peers[s].fd <= Max({0} \cup F)
      BY <1>5, <1>7, <1>10
    <2>3. PICK m \in Nat : m = Max({0} \cup F)
      BY <2>1
    <2> QED
      BY <1>8, <2>2, <2>3
  <1> QED
    BY <1>3, <1>11 DEF Used

\* select(): what is found readable is of open slots in the searched part.
LEMMA SelectInv ==
  ASSUME PeersInv, Select
  PROVE  PeersInv'
PROOF
  <1> USE DEF Select
  <1>1. /\ Counters /\ Table(peers, rib, bkp) /\ Waiting /\ Batches /\ Covered
        /\ UNCHANGED <<peers, bkp, rr, batch, rib, clock, backlog, inbound, eof, conns, sends,
                       admits>>
    BY DEF PeersInv, envVars
  <1>2. /\ max_idx' \in 0 .. MaxPeers /\ select_fd' \in Nat /\ recalc' = FALSE
        /\ \A s \in Slots : Open(s) => s < max_idx' /\ peers[s].fd < select_fd'
    <2>1. CASE recalc
      BY <1>1, <2>1, Recalculated
    <2>2. CASE ~recalc
      BY <1>1, <2>2 DEF Covered, Counters
    <2> QED
      BY <2>1, <2>2
  <1>3. ready' \subseteq bkp
    OBVIOUS
  <1>4. ready' \subseteq {0} \cup Fds
    BY <1>1, <1>3, TableSlots DEF Used
  <1>5. pc' \in {"accept", "read"} /\ (pc' = "accept" => 0 \in ready')
    OBVIOUS
  <1>6. waited' \in [Slots -> Nat] /\ (waited' = waited \/ \A s \in Slots : waited'[s] = 0)
        /\ (max_idx' = max_idx => waited' = waited)
        /\ (max_idx' # max_idx => \A s \in Slots : waited'[s] = 0)
    <2>1. waited \in [Slots -> Nat]
      BY <1>1 DEF Counters
    <2> QED
      BY <2>1
  <1>7. now' = clock
    OBVIOUS
  <1>8. Counters'
    BY <1>1, <1>2, <1>4, <1>5, <1>6, <1>7 DEF Counters
  <1>9. Streams' /\ Table(peers', rib', bkp') /\ OneEach(peers')
    BY <1>1 DEF PeersInv, Streams
  <1>10. Covered'
    BY <1>1, <1>2 DEF Covered, Open
  <1>11. Batches'
    BY <1>1 DEF Batches
  <1>12. pc' = "accept" => backlog # << >>
    <2>1. ASSUME 0 \in ready', backlog = << >> PROVE FALSE
      <3>1. PICK s \in Slots : 0 = peers[s].fd /\ Readable(s)
        BY <2>1
      <3> QED
        BY <3>1 DEF Readable, Open
    <2> QED
      BY <1>5, <2>1
  <1>13. InRound'
    BY <1>1, <1>2, <1>3, <1>7, <1>12 DEF InRound, Open
  <1>14. Waiting'
    <2>1. CASE max_idx' = max_idx
      BY <1>1, <1>6, <2>1 DEF Waiting
    <2>2. CASE max_idx' # max_idx
      BY <1>6, <2>2 DEF Waiting
    <2> QED
      BY <2>1, <2>2
  <1> QED
    BY <1>8, <1>9, <1>10, <1>11, <1>13, <1>14 DEF PeersInv

\* A connection that gets no slot leaves the backlog and nothing else.
LEMMA RefuseInv ==
  ASSUME PeersInv, AcceptFails \/ Refuse
  PROVE  PeersInv'
PROOF
  <1>1. /\ pc = "accept" /\ backlog' = Tail(backlog) /\ pc' = "read"
        /\ UNCHANGED <<peers, bkp, ready, select_fd, max_idx, rr, recalc, now, batch,
                       rib, clock, inbound, eof, conns, sends, admits, waited>>
    BY DEF AcceptFails, Refuse
  <1>2. backlog' \in Seq(Addrs)
    <2>1. backlog \in Seq(Addrs) /\ backlog # << >>
      BY <1>1 DEF PeersInv, Counters, InRound
    <2> QED
      BY <1>1, <2>1
  <1>3. Counters'
    BY <1>1, <1>2 DEF PeersInv, Counters
  <1>4. Streams' /\ Table(peers', rib', bkp') /\ OneEach(peers')
    BY <1>1 DEF PeersInv, Streams
  <1>5. Covered' /\ Waiting'
    BY <1>1 DEF PeersInv, Covered, Waiting, Open
  <1>6. Batches'
    BY <1>1 DEF PeersInv, Batches
  <1>7. InRound'
    BY <1>1 DEF PeersInv, InRound, Open
  <1> QED
    BY <1>3, <1>4, <1>5, <1>6, <1>7 DEF PeersInv

\* The batch: a new peer takes a place of it, or of a new one.
LEMMA BatchInv ==
  ASSUME PeersInv, pc = "accept", BatchAdmitted, batch' = BatchTake, clock' = clock,
         admits' = Kept(Append(admits, now), batch'.base_stamp .. now)
  PROVE  Batches' /\ batch' \in [num_current : 0 .. Batch, base_stamp : Nat]
PROOF
  <1> DEFINE more == Append(admits, now)
             I == Positions(more, batch'.base_stamp .. now)
  <1>1. /\ batch \in [num_current : 0 .. Batch, base_stamp : Nat]
        /\ now \in Nat /\ now = clock /\ admits \in Seq(Nat) /\ batch.base_stamp <= clock
        /\ Batch \in Nat /\ Interval \in Nat
    BY Constants DEF PeersInv, Counters, Batches, InRound
  <1>2. /\ more \in Seq(Nat) /\ Len(more) = Len(admits) + 1 /\ Len(admits) \in Nat
        /\ \A i \in 1 .. Len(admits) : more[i] = admits[i]
    BY <1>1, AppendProperties, LenProperties
  <1>3. /\ I \subseteq 1 .. Len(more) /\ IsFiniteSet(I) /\ Cardinality(I) \in Nat
        /\ admits' \in Seq(Nat \cap (batch'.base_stamp .. now))
        /\ Len(admits') = Cardinality(I)
    BY <1>2, KeptPositions
  <1>4. I = {i \in 1 .. Len(more) : more[i] \in batch'.base_stamp .. now}
    <2>1. DOMAIN more = 1 .. Len(more)
      BY <1>2, LenProperties
    <2> QED
      BY <2>1 DEF Positions
  <1>5. /\ Len(admits') \in Nat
        /\ \A i \in 1 .. Len(admits') : admits'[i] \in Nat \cap (batch'.base_stamp .. now)
    <2>1. admits' \in [1 .. Len(admits') -> Nat \cap (batch'.base_stamp .. now)]
      BY <1>3, LenProperties
    <2> QED
      BY <1>3, <2>1
  <1>6. admits' \in Seq(Nat)
    <2>1. admits' = [i \in 1 .. Len(admits') |-> admits'[i]]
      <3>1. admits' \in [1 .. Len(admits') -> Nat \cap (batch'.base_stamp .. now)]
        BY <1>3, LenProperties
      <3> QED
        BY <3>1
    <2> QED
      BY <1>5, <2>1, IsASeq
  <1>7. CASE Batch = 0
    <2>1. batch' = batch
      BY <1>7 DEF BatchTake
    <2> QED
      BY <1>1, <1>6, <1>7, <2>1 DEF Batches
  <1>8. CASE Batch # 0 /\ BatchExpired
    <2>1. batch' = [num_current |-> Batch - 1, base_stamp |-> now]
      BY <1>1, <1>8 DEF BatchTake
    <2>2. batch' \in [num_current : 0 .. Batch, base_stamp : Nat]
      BY <1>1, <1>8, <2>1
    <2>3. \A i \in 1 .. Len(admits) : i \notin I
      <3> SUFFICES ASSUME NEW i \in 1 .. Len(admits) PROVE more[i] \notin now .. now
        <4>1. batch'.base_stamp = now
          BY <2>1
        <4> HIDE DEF I, more
        <4> QED
          BY <1>4, <4>1
      <3>1. admits[i] \in batch.base_stamp .. batch.base_stamp + Interval
        BY <1>1, <1>8 DEF PeersInv, Batches
      <3>2. now > batch.base_stamp + Interval
        BY <1>8 DEF BatchExpired
      <3> QED
        BY <1>1, <1>2, <3>1, <3>2
    <2>4. I \subseteq {Len(admits) + 1}
      BY <1>2, <1>3, <2>3
    <2>5. Cardinality(I) <= 1
      <3>1. IsFiniteSet({Len(admits) + 1}) /\ Cardinality({Len(admits) + 1}) = 1
        BY FS_Singleton
      <3> HIDE DEF I
      <3> QED
        BY <2>4, <3>1, FS_Subset
    <2>6. Len(admits') + batch'.num_current <= Batch
      BY <1>1, <1>3, <1>8, <2>1, <2>5
    <2>7. \A i \in 1 .. Len(admits') :
            admits'[i] \in batch'.base_stamp .. batch'.base_stamp + Interval
      <3>1. batch'.base_stamp = now
        BY <2>1
      <3>2. now .. now \subseteq now .. now + Interval
        BY <1>1
      <3> QED
        BY <1>5, <3>1, <3>2
    <2>8. batch'.base_stamp <= clock'
      BY <1>1, <2>1
    <2> QED
      BY <1>6, <2>2, <2>6, <2>7, <2>8 DEF Batches
  <1>9. CASE Batch # 0 /\ ~BatchExpired
    <2>1. batch.num_current # 0
      BY <1>9 DEF BatchAdmitted, BatchNotEmpty
    <2>2. batch' = [batch EXCEPT !.num_current = batch.num_current - 1]
      BY <1>1, <1>9, <2>1 DEF BatchTake
    <2>3. batch' \in [num_current : 0 .. Batch, base_stamp : Nat]
      <3>1. batch.num_current \in 0 .. Batch
        BY <1>1
      <3>2. batch.num_current - 1 \in 0 .. Batch
        BY <1>1, <2>1, <3>1
      <3> QED
        BY <1>1, <2>2, <3>2
    <2>4. batch'.base_stamp = batch.base_stamp /\ batch'.num_current = batch.num_current - 1
      BY <1>1, <2>2
    <2>5. Cardinality(I) <= Len(admits) + 1
      <3>1. IsFiniteSet(1 .. Len(more)) /\ Cardinality(1 .. Len(more)) = Len(more)
        BY <1>2, FS_Interval
      <3> HIDE DEF I
      <3> QED
        BY <1>2, <1>3, <3>1, FS_Subset
    <2>6. Len(admits) + batch.num_current <= Batch
      BY <1>1, <1>9 DEF PeersInv, Batches
    <2>7. Len(admits') + batch'.num_current <= Batch
      BY <1>1, <1>2, <1>3, <2>4, <2>5, <2>6
    <2>8. now <= batch.base_stamp + Interval
      BY <1>1, <1>9 DEF BatchExpired
    <2>9. \A i \in 1 .. Len(admits') :
            admits'[i] \in batch'.base_stamp .. batch'.base_stamp + Interval
      BY <1>1, <1>5, <2>4, <2>8
    <2>10. batch'.base_stamp <= clock'
      BY <1>1, <2>4
    <2> QED
      BY <1>6, <2>3, <2>7, <2>9, <2>10 DEF Batches
  <1> QED
    BY <1>7, <1>8, <1>9

\* The slot and the descriptor a new connection gets.
LEMMA NewSlot ==
  ASSUME PeersInv, FreeSlots # {}, LeftFds # {}
  PROVE  /\ Min(FreeSlots) \in Slots /\ ~Open(Min(FreeSlots))
         /\ NewFd \in Fds /\ NewFd # 0 /\ NewFd \in Nat
         /\ \A s \in Slots : peers[s].fd # NewFd
PROOF
  <1>1. FreeSlots \subseteq Nat
    BY Constants DEF FreeSlots
  <1>2. Min(FreeSlots) \in FreeSlots
    BY <1>1, MinOf
  <1>3. LeftFds \subseteq Nat \ {0}
    BY Constants DEF LeftFds
  <1>4. NewFd \in LeftFds
    BY <1>3, MinOf DEF NewFd
  <1> QED
    BY <1>2, <1>3, <1>4 DEF FreeSlots, LeftFds

\* the peers table with the new connection in slot idx
WithPeer(idx, a, fd) == [peers EXCEPT ![idx] = InitPeer(a, fd)]

\* bgp_peer_init() puts a new peer in a free slot of the table.
LEMMA NewPeerTable ==
  ASSUME PeersInv, NEW idx \in Slots, ~Open(idx), NEW fd \in Fds, fd # 0,
         \A s \in Slots : peers[s].fd # fd, NEW a \in Addrs
  PROVE  Table(WithPeer(idx, a, fd), rib, bkp \cup {fd})
PROOF
  <1> DEFINE p == WithPeer(idx, a, fd)
  <1>1. /\ peers \in [Slots -> PeerRec] /\ Table(peers, rib, bkp) /\ conns \in Nat
        /\ rib \subseteq Entries /\ \A e \in rib : OwnedBy(e, peers)
    <2>1. conns \in Nat
      BY Constants DEF PeersInv, Counters
    <2> QED
      BY <2>1 DEF PeersInv, Table
  <1>2. /\ InitPeer(a, fd) \in PeerRec /\ InitPeer(a, fd).fd = fd
    <2>1. InitPeer(a, fd) \in PeerRec
      BY <1>1, EmptyPeerType DEF InitPeer, PeerRec
    <2>2. InitPeer(a, fd).fd = fd
      BY EmptyPeerType DEF InitPeer, PeerRec
    <2> QED
      BY <2>1, <2>2
  <1>3. /\ p[idx] = InitPeer(a, fd) /\ \A s \in Slots \ {idx} : p[s] = peers[s]
        /\ p \in [Slots -> PeerRec]
    BY <1>1, <1>2 DEF WithPeer
  <1> HIDE DEF p
  <1>4. \A s \in Slots : p[s].fd = 0 => p[s] = EmptyPeer
    BY <1>1, <1>2, <1>3 DEF Table
  <1>5. \A s, t \in Slots : p[s].fd = p[t].fd /\ p[s].fd # 0 => s = t
    BY <1>1, <1>2, <1>3 DEF Table
  <1>6. bkp \cup {fd} = {0} \cup {p[s].fd : s \in {t \in Slots : p[t].fd # 0}}
    <2>1. {p[s].fd : s \in {t \in Slots : p[t].fd # 0}}
            = {peers[s].fd : s \in {t \in Slots : peers[t].fd # 0}} \cup {fd}
      <3>1. \A x \in {p[s].fd : s \in {t \in Slots : p[t].fd # 0}} :
              x \in {peers[s].fd : s \in {t \in Slots : peers[t].fd # 0}} \cup {fd}
        BY <1>2, <1>3
      <3>2. \A x \in {peers[s].fd : s \in {t \in Slots : peers[t].fd # 0}} :
              x \in {p[s].fd : s \in {t \in Slots : p[t].fd # 0}}
        BY <1>3 DEF Open
      <3>3. fd \in {p[s].fd : s \in {t \in Slots : p[t].fd # 0}}
        BY <1>2, <1>3
      <3> QED
        BY <3>1, <3>2, <3>3
    <2> QED
      BY <1>1, <2>1 DEF Table
  <1>7. \A e \in rib : OwnedBy(e, p)
    <2> SUFFICES ASSUME NEW e \in rib PROVE OwnedBy(e, p)
      OBVIOUS
    <2>1. OwnedBy(e, peers) /\ e.peer \in Slots
      BY <1>1, EntryType
    <2>2. e.peer # idx
      BY <2>1 DEF OwnedBy, Open
    <2> QED
      BY <1>3, <2>1, <2>2 DEF OwnedBy
  <1> QED
    BY <1>1, <1>3, <1>4, <1>5, <1>6, <1>7 DEF Table, p

\* The connections a new one displaces are open; the others and it are one each.
LEMMA DisplacedSlots ==
  ASSUME PeersInv, NEW idx \in Slots, ~Open(idx), NEW fd \in Fds, fd # 0, NEW a \in Addrs,
         NEW p, p = WithPeer(idx, a, fd)
  PROVE  /\ Displaced(a, idx) \subseteq Slots
         /\ \A s \in Displaced(a, idx) : p[s].fd # 0
         /\ \A s, t \in Slots \ Displaced(a, idx) :
              p[s].fd # 0 /\ p[t].fd # 0 /\ p[s].addr = p[t].addr => s = t
PROOF
  <1> DEFINE same  == {s \in Slots \ {idx} : peers[s].addr = a}
             alive == {s \in same : now - peers[s].last_keepalive <= peers[s].ht}
  <1>1. /\ Displaced(a, idx) \subseteq same \cup {idx}
        /\ Displaced(a, idx) = same \/ idx \in Displaced(a, idx)
    BY DEF Displaced
  <1>2. /\ peers \in [Slots -> PeerRec] /\ Table(peers, rib, bkp) /\ OneEach(peers)
    BY DEF PeersInv, Table
  <1>3. \A s \in same : Open(s)
    BY <1>2, Constants, TableSlots
  <1>4. /\ p[idx].fd = fd /\ p[idx].addr = a
        /\ \A s \in Slots \ {idx} : p[s] = peers[s]
    BY <1>2 DEF WithPeer, InitPeer, EmptyPeer
  <1> HIDE DEF alive
  <1>5. ASSUME NEW s \in Slots \ Displaced(a, idx), NEW t \in Slots \ Displaced(a, idx),
               p[s].fd # 0, p[t].fd # 0, p[s].addr = p[t].addr
        PROVE  s = t
    <2>1. CASE s # idx /\ t # idx
      BY <1>2, <1>4, <1>5, <2>1 DEF OneEach
    <2>2. ASSUME NEW u \in Slots \ Displaced(a, idx), u # idx, p[u].addr = a,
                 idx \notin Displaced(a, idx)
          PROVE  FALSE
      BY <1>1, <1>4, <2>2
    <2>3. CASE s = idx
      BY <1>4, <1>5, <2>2, <2>3
    <2>4. CASE t = idx
      BY <1>4, <1>5, <2>2, <2>4
    <2> QED
      BY <2>1, <2>3, <2>4
  <1>6. \A s \in Displaced(a, idx) : p[s].fd # 0
    BY <1>1, <1>3, <1>4 DEF Open
  <1> QED
    BY <1>1, <1>5, <1>6

\* A new connection and what it displaces.
LEMMA AcceptInv ==
  ASSUME PeersInv, Accept
  PROVE  PeersInv'
PROOF
  <1> DEFINE a   == Head(backlog)
             idx == Min(FreeSlots)
             p   == WithPeer(idx, a, NewFd)
             D   == Displaced(a, idx)
  <1>1. /\ pc = "accept" /\ LeftFds # {} /\ FreeSlots # {} /\ BatchAdmitted
        /\ a \in Allowed /\ Close(p, rib, bkp \cup {NewFd}, D)
        /\ recalc' = TRUE /\ batch' = BatchTake
        /\ admits' = Kept(Append(admits, now), batch'.base_stamp .. now)
        /\ waited' = [s \in Slots |-> IF peers'[s].fd = peers[s].fd THEN waited[s] ELSE 0]
        /\ backlog' = Tail(backlog) /\ pc' = "read"
        /\ UNCHANGED <<ready, select_fd, max_idx, rr, now, clock, conns, sends>>
    BY DEF Accept, WithPeer
  <1>2. /\ idx \in Slots /\ ~Open(idx) /\ NewFd \in Fds /\ NewFd # 0 /\ NewFd \in Nat
        /\ \A s \in Slots : peers[s].fd # NewFd
    BY <1>1, NewSlot
  <1>3. a \in Addrs
    BY <1>1, Constants
  <1>4. PICK q, S : q = p /\ S = D
    OBVIOUS
  <1> HIDE DEF a, idx, p, D
  <1>5. Table(q, rib, bkp \cup {NewFd})
    BY <1>2, <1>3, <1>4, NewPeerTable DEF p
  <1>6. /\ S \subseteq Slots /\ \A s \in S : q[s].fd # 0
        /\ \A s, t \in Slots \ S :
             q[s].fd # 0 /\ q[t].fd # 0 /\ q[s].addr = q[t].addr => s = t
    <2>1. q = WithPeer(idx, a, NewFd) /\ S = Displaced(a, idx)
      BY <1>4 DEF p, D
    <2>2. /\ Displaced(a, idx) \subseteq Slots
          /\ \A s \in Displaced(a, idx) : q[s].fd # 0
          /\ \A s, t \in Slots \ Displaced(a, idx) :
               q[s].fd # 0 /\ q[t].fd # 0 /\ q[s].addr = q[t].addr => s = t
      BY <1>2, <1>3, <2>1, DisplacedSlots
    <2> QED
      BY <2>1, <2>2
  <1>7. Close(q, rib, bkp \cup {NewFd}, S)
    BY <1>1, <1>4
  <1>8. Table(peers', rib', bkp')
    BY <1>5, <1>6, <1>7, CloseKeeps
  <1>9. /\ \A s \in S : peers'[s] = EmptyPeer
        /\ \A s \in Slots \ S : peers'[s] = q[s]
        /\ inbound' = [s \in Slots |-> IF s \in S THEN << >> ELSE inbound[s]]
        /\ eof' = [s \in Slots |-> s \notin S /\ eof[s]]
    BY <1>6, <1>7 DEF Close
  <1>10. OneEach(peers')
    BY <1>6, <1>9, EmptyPeerType DEF OneEach
  <1>11. Streams'
    BY <1>9 DEF PeersInv, Streams
  <1>12. /\ q[idx].fd = NewFd /\ \A s \in Slots \ {idx} : q[s] = peers[s]
    <2>1. peers \in [Slots -> PeerRec] /\ InitPeer(a, NewFd).fd = NewFd
      BY DEF PeersInv, Table, InitPeer, EmptyPeer
    <2> QED
      BY <1>2, <1>4, <2>1 DEF p, WithPeer
  <1>13. Batches' /\ batch' \in [num_current : 0 .. Batch, base_stamp : Nat]
    BY <1>1, BatchInv
  <1>14. backlog' \in Seq(Addrs)
    <2>1. backlog \in Seq(Addrs) /\ backlog # << >>
      BY <1>1 DEF PeersInv, Counters, InRound
    <2> QED
      BY <1>1, <2>1
  <1>15. waited' \in [Slots -> Nat] /\ \A s \in Slots : waited'[s] \in {0, waited[s]}
    BY <1>1 DEF PeersInv, Counters
  <1>16. Counters'
    BY <1>1, <1>13, <1>14, <1>15 DEF PeersInv, Counters
  <1>17. Covered'
    BY <1>1 DEF Covered
  <1>18. Waiting'
    BY <1>1, <1>15 DEF PeersInv, Waiting
  <1>19. InRound'
    <2>1. ASSUME NEW s \in Slots, peers'[s].fd # 0, peers'[s].fd \in ready PROVE s < max_idx
      <3>1. s \notin S /\ peers'[s] = q[s]
        BY <1>9, <2>1, EmptyPeerType
      <3>2. s # idx
        <4>1. NewFd \notin ready
          BY <1>1, <1>2, TableSlots DEF PeersInv, InRound, Used
        <4> QED
          BY <1>12, <2>1, <3>1, <4>1
      <3>3. Open(s) /\ peers[s].fd \in ready
        BY <1>12, <2>1, <3>1, <3>2 DEF Open
      <3> QED
        BY <1>1, <3>3 DEF PeersInv, InRound
    <2>2. now' = clock'
      BY <1>1 DEF PeersInv, InRound
    <2> QED
      BY <1>1, <2>1, <2>2 DEF InRound, Open
  <1> QED
    BY <1>8, <1>10, <1>11, <1>13, <1>16, <1>17, <1>18, <1>19 DEF PeersInv

-----------------------------------------------------------------------------
(***************************************************************************)
(* The read of a round.                                                    *)
(***************************************************************************)
\* The slot that is read: open, readable and at the least distance.
LEMMA ChosenSlot ==
  ASSUME PeersInv, Candidates # {}
  PROVE  /\ max_idx \in Nat \ {0} /\ max_idx <= MaxPeers /\ rr \in Nat
         /\ Min(Candidates) \in 0 .. max_idx - 1
         /\ Chosen = (Min(Candidates) + rr) % max_idx
         /\ Chosen \in Slots /\ Open(Chosen) /\ peers[Chosen].fd \in ready
         /\ \A k \in Candidates : Min(Candidates) <= k
         /\ NextTurn \in Slots /\ NextTurn = (rr + 1) % max_idx
PROOF
  <1>1. max_idx \in 0 .. MaxPeers /\ rr \in Slots /\ Slots \subseteq Nat /\ MaxPeers \in Nat
    BY Constants DEF PeersInv, Counters
  <1>2. Candidates \subseteq 0 .. max_idx - 1
    BY DEF Candidates
  <1>3. max_idx \in Nat \ {0} /\ max_idx <= MaxPeers
    <2>1. PICK k : k \in 0 .. max_idx - 1
      BY <1>2
    <2> QED
      BY <1>1, <2>1
  <1>4. Candidates \subseteq Nat
    BY <1>1, <1>2
  <1>5. Min(Candidates) \in Candidates /\ \A k \in Candidates : Min(Candidates) <= k
    BY <1>4, MinOf
  <1>6. Chosen = (Min(Candidates) + rr) % max_idx /\ NextTurn = (rr + 1) % max_idx
    BY DEF Chosen, Turn, NextTurn
  <1>7. Open(Chosen) /\ peers[Chosen].fd \in ready
    BY <1>5, <1>6 DEF Candidates, Turn
  <1>8. \A x \in 0 .. max_idx - 1 : x \in Slots
    BY <1>1, <1>3 DEF Slots
  <1>9. Chosen \in 0 .. max_idx - 1
    <2>0. PICK k \in Nat : k = Min(Candidates)
      BY <1>4, <1>5
    <2>1. Min(Candidates) + rr \in Int
      BY <1>1, <2>0
    <2> QED
      BY <1>3, <1>6, <2>1, Division
  <1>10. NextTurn \in 0 .. max_idx - 1
    <2>1. rr + 1 \in Int
      BY <1>1
    <2> QED
      BY <1>3, <1>6, <2>1, Division
  <1> QED
    BY <1>1, <1>2, <1>3, <1>5, <1>6, <1>7, <1>8, <1>9, <1>10

\* Whoever had to wait is one nearer to the start of the search.
LEMMA ReadWaits ==
  ASSUME PeersInv, Candidates # {}, pc = "read", waited' = Waits(Chosen), rr' = NextTurn,
         max_idx' = max_idx
  PROVE  Waiting' /\ waited' \in [Slots -> Nat] /\ rr' \in Slots
PROOF
  <1>1. /\ max_idx \in Nat \ {0} /\ rr \in Nat /\ waited \in [Slots -> Nat]
        /\ Min(Candidates) \in 0 .. max_idx - 1
        /\ Chosen = (Min(Candidates) + rr) % max_idx
        /\ \A k \in Candidates : Min(Candidates) <= k
        /\ rr' \in Slots /\ rr' = (rr + 1) % max_idx
    BY ChosenSlot DEF PeersInv, Counters
  <1>2. /\ waited' \in [Slots -> Nat]
        /\ \A t \in Slots : waited'[t] > 0 =>
             /\ t # Chosen /\ Open(t) /\ peers[t].fd \in ready
             /\ waited'[t] = waited[t] + 1
    BY <1>1 DEF Waits
  <1>3. ASSUME NEW t \in Slots, waited'[t] > 0
        PROVE  /\ t < max_idx
               /\ \E k \in 0 .. max_idx - 1 :
                    (k + rr') % max_idx = t /\ waited'[t] + k <= max_idx - 1
    <2>1. t # Chosen /\ Open(t) /\ peers[t].fd \in ready /\ waited'[t] = waited[t] + 1
      BY <1>2, <1>3
    <2>2. t < max_idx /\ t \in 0 .. max_idx - 1
      BY <1>1, <2>1, Constants DEF PeersInv, InRound
    <2>3. PICK k \in 0 .. max_idx - 1 :
            (k + rr) % max_idx = t /\ waited[t] + k <= max_idx - 1
      <3>1. CASE waited[t] > 0
        BY <3>1 DEF PeersInv, Waiting
      <3>2. CASE waited[t] = 0
        <4>1. PICK k \in 0 .. max_idx - 1 : (k + rr) % max_idx = t
          BY <1>1, <2>2, TurnReaches
        <4> QED
          BY <1>1, <3>2, <4>1
      <3>3. waited[t] \in Nat
        BY <1>1
      <3> QED
        BY <3>1, <3>2, <3>3
    <2>4. k \in Candidates
      BY <2>1, <2>3 DEF Candidates, Turn
    <2>5. k # Min(Candidates)
      BY <1>1, <2>1, <2>3
    <2>6. k \in 1 .. max_idx - 1
      BY <1>1, <2>3, <2>4, <2>5
    <2>7. (k - 1 + rr') % max_idx = t
      <3>1. (k - 1 + ((rr + 1) % max_idx)) % max_idx = (k + rr) % max_idx
        BY <1>1, <2>6, TurnMoves
      <3> QED
        BY <1>1, <2>3, <3>1
    <2>8. k - 1 \in 0 .. max_idx - 1 /\ waited'[t] + (k - 1) <= max_idx - 1
      <3>1. waited[t] \in Nat
        BY <1>1
      <3> QED
        BY <1>1, <2>1, <2>3, <2>6, <3>1
    <2> QED
      BY <2>2, <2>7, <2>8
  <1> QED
    BY <1>1, <1>2, <1>3 DEF Waiting

\* The rest of the state at the end of a round that read a slot.
LEMMA RoundEnds ==
  ASSUME PeersInv, Candidates # {}, pc = "read", waited' = Waits(Chosen), rr' = NextTurn,
         EndOfRound, recalc' \in BOOLEAN,
         UNCHANGED <<select_fd, max_idx, batch, clock, backlog, conns, sends, admits>>
  PROVE  Counters' /\ Batches' /\ InRound' /\ Waiting'
PROOF
  <1>1. Waiting' /\ waited' \in [Slots -> Nat] /\ rr' \in Slots
    BY ReadWaits
  <1>2. Counters'
    BY <1>1 DEF PeersInv, Counters, EndOfRound
  <1>3. Batches'
    BY DEF PeersInv, Batches
  <1>4. InRound'
    BY DEF InRound, EndOfRound
  <1> QED
    BY <1>1, <1>2, <1>3, <1>4

\* Nobody to read.
LEMMA IdleInv ==
  ASSUME PeersInv, NobodyToRead
  PROVE  PeersInv'
PROOF
  <1>1. /\ EndOfRound
        /\ UNCHANGED <<peers, bkp, select_fd, max_idx, rr, recalc, batch, rib, clock, backlog,
                       inbound, eof, conns, sends, admits, waited>>
    BY DEF NobodyToRead, envVars
  <1>2. Counters'
    BY <1>1 DEF PeersInv, Counters, EndOfRound
  <1>3. Streams' /\ Table(peers', rib', bkp') /\ OneEach(peers')
    BY <1>1 DEF PeersInv, Streams
  <1>4. Covered' /\ Waiting'
    BY <1>1 DEF PeersInv, Covered, Waiting, Open
  <1>5. Batches'
    BY <1>1 DEF PeersInv, Batches
  <1>6. InRound'
    BY <1>1 DEF InRound, EndOfRound
  <1> QED
    BY <1>2, <1>3, <1>4, <1>5, <1>6 DEF PeersInv

\* Closing one connection keeps the streams of the others.
LEMMA CloseStreams ==
  ASSUME Streams, NEW p, NEW r, NEW w, NEW S, Close(p, r, w, S)
  PROVE  Streams'
PROOF
  <1>1. /\ inbound' = [s \in Slots |-> IF s \in S THEN << >> ELSE inbound[s]]
        /\ eof' = [s \in Slots |-> s \notin S /\ eof[s]]
    BY DEF Close
  <1> QED
    BY <1>1 DEF Streams

\* recv() <= 0: the connection is closed.
LEMMA ResetInv ==
  ASSUME PeersInv, PeerReset
  PROVE  PeersInv'
PROOF
  <1>1. /\ pc = "read" /\ Candidates # {} /\ Close(peers, rib, bkp, {Chosen})
        /\ waited' = Waits(Chosen) /\ recalc' = TRUE /\ rr' = NextTurn /\ EndOfRound
        /\ UNCHANGED <<select_fd, max_idx, batch, clock, backlog, conns, sends, admits>>
    BY DEF PeerReset
  <1>2. Chosen \in Slots /\ Open(Chosen)
    BY <1>1, ChosenSlot
  <1>3. PICK S : S = {Chosen}
    OBVIOUS
  <1>4. S \subseteq Slots /\ (\A s \in S : peers[s].fd # 0) /\ Close(peers, rib, bkp, S)
    BY <1>1, <1>2, <1>3 DEF Open
  <1>5. Table(peers', rib', bkp')
    BY <1>4, CloseKeeps DEF PeersInv
  <1>6. OneEach(peers')
    BY <1>4, CloseLeavesOne DEF PeersInv, Table
  <1>7. Streams'
    BY <1>4, CloseStreams DEF PeersInv
  <1>8. Counters' /\ Batches' /\ InRound' /\ Waiting'
    BY <1>1, RoundEnds
  <1>9. Covered'
    BY <1>1 DEF Covered
  <1> QED
    BY <1>5, <1>6, <1>7, <1>8, <1>9 DEF PeersInv

\* What was read is parsed: the session goes on, or is closed with its routes.
LEMMA ReadInv ==
  ASSUME PeersInv, ReadPeer
  PROVE  PeersInv'
PROOF
  <1>1. /\ pc = "read" /\ Candidates # {}
        /\ waited' = Waits(Chosen) /\ rr' = NextTurn /\ EndOfRound
        /\ UNCHANGED <<select_fd, max_idx, batch, clock, backlog, conns, sends, admits>>
        /\ \E n \in 0 .. Len(inbound[Chosen]), cut \in Cuts :
             Parsed(Chosen, n, cut) \/ ParseFailed(Chosen, n, cut)
    BY DEF ReadPeer
  <1>2. Chosen \in Slots /\ Open(Chosen) /\ TypeOK /\ Table(peers, rib, bkp)
    BY <1>1, ChosenSlot, InvTypes DEF PeersInv
  <1>3. PICK s : s = Chosen
    OBVIOUS
  <1>4. PICK n \in 0 .. Len(inbound[s]), cut \in Cuts :
          Parsed(s, n, cut) \/ ParseFailed(s, n, cut)
    BY <1>1, <1>3
  <1>5. PICK y : y = Parse(s, n, cut)
    OBVIOUS
  <1>6. Result(s, y)
    BY <1>2, <1>3, <1>5, ParseResult
  <1>7. Table(Heard(s, y), y.rib, bkp)
    BY <1>2, <1>3, <1>6, HeardTable
  <1>8. /\ s \in Slots /\ Open(s) /\ peers \in [Slots -> PeerRec] /\ OneEach(peers) /\ Streams
    BY <1>2, <1>3 DEF PeersInv, Table
  <1>9. /\ Heard(s, y)[s].fd = peers[s].fd /\ Heard(s, y)[s].addr = peers[s].addr
        /\ \A t \in Slots \ {s} : Heard(s, y)[t] = peers[t]
    BY <1>8 DEF Heard, PeerRec
  <1>10. CASE Parsed(s, n, cut)
    <2>1. /\ peers' = [peers EXCEPT ![s].status = y.status, ![s].ht = y.ht,
                                    ![s].last_keepalive = y.last_keepalive, ![s].held = cut]
          /\ rib' = y.rib /\ UNCHANGED <<bkp, recalc, eof>>
          /\ inbound' = [inbound EXCEPT ![s] = SubSeq(@, n + 1, Len(@))]
      BY <1>5, <1>10 DEF Parsed
    <2> DEFINE h == Heard(s, y)
    <2>2. h \in [Slots -> PeerRec]
      BY <1>7 DEF Table
    <2>3. peers'[s] = [h[s] EXCEPT !.held = cut] /\ \A t \in Slots \ {s} : peers'[t] = h[t]
      BY <1>8, <2>1 DEF Heard
    <2>4. DOMAIN peers' = Slots /\ peers' = [t \in Slots |-> peers'[t]]
      BY <1>8, <2>1
    <2> HIDE DEF h
    <2>5. /\ peers'[s] \in PeerRec /\ peers'[s].fd = h[s].fd /\ peers'[s].addr = h[s].addr
          /\ peers'[s].status = h[s].status /\ peers'[s].session = h[s].session
      BY <1>8, <2>2, <2>3, ZenonT(30) DEF PeerRec
    <2>6. peers' \in [Slots -> PeerRec]
      BY <2>2, <2>3, <2>4, <2>5
    <2>7. \A t \in Slots : /\ peers'[t].fd = h[t].fd /\ peers'[t].addr = h[t].addr
                           /\ peers'[t].status = h[t].status
                           /\ peers'[t].session = h[t].session
      BY <2>3, <2>5
    <2>8. Table(peers', rib', bkp')
      <3>1. Table(h, y.rib, bkp)
        BY <1>7 DEF h
      <3>2. h[s].fd # 0
        BY <1>8, <1>9 DEF h, Open
      <3>3. \A t \in Slots : peers'[t].fd = 0 => peers'[t] = EmptyPeer
        BY <2>3, <2>7, <3>1, <3>2 DEF Table
      <3>4. \A t, u \in Slots : peers'[t].fd = peers'[u].fd /\ peers'[t].fd # 0 => t = u
        BY <2>7, <3>1 DEF Table
      <3>5. {peers'[t].fd : t \in {u \in Slots : peers'[u].fd # 0}}
              = {h[t].fd : t \in {u \in Slots : h[u].fd # 0}}
        BY <2>7
      <3>6. \A e \in y.rib : OwnedBy(e, peers')
        BY <2>7, <3>1, EntryType DEF Table, OwnedBy
      <3> QED
        BY <2>1, <2>6, <3>1, <3>3, <3>4, <3>5, <3>6 DEF Table
    <2>9. \A t \in Slots : peers'[t].fd = peers[t].fd /\ peers'[t].addr = peers[t].addr
      BY <1>9, <2>7 DEF h
    <2>10. OneEach(peers')
      BY <1>8, <2>9 DEF OneEach
    <2>11. Streams'
      <3>1. inbound[s] \in Seq(Msgs) /\ Len(inbound[s]) \in Nat
        BY <1>8 DEF Streams
      <3>2. SubSeq(inbound[s], n + 1, Len(inbound[s])) \in Seq(Msgs)
        <4>1. \A i \in n + 1 .. Len(inbound[s]) : inbound[s][i] \in Msgs
          BY <1>4, <3>1
        <4> QED
          BY <1>4, <3>1, <4>1
      <3> QED
        BY <1>8, <2>1, <3>2 DEF Streams
    <2>12. Counters' /\ Batches' /\ InRound' /\ Waiting'
      <3>1. recalc' \in BOOLEAN
        BY <2>1 DEF PeersInv, Counters
      <3> QED
        BY <1>1, <3>1, RoundEnds
    <2>13. Covered'
      BY <1>1, <2>1, <2>9 DEF PeersInv, Covered, Open
    <2> QED
      BY <2>8, <2>10, <2>11, <2>12, <2>13 DEF PeersInv
  <1>11. CASE ParseFailed(s, n, cut)
    <2>1. Close(peers, y.rib, bkp, {s}) /\ recalc' = TRUE
      BY <1>5, <1>11 DEF ParseFailed
    <2>2. Close(Heard(s, y), y.rib, bkp, {s})
      BY <1>9, <2>1 DEF Close
    <2>3. PICK S : S = {s}
      OBVIOUS
    <2>4. S \subseteq Slots /\ (\A t \in S : Heard(s, y)[t].fd # 0)
          /\ Close(Heard(s, y), y.rib, bkp, S) /\ Close(peers, y.rib, bkp, S)
      BY <1>8, <1>9, <2>1, <2>2, <2>3 DEF Open
    <2>5. Table(peers', rib', bkp')
      BY <1>7, <2>4, CloseKeeps
    <2>6. OneEach(peers')
      BY <1>8, <2>4, CloseLeavesOne
    <2>7. Streams'
      BY <1>8, <2>4, CloseStreams
    <2>8. Counters' /\ Batches' /\ InRound' /\ Waiting'
      BY <1>1, <2>1, RoundEnds
    <2>9. Covered'
      BY <2>1 DEF Covered
    <2> QED
      BY <2>5, <2>6, <2>7, <2>8, <2>9 DEF PeersInv
  <1> QED
    BY <1>4, <1>10, <1>11

\* The loop over the buffer does not end: what was parsed before is kept.
LEMMA StuckInv ==
  ASSUME PeersInv, ReadForEver
  PROVE  PeersInv'
PROOF
  <1>1. /\ pc = "read" /\ Candidates # {}
        /\ waited' = Waits(Chosen) /\ rr' = NextTurn /\ pc' = "stuck"
        /\ UNCHANGED <<bkp, ready, select_fd, max_idx, recalc, now, batch, clock,
                       backlog, inbound, eof, conns, sends, admits>>
    BY DEF ReadForEver, envVars
  <1>2. Chosen \in Slots /\ Open(Chosen) /\ TypeOK /\ Table(peers, rib, bkp)
    BY <1>1, ChosenSlot, InvTypes DEF PeersInv
  <1>3. PICK s : s = Chosen
    OBVIOUS
  <1>4. PICK n \in 1 .. Len(inbound[s]), cut \in Cuts :
          \E x \in {Parse(s, n, cut)} :
            /\ peers' = [peers EXCEPT ![s].status = x.status, ![s].ht = x.ht,
                                      ![s].last_keepalive = x.last_keepalive]
            /\ rib' = x.rib
    BY <1>3 DEF ReadForEver
  <1>5. PICK y : y = Parse(s, n, cut)
    OBVIOUS
  <1>6. peers' = [peers EXCEPT ![s].status = y.status, ![s].ht = y.ht,
                               ![s].last_keepalive = y.last_keepalive]
        /\ rib' = y.rib
    BY <1>4, <1>5
  <1>7. Result(s, y)
    <2>1. inbound[s] \in Seq(Msgs) /\ s \in Slots
      BY <1>2, <1>3 DEF TypeOK
    <2>2. n \in 0 .. Len(inbound[s])
      BY <2>1, LenProperties
    <2> QED
      BY <1>2, <1>5, <2>1, <2>2, ParseResult
  <1>8. /\ s \in Slots /\ Open(s) /\ peers \in [Slots -> PeerRec] /\ OneEach(peers)
    BY <1>2, <1>3 DEF PeersInv, Table
  <1>9. peers' = Heard(s, y)
    BY <1>6, <1>8 DEF Heard, PeerRec
  <1>10. Table(peers', rib', bkp')
    <2>1. Table(Heard(s, y), y.rib, bkp)
      BY <1>2, <1>7, <1>8, HeardTable
    <2> QED
      BY <1>1, <1>6, <1>9, <2>1
  <1>11. \A t \in Slots : peers'[t].fd = peers[t].fd /\ peers'[t].addr = peers[t].addr
    BY <1>8, <1>9 DEF Heard, PeerRec
  <1>12. OneEach(peers')
    BY <1>8, <1>11 DEF OneEach
  <1>13. Waiting' /\ waited' \in [Slots -> Nat] /\ rr' \in Slots
    BY <1>1, ReadWaits
  <1>14. Counters' /\ Streams' /\ Batches'
    BY <1>1, <1>13 DEF PeersInv, Counters, Streams, Batches
  <1>15. Covered' /\ InRound'
    BY <1>1, <1>11 DEF PeersInv, Covered, InRound, Open
  <1> QED
    BY <1>10, <1>12, <1>13, <1>14, <1>15 DEF PeersInv

-----------------------------------------------------------------------------
\* Every step keeps the invariant.
LEMMA StepInv == PeersInv /\ [Next]_vars => PeersInv'
PROOF
  <1> SUFFICES ASSUME PeersInv, [Next]_vars PROVE PeersInv'
    OBVIOUS
  <1>1. CASE Round
    BY <1>1, SelectInv, RefuseInv, AcceptInv, IdleInv, ResetInv,
       ReadInv, StuckInv DEF Round
  <1>2. CASE \/ \E a \in Addrs : Connect(a)
             \/ \E s \in Slots, b \in Bursts : Send(s, b)
             \/ \E s \in Slots : Disconnect(s)
             \/ Tick
    BY <1>2, EnvInv
  <1>3. CASE UNCHANGED vars
    <2>1. UNCHANGED <<pc, peers, bkp, ready, select_fd, max_idx, rr, recalc, now, batch, rib,
                      clock, backlog, inbound, eof, conns, sends, admits, waited>>
      BY <1>3 DEF vars, daemonVars, envVars
    <2>2. Counters' /\ Streams' /\ Table(peers', rib', bkp') /\ OneEach(peers')
      BY <2>1 DEF PeersInv, Counters, Streams
    <2>3. Covered' /\ Batches' /\ InRound' /\ Waiting'
      BY <2>1 DEF PeersInv, Covered, Batches, InRound, Waiting, Open
    <2> QED
      BY <2>2, <2>3 DEF PeersInv
  <1> QED
    BY <1>1, <1>2, <1>3 DEF Next

\* The invariant holds throughout.
LEMMA AlwaysInv == Spec => []PeersInv
PROOF
  <1> QED
    BY InitInv, StepInv, PTL DEF Spec

\* What PeersSound says of the table: the types, one open connection per router
\* (the walk over the table after accept()), and no more connections in an
\* interval than a batch has (bgp_batch_*()).
THEOREM PeersAreSound == Spec => []PeersSound
PROOF
  <1>1. PeersInv => PeersSound
    <2> SUFFICES ASSUME PeersInv PROVE PeersSound
      OBVIOUS
    <2>1. TypeOK
      BY InvTypes
    <2>2. OnePerPeer
      BY DEF PeersInv, OneEach, OnePerPeer, Open
    <2>3. BatchBound
      <3> SUFFICES ASSUME Batch > 0 PROVE Len(admits) <= Batch
        BY DEF BatchBound
      <3>1. /\ Len(admits) + batch.num_current <= Batch /\ admits \in Seq(Nat)
            /\ batch.num_current \in 0 .. Batch /\ Batch \in Nat
        BY Constants DEF PeersInv, Batches, Counters
      <3> QED
        BY <3>1, LenProperties
    <2> QED
      BY <2>1, <2>2, <2>3 DEF PeersSound
  <1> QED
    BY <1>1, AlwaysInv, PTL

\* Every route of the RIB is of the established session that now has the slot it
\* refers to: bgp_peer_info_delete() meets all routes of a session before its
\* slot and descriptor are given to another peer.
THEOREM RoutesAreOwned == Spec => []RoutesOwned
PROOF
  <1>1. PeersInv => RoutesOwned
    BY DEF PeersInv, Table, OwnedBy, RoutesOwned, Open
  <1> QED
    BY <1>1, AlwaysInv, PTL

\* select() looks at the listening socket and at all open peers and at nothing
\* else: the hand-kept descriptor set and the cached bounds agree with the table.
THEOREM AllWatched == Spec => []Watched
PROOF
  <1>1. PeersInv => Watched
    BY DEF PeersInv, Table, Covered, Watched, Used, Open
  <1> QED
    BY <1>1, AlwaysInv, PTL

\* The round-robin search bounds the wait of a readable peer by the size of the
\* searched part of the table, wherever the search starts and whoever comes and
\* goes, as long as that size stays: at most so many reads of others come before
\* its own, if they end.
THEOREM WaitIsBounded == Spec => []BoundedWait
PROOF
  <1>1. PeersInv => BoundedWait
    <2> SUFFICES ASSUME PeersInv, NEW s \in Slots, waited[s] > 0 PROVE waited[s] < max_idx
      BY DEF BoundedWait
    <2>1. PICK k \in 0 .. max_idx - 1 : waited[s] + k <= max_idx - 1
      BY DEF PeersInv, Waiting
    <2>2. max_idx \in Nat /\ waited[s] \in Nat
      BY DEF PeersInv, Counters
    <2> QED
      BY <2>1, <2>2
  <1> QED
    BY <1>1, AlwaysInv, PTL
=============================================================================
