------------------------------ MODULE BgpPeers ------------------------------
(***************************************************************************)
(* The BGP daemon thread (skinny_bgp_daemon_online()): one select() loop   *)
(* over the listening socket and a table of peer slots, at most one accept *)
(* and one read per round; bgp_parse_msg() over the bytes of a read; the   *)
(* routes each peer put in the shared RIB; throttling of new connections   *)
(* by batches.                                                             *)
(*                                                                         *)
(* The routers and the network are the environment: they connect, send     *)
(* messages, close, and TCP cuts the stream anywhere.  A read returns some *)
(* whole messages and possibly the beginning of the next one, cut inside   *)
(* its header or after it.                                                 *)
(***************************************************************************)
EXTENDS Integers, Sequences, FiniteSets, FiniteSetsExt, Functions, Subsequences

CONSTANTS
  MaxPeers,      \* bgp_daemon_max_peers
  Addrs,         \* addresses routers connect from
  Allowed,       \* the ones bgp_daemon_allow_file admits
  NoAddr,        \* a zeroed host_addr
  Fds,           \* descriptors left to accept()
  HoldTime,      \* hold time every OPEN asks for, MAX(5, ..) applied
  Batch,         \* bgp_daemon_batch
  Interval,      \* bgp_daemon_batch_interval
  PeerBuckets,   \* bgp_table_peer_buckets
  PerPeer,       \* bgp_table_per_peer_buckets
  Bursts,        \* what routers write at a time: messages in a row, each
                 \* [type, prefix, path]
  Step,          \* seconds between two ticks of the model's clock
  MaxBacklog,    \* bound: connections waiting for accept()
  MaxConns,      \* bound: connections
  MaxSends,      \* bound: bursts
  MaxClock       \* bound: seconds

MsgTypes == {"OPEN", "BADOPEN", "KEEPALIVE", "NOTIFICATION", "BADHDR",
             "NOLENGTH", "ANNOUNCE", "WITHDRAW", "BADUPDATE"}

ASSUME BgpAssumption ==
  /\ {MaxPeers, PeerBuckets, PerPeer, HoldTime} \subseteq Nat \ {0}
  /\ Allowed \subseteq Addrs /\ NoAddr \notin Addrs
  /\ Fds \subseteq Nat \ {0}
  /\ {Batch, Interval, Step, MaxBacklog, MaxConns, MaxSends, MaxClock}
       \subseteq Nat
  /\ Batch = 0 <=> Interval = 0
  /\ \A b \in Bursts : /\ b \in Seq(Range(b))
                        /\ \A m \in Range(b) : m.type \in MsgTypes /\ m.path \in Nat

VARIABLES
  pc,            \* where the thread is in its round
  peers,         \* the peers table
  bkp,           \* bkp_read_descs
  ready,         \* read_descs after select(); 0 is the listening socket
  select_fd,     \* bkp_select_fd: select() looks at descriptors below it
  max_idx,       \* max_peers_idx
  rr,            \* peers_idx_rr
  recalc,        \* recalc_fds
  now,           \* time(NULL) of this round
  batch,         \* bp_batch: num_current and base_stamp
  rib,           \* bgp_info entries of the shared RIB
  clock, backlog, inbound, eof,       \* environment
  conns, sends,                       \* bounds
  admits,        \* history: when connections got a slot, since base_stamp
  waited,        \* history: rounds a readable slot saw another one read,
                 \* since max_peers_idx last changed
  notified       \* history: the NOTIFICATION just sent, and whether a
                 \* message of the read had a malformed header

daemonVars == <<pc, peers, bkp, ready, select_fd, max_idx, rr, recalc, now,
                batch, rib>>
envVars == <<clock, backlog, inbound, eof, conns, sends>>
vars == <<daemonVars, envVars, admits, waited, notified>>

Slots == 0 .. MaxPeers - 1

Msgs == UNION {Range(b) : b \in Bursts}

\* struct bgp_peer status
Idle == 1
Active == 3
OpenSent == 4
Established == 6

Open(s) == peers[s].fd # 0

EmptyPeer == [fd |-> 0, addr |-> NoAddr, status |-> 0, ht |-> 0,
              last_keepalive |-> 0, held |-> "none", session |-> 0]

\* no NOTIFICATION was sent
Silent == [code |-> "none", badhdr |-> FALSE]

\* time does not start at 0: an unset time stamp is long past
Init ==
  /\ pc = "select"
  /\ peers = [s \in Slots |-> EmptyPeer]
  /\ bkp = {0} /\ ready = {}
  /\ select_fd = 1 /\ max_idx = 0 /\ rr = 0 /\ recalc = FALSE
  /\ clock = Interval + HoldTime + 1 /\ now = 0
  /\ batch = [num_current |-> 0, base_stamp |-> 0]
  /\ rib = {} /\ backlog = << >>
  /\ inbound = [s \in Slots |-> << >>] /\ eof = [s \in Slots |-> FALSE]
  /\ conns = 0 /\ sends = 0
  /\ admits = << >> /\ waited = [s \in Slots |-> 0] /\ notified = Silent

-----------------------------------------------------------------------------
(* Routers, network and time.  What they do during a round is noticed in   *)
(* the next one: they act between rounds.                                  *)

Connect(a) ==
  /\ pc = "select" /\ conns < MaxConns /\ Len(backlog) < MaxBacklog
  /\ conns' = conns + 1
  /\ backlog' = Append(backlog, a)
  /\ notified' = Silent
  /\ UNCHANGED <<daemonVars, clock, inbound, eof, sends, admits, waited>>

Send(s, b) ==
  /\ pc = "select" /\ Open(s) /\ ~eof[s] /\ sends < MaxSends
  /\ sends' = sends + 1
  /\ inbound' = [inbound EXCEPT ![s] = @ \o b]
  /\ notified' = Silent
  /\ UNCHANGED <<daemonVars, clock, backlog, eof, conns, admits, waited>>

Disconnect(s) ==
  /\ pc = "select" /\ Open(s) /\ ~eof[s]
  /\ eof' = [eof EXCEPT ![s] = TRUE]
  /\ notified' = Silent
  /\ UNCHANGED <<daemonVars, clock, backlog, inbound, conns, sends, admits,
                 waited>>

Tick ==
  /\ pc = "select" /\ clock < MaxClock
  /\ clock' = clock + Step
  /\ notified' = Silent
  /\ UNCHANGED <<daemonVars, backlog, inbound, eof, conns, sends, admits,
                 waited>>

-----------------------------------------------------------------------------
(* The RIB: an entry sits in a bucket of its node that depends on the      *)
(* descriptor of the peer and on the path identifier.                      *)

Modulo(fd, path) ==
  ((fd * PerPeer) + ((path - 1) % PerPeer)) % (PeerBuckets * PerPeer)

SamePath(e, s, m) ==
  /\ e.peer = s /\ e.prefix = m.prefix /\ e.path = m.path
  /\ e.bucket = Modulo(peers[s].fd, m.path)

\* the new entry takes the place of the one for the same path
ProcessUpdate(r, s, m) ==
  {e \in r : ~SamePath(e, s, m)} \cup
  {[peer |-> s, prefix |-> m.prefix, path |-> m.path,
    bucket |-> Modulo(peers[s].fd, m.path), session |-> peers[s].session]}

ProcessWithdraw(r, s, m) == {e \in r : ~SamePath(e, s, m)}

\* mutant: only the bucket of the first path is searched
InfoDelete_OneBucket(r, s, fd) ==
  {e \in r : ~(e.peer = s /\ e.bucket = Modulo(fd, 1))}

\* bgp_peer_info_delete(): the buckets of the peer's descriptor
InfoDelete(r, s, fd) ==
  {e \in r : ~(e.peer = s /\ e.bucket - Modulo(fd, 1) \in 0 .. PerPeer - 1)}

-----------------------------------------------------------------------------
(* bgp_peer_close(), for a set of slots; r is the RIB at that time         *)

\* mutant: FD_CLR forgotten
Cleared_Not(w, fds) == w

\* the FD_CLR before every bgp_peer_close()
Cleared(w, fds) == w \ fds

\* p, r and w: the peers table, the RIB and the watched descriptors before.
\* What bgp_peer_close() leaves in the slot, bgp_peer_init() clears before
\* anything looks at it.
Close(p, r, w, S) ==
  /\ peers' = [s \in Slots |-> IF s \in S THEN EmptyPeer ELSE p[s]]
  /\ rib' = {e \in r : \A s \in S : e \in InfoDelete(r, s, p[s].fd)}
  /\ bkp' = Cleared(w, {p[s].fd : s \in S})
  /\ inbound' = [s \in Slots |-> IF s \in S THEN << >> ELSE inbound[s]]
  /\ eof' = [s \in Slots |-> s \notin S /\ eof[s]]

-----------------------------------------------------------------------------
(* One round: select() *)

Used == {s \in Slots : Open(s)}

MaxIdx == IF Used = {} THEN 0 ELSE Max(Used) + 1
SelectFd == Max({0} \cup {peers[s].fd : s \in Slots}) + 1

Readable(s) == Open(s) /\ (inbound[s] # << >> \/ eof[s])

Select ==
  /\ pc = "select"
  /\ max_idx' = IF recalc THEN MaxIdx ELSE max_idx
  /\ select_fd' = IF recalc THEN SelectFd ELSE select_fd
  /\ recalc' = FALSE
  /\ ready' = {fd \in bkp : fd < select_fd' /\
                 \/ fd = 0 /\ backlog # << >>
                 \/ \E s \in Slots : fd = peers[s].fd /\ Readable(s)}
  /\ ready' # {}
  /\ now' = clock /\ notified' = Silent
  /\ pc' = IF 0 \in ready' THEN "accept" ELSE "read"
  /\ waited' = IF max_idx' = max_idx THEN waited ELSE [s \in Slots |-> 0]
  /\ UNCHANGED <<peers, bkp, rr, batch, rib, envVars, admits>>

-----------------------------------------------------------------------------
(* New connection *)

BatchExpired == now > batch.base_stamp + Interval
BatchNotEmpty == batch.num_current # 0
BatchAdmitted == BatchNotEmpty \/ BatchExpired

\* mutant: a new peer does not use up a place of the batch
BatchTake_Free ==
  IF Batch # 0 /\ BatchExpired THEN [num_current |-> Batch, base_stamp |-> now]
  ELSE batch

\* bgp_batch_reset() and bgp_batch_decrease_counter() for a new peer
BatchTake ==
  LET b == IF BatchExpired THEN [num_current |-> Batch, base_stamp |-> now]
           ELSE batch
  IN  IF Batch = 0 THEN batch
      ELSE [b EXCEPT !.num_current = IF @ # 0 THEN @ - 1 ELSE @]

FreeSlots == {s \in Slots : ~Open(s)}

\* accept() returns the lowest unused descriptor
LeftFds == Fds \ {peers[s].fd : s \in Slots}
NewFd == Min(LeftFds)

\* accept() returns an error, as it does when no descriptor is left
AcceptFails ==
  /\ pc = "accept"
  /\ backlog' = Tail(backlog)
  /\ pc' = "read"
  /\ UNCHANGED <<peers, bkp, ready, select_fd, max_idx, rr, recalc, now, batch,
                 rib, clock, inbound, eof, conns, sends, admits, waited,
                 notified>>

\* accepted to be closed at once: the ACL, a full table, the batch
Refuse ==
  /\ pc = "accept"
  /\ \/ Head(backlog) \notin Allowed
     \/ FreeSlots = {}
     \/ ~BatchAdmitted
  /\ backlog' = Tail(backlog)
  /\ pc' = "read"
  /\ UNCHANGED <<peers, bkp, ready, select_fd, max_idx, rr, recalc, now, batch,
                 rib, clock, inbound, eof, conns, sends, admits, waited,
                 notified>>

\* bgp_peer_init() and the assignments after it
InitPeer(a, fd) ==
  [EmptyPeer EXCEPT !.fd = fd, !.addr = a, !.status = Idle, !.session = conns]

\* mutant: a stale connection of the same peer is left in place
Displaced_KeepsStale(a, idx) ==
  LET same  == {s \in Slots \ {idx} : peers[s].addr = a}
      alive == {s \in same : now - peers[s].last_keepalive <= peers[s].ht}
  IN  IF alive = {} THEN {} ELSE {idx}

(***************************************************************************)
(* Only one TCP connection per peer: walking the table, stale connections  *)
(* of the same address are closed; the first one that is not stale has the *)
(* new connection closed instead.                                          *)
(***************************************************************************)
Displaced(a, idx) ==
  LET same  == {s \in Slots \ {idx} : peers[s].addr = a}
      alive == {s \in same : now - peers[s].last_keepalive <= peers[s].ht}
  IN  IF alive = {} THEN same
      ELSE {idx} \cup {s \in same \ alive : s < Min(alive)}

Accept ==
  /\ pc = "accept"
  /\ LeftFds # {}
  /\ Head(backlog) \in Allowed /\ FreeSlots # {} /\ BatchAdmitted
  /\ LET a   == Head(backlog)
         idx == Min(FreeSlots)
         fd  == NewFd
     IN  Close([peers EXCEPT ![idx] = InitPeer(a, fd)], rib, bkp \cup {fd},
               Displaced(a, idx))
  /\ recalc' = TRUE
  /\ batch' = BatchTake
  /\ admits' = Kept(Append(admits, now), batch'.base_stamp .. now)
  /\ waited' = [s \in Slots |-> IF peers'[s].fd = peers[s].fd THEN waited[s]
                                ELSE 0]
  /\ backlog' = Tail(backlog)
  /\ pc' = "read"
  /\ UNCHANGED <<ready, select_fd, max_idx, rr, now, clock, conns, sends,
                 notified>>

-----------------------------------------------------------------------------
(* bgp_parse_msg() *)

(***************************************************************************)
(* x holds what parsing a message changes.  ret is 0, ERR for a            *)
(* NOTIFICATION received, LOOP for none at all, or the code of the         *)
(* NOTIFICATION to send.  BADHDR is what is refused by its header; of the  *)
(* length there only the upper bound is checked.  One below the 19 bytes   *)
(* of a header makes two messages of it, the second of which is a BADHDR,  *)
(* and with one of 0 (NOLENGTH, a KEEPALIVE) the loop does not move on.    *)
(***************************************************************************)

\* bgp_parse_open_msg(): a second OPEN is an error like a malformed one; a
\* good one is answered with OPEN and KEEPALIVE
OpenMsg(x, m) ==
  IF x.status >= OpenSent THEN [x EXCEPT !.ret = "OPEN_ERR"]
  ELSE IF m.type = "BADOPEN"
  THEN [x EXCEPT !.status = Active, !.ret = "OPEN_ERR"]
  ELSE [x EXCEPT !.status = Established, !.ht = HoldTime,
                 !.last_keepalive = now]

\* answered, or discarded before the OPEN exchange
KeepaliveMsg(x) ==
  IF x.status < OpenSent THEN x
  ELSE [x EXCEPT !.status = Established, !.last_keepalive = now]

\* bgp_parse_update_msg(): a malformed one is refused before it is applied
UpdateMsg(s, x, m) ==
  IF x.status < Established THEN [x EXCEPT !.ret = "FSM_ERR"]
  ELSE CASE m.type = "BADUPDATE" -> [x EXCEPT !.ret = "UPDATE_ERR"]
         [] m.type = "ANNOUNCE" -> [x EXCEPT !.rib = ProcessUpdate(@, s, m)]
         [] m.type = "WITHDRAW" -> [x EXCEPT !.rib = ProcessWithdraw(@, s, m)]

ParseMsg(s, x, m) ==
  CASE x.ret # "0" -> x
    [] x.ret = "0" /\ m.type = "BADHDR" -> [x EXCEPT !.ret = "HEADER_ERR"]
    [] x.ret = "0" /\ m.type = "NOTIFICATION" -> [x EXCEPT !.ret = "ERR"]
    [] x.ret = "0" /\ m.type \in {"OPEN", "BADOPEN"} -> OpenMsg(x, m)
    [] x.ret = "0" /\ m.type = "KEEPALIVE" -> KeepaliveMsg(x)
    [] x.ret = "0" /\ m.type = "NOLENGTH" -> [KeepaliveMsg(x) EXCEPT !.ret = "LOOP"]
    [] x.ret = "0" /\ m.type \in {"ANNOUNCE", "WITHDRAW", "BADUPDATE"} ->
         UpdateMsg(s, x, m)

Cuts == {"none", "header", "body"}

(***************************************************************************)
(* What one recv() may deliver of the stream of slot s: n messages up to   *)
(* their end and the first bytes of the next, cut inside the header or     *)
(* after it; a KEEPALIVE is nothing but a header.                          *)
(***************************************************************************)
Delivers(s, n, cut) ==
  /\ n = Len(inbound[s]) => cut = "none"
  /\ n = 0 => cut # "none"
  /\ n = 0 /\ peers[s].held = "body" => cut = "body"
  /\ cut = "body" => inbound[s][n + 1].type \notin {"KEEPALIVE", "NOLENGTH"}

\* a KEEPALIVE of ours is due before the message is looked at
KeepaliveSent(p) ==
  IF p.status = Established /\ now - p.last_keepalive > p.ht \div 2
  THEN now ELSE p.last_keepalive

\* the loop over the buffer, whose first byte must not be in a cut header
Parse(s, n, cut) ==
  LET p == peers[s]
      x == [status |-> p.status, ht |-> p.ht, rib |-> rib, ret |-> "0",
            last_keepalive |-> KeepaliveSent(p)]
      after[k \in 0 .. n] ==
        IF k = 0 THEN x ELSE ParseMsg(s, after[k - 1], inbound[s][k])
  IN  IF n = 0 /\ cut = "header" THEN [x EXCEPT !.ret = "HEADER_ERR"]
      ELSE after[n]

\* recv() delivered and bgp_parse_msg() succeeded: the rest is kept
Parsed(s, n, cut) ==
  \E x \in {Parse(s, n, cut)} :
    /\ x.ret = "0"
    /\ peers' = [peers EXCEPT ![s].status = x.status, ![s].ht = x.ht,
                              ![s].last_keepalive = x.last_keepalive,
                              ![s].held = cut]
    /\ rib' = x.rib
    /\ inbound' = [inbound EXCEPT ![s] = SubSeq(@, n + 1, Len(@))]
    /\ UNCHANGED <<bkp, recalc, eof, notified>>

\* bgp_parse_msg() failed: close, with a NOTIFICATION if the error is ours
ParseFailed(s, n, cut) ==
  \E x \in {Parse(s, n, cut)} :
    /\ x.ret \notin {"0", "LOOP"}
    /\ Close(peers, x.rib, bkp, {s})
    /\ recalc' = TRUE
    /\ notified' =
         IF x.ret = "ERR" THEN Silent
         ELSE [code |-> x.ret,
               badhdr |-> \E i \in 1 .. n : inbound[s][i].type = "BADHDR"]

\* mutant: the search always starts at the first slot
Turn_NoRobin == 0

\* where the search for a readable peer starts
Turn == rr

\* mutant: no wrap
NextTurn_NoWrap == rr + 1

NextTurn == (rr + 1) % max_idx

Candidates ==
  {i \in 0 .. max_idx - 1 : LET s == (i + Turn) % max_idx IN
                              Open(s) /\ peers[s].fd \in ready}

Chosen == (Min(Candidates) + Turn) % max_idx

\* another readable slot was read in this round
Waits(s) ==
  [t \in Slots |-> IF t = s \/ ~Open(t) \/ peers[t].fd \notin ready THEN 0
                   ELSE waited[t] + 1]

\* back to select(); read_descs and now are set anew there
EndOfRound == pc' = "select" /\ ready' = {} /\ now' = 0

NobodyToRead ==
  /\ pc = "read" /\ Candidates = {}
  /\ EndOfRound
  /\ UNCHANGED <<peers, bkp, select_fd, max_idx, rr, recalc, batch, rib,
                 envVars, admits, waited, notified>>

\* recv() <= 0
PeerReset ==
  /\ pc = "read" /\ Candidates # {}
  /\ eof[Chosen] /\ inbound[Chosen] = << >>
  /\ Close(peers, rib, bkp, {Chosen})
  /\ waited' = Waits(Chosen)
  /\ recalc' = TRUE
  /\ rr' = NextTurn
  /\ EndOfRound
  /\ UNCHANGED <<select_fd, max_idx, batch, clock, backlog, conns,
                 sends, admits, notified>>

ReadPeer ==
  /\ pc = "read" /\ Candidates # {}
  /\ \E s \in {Chosen} :
       /\ inbound[s] # << >>
       /\ \E n \in 0 .. Len(inbound[s]), cut \in Cuts :
            /\ Delivers(s, n, cut)
            /\ Parsed(s, n, cut) \/ ParseFailed(s, n, cut)
       /\ waited' = Waits(s)
  /\ rr' = NextTurn
  /\ EndOfRound
  /\ UNCHANGED <<select_fd, max_idx, batch, clock, backlog, conns,
                 sends, admits>>

\* bgp_parse_msg() never returns: the thread reads nobody any more
ReadForEver ==
  /\ pc = "read" /\ Candidates # {}
  /\ \E s \in {Chosen}, n \in 1 .. Len(inbound[Chosen]), cut \in Cuts :
       /\ Delivers(s, n, cut)
       /\ \E x \in {Parse(s, n, cut)} :
            /\ x.ret = "LOOP"
            /\ peers' = [peers EXCEPT ![s].status = x.status, ![s].ht = x.ht,
                                      ![s].last_keepalive = x.last_keepalive]
            /\ rib' = x.rib
  /\ waited' = Waits(Chosen)
  /\ rr' = NextTurn
  /\ pc' = "stuck"
  /\ UNCHANGED <<bkp, ready, select_fd, max_idx, recalc, now, batch, envVars,
                 admits, notified>>

Round ==
  \/ Select \/ AcceptFails \/ Refuse \/ Accept
  \/ NobodyToRead \/ PeerReset \/ ReadPeer \/ ReadForEver

Next ==
  \/ Round
  \/ \E a \in Addrs : Connect(a)
  \/ \E s \in Slots, b \in Bursts : Send(s, b)
  \/ \E s \in Slots : Disconnect(s)
  \/ Tick

Spec == Init /\ [][Next]_vars

-----------------------------------------------------------------------------
Entries == [peer : Slots, prefix : {m.prefix : m \in Msgs},
            path : {m.path : m \in Msgs}, session : Nat,
            bucket : 0 .. (PeerBuckets * PerPeer) - 1]

TypeOK ==
  /\ pc \in {"select", "accept", "read", "stuck"}
  /\ peers \in [Slots -> [fd : {0} \cup Fds, addr : {NoAddr} \cup Addrs,
                          status : {0, Idle, Active, Established},
                          ht : {0, HoldTime}, last_keepalive : Nat,
                          held : Cuts, session : Nat]]
  /\ bkp \subseteq {0} \cup Fds /\ ready \subseteq bkp \cup Fds
  /\ select_fd \in Nat /\ max_idx \in 0 .. MaxPeers /\ rr \in Slots
  /\ recalc \in BOOLEAN /\ now \in Nat
  /\ batch \in [num_current : 0 .. Batch, base_stamp : Nat]
  /\ rib \subseteq Entries
  /\ clock \in Nat /\ backlog \in Seq(Addrs)
  /\ inbound \in [Slots -> Seq(Msgs)] /\ eof \in [Slots -> BOOLEAN]
  /\ conns \in 0 .. MaxConns /\ sends \in 0 .. MaxSends
  /\ waited \in [Slots -> Nat]

\* "only one TCP connection is allowed per peer": whatever the order in which
\* connections come, go stale and are displaced, two slots of the table never
\* hold open connections of the same address.
OnePerPeer ==
  \A s, t \in Slots :
    Open(s) /\ Open(t) /\ peers[s].addr = peers[t].addr => s = t

\* Slots and descriptors are reused, and RIB entries refer to a slot and are
\* found through the descriptor: every entry was put there by the session
\* that has the slot now, so no route outlives its session or is inherited by
\* the next peer in the slot.
RoutesOwned ==
  \A e \in rib : /\ Open(e.peer) /\ peers[e.peer].status = Established
                 /\ peers[e.peer].session = e.session

\* The descriptors select() watches are the listening socket and those of the
\* open slots, and unless a recalculation is due all of them are below
\* select_fd and all open slots below max_peers_idx: a peer that sends is
\* noticed, and select() is never handed a closed descriptor.
Watched ==
  /\ bkp = {0} \cup {peers[s].fd : s \in Used}
  /\ ~recalc => \A s \in Used : s < max_idx /\ peers[s].fd < select_fd

\* The round-robin search avoids "starvation of the 'later established'
\* peers": while the searched part of the table has the size it has, whatever
\* peers come and go in it, a slot with something to read sees at most
\* max_idx - 1 other reads before its own.  A thread caught in a message of length
\* 0 (ReadForEver) reads nobody: the bound is on reads that end.
BoundedWait == \A s \in Slots : waited[s] > 0 => waited[s] < max_idx

\* bgp_daemon_batch: in the interval since the batch began no more
\* connections got a slot than a batch has.
BatchBound ==
  Batch > 0 =>
    Len(admits) <= Batch

\* "BGP buffer segmentation + reassembly": where TCP cuts the stream does not
\* matter; a header error is only answered to a message that has one.
Reassembled == notified.code = "HEADER_ERR" => notified.badhdr

\* The peers table through accepts, refusals, replacements and batches
\* (skinny_bgp_daemon_online()): types, one session per router, batches bounded.
PeersSound == TypeOK /\ OnePerPeer /\ BatchBound
=============================================================================
