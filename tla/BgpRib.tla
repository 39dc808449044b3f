------------------------------- MODULE BgpRib -------------------------------
(***************************************************************************)
(* The RIB of the BGP thread: UPDATEs whose attributes are interned, so    *)
(* that equal ones are one object with a reference count (bgp_util.c,      *)
(* bgp_hash.c, bgp_aspath.c, bgp_community.c), the routes of each peer in  *)
(* the tree (BgpTable), the walk that deletes those of a closed peer, and  *)
(* the core thread, which looks routes up without a lock (bgp_lookup.c).   *)
(*                                                                         *)
(* One address family, no ADD-PATH, labels or route distinguishers.        *)
(* Extended and large communities are interned like communities.           *)
(***************************************************************************)
EXTENDS BgpTable, Bags, BagsExt

CONSTANTS
  Peers,            \* slots of the peers table
  FourByte,         \* peers with cap_4as
  Bucket(_),        \* route_info_modulo()
  Updates,          \* what routers send: attributes in a row, withdrawn prefixes,
                    \* announced ones (NLRI, then MP_REACH_NLRI), those of MP_UNREACH_NLRI
  Reconcile(_, _),  \* aspath_reconcile_as4(): AS_PATH and AS4_PATH merged
  Addresses,        \* addresses of packets
  MaxUpdates,       \* bound: UPDATEs
  MaxLookups        \* bound: lookups that find a route

\* an AS4_PATH comes with an AS_PATH
ASSUME RibAssumption ==
  /\ FourByte \subseteq Peers /\ \A p \in Peers : Bucket(p) \in Buckets
  /\ {MaxUpdates, MaxLookups} \subseteq Nat
  /\ \A u \in Updates : \A i \in DOMAIN u.attrs :
       u.attrs[i].type = "as4path" => \E j \in DOMAIN u.attrs : u.attrs[j].type = "aspath"

VARIABLES
  rib,       \* the tree
  refs,      \* reference counts: of attributes (attrhash), AS paths (ashash),
             \* communities (comhash)
  thread,    \* the BGP thread: what it does, for which peer, the attributes at hand,
             \* NLRI still to do, the node a walk is at
  core,      \* the core thread: the node in packet_ptrs, the lock it read, and whether
             \* the BGP thread has worked on the node since (history)
  adj,       \* history: what each peer announced last, by prefix
  lost,      \* history: references that were not given back
  raced,     \* history: the core stored a lock after that
  updates, lookups

vars == <<rib, refs, thread, core, adj, lost, raced, updates, lookups>>

NoAttr == [aspath |-> NULL, community |-> NULL, med |-> 0]
Quiet == [pc |-> "idle", peer |-> NULL, attr |-> NoAttr, todo |-> << >>, at |-> NULL]
NoPacket == [pc |-> "idle", node |-> NULL, lock |-> 0, met |-> FALSE]

Nets == UNION {ToSet(u.nlri) \cup ToSet(u.wd) \cup ToSet(u.mp_wd) : u \in Updates}

Init ==
  /\ rib = EmptyTable
  /\ refs = [attr |-> EmptyBag, aspath |-> EmptyBag, community |-> EmptyBag]
  /\ thread = Quiet /\ core = NoPacket
  /\ adj = [p \in Peers |-> [x \in Nets |-> NULL]]
  /\ lost = [aspath |-> EmptyBag, community |-> EmptyBag]
  /\ raced = FALSE /\ updates = 0 /\ lookups = 0

-----------------------------------------------------------------------------
(***************************************************************************)
(* Interning.  A value that is in the table gets one more reference, and   *)
(* leaves the table with its last one.                                     *)
(***************************************************************************)
AddAll(B, S) == FoldSet(LAMBDA x, b : BagAdd(b, x), B, S)
RemoveAll(B, S) == FoldSet(LAMBDA x, b : BagRemove(b, x), B, S)

\* the components of an attribute
Held(r, a) == [r EXCEPT !.aspath = AddAll(@, a.aspath), !.community = AddAll(@, a.community)]
LetGo(r, a) == [r EXCEPT !.aspath = RemoveAll(@, a.aspath),
                         !.community = RemoveAll(@, a.community)]

Intern(r, a) == [Held(r, a) EXCEPT !.attr = BagAdd(@, a)]

\* mutant: components go with the last reference to the attribute only
Unintern_WithLast(r, a) ==
  IF CopiesIn(a, r.attr) = 1 THEN [LetGo(r, a) EXCEPT !.attr = BagRemove(@, a)]
  ELSE [r EXCEPT !.attr = BagRemove(@, a)]

Unintern(r, a) == [LetGo(r, a) EXCEPT !.attr = BagRemove(@, a)]

-----------------------------------------------------------------------------
(***************************************************************************)
(* bgp_attr_parse(): components are interned as they come.  One that comes *)
(* again takes the place of the first, whose reference nobody gives back;  *)
(* so do those of a message that turns out to be malformed.  s: attributes *)
(* and references so far, the AS4_PATH, what was lost, whether all is well *)
(***************************************************************************)
Parsed0 == [attr |-> NoAttr, refs |-> refs, as4 |-> NULL, lost |-> lost, ok |-> TRUE]

ParseAttr(s, a) ==
  CASE ~s.ok -> s
    [] s.ok /\ a.type = "aspath" ->
         [s EXCEPT !.attr.aspath = {a.value}, !.refs.aspath = BagAdd(@, a.value),
                   !.lost.aspath = AddAll(@, s.attr.aspath)]
    [] s.ok /\ a.type = "as4path" ->
         [s EXCEPT !.as4 = {a.value}, !.refs.aspath = BagAdd(@, a.value),
                   !.lost.aspath = AddAll(@, s.as4)]
    [] s.ok /\ a.type = "community" ->
         [s EXCEPT !.attr.community = {a.value}, !.refs.community = BagAdd(@, a.value),
                   !.lost.community = AddAll(@, s.attr.community)]
    [] s.ok /\ a.type = "med" -> [s EXCEPT !.attr.med = a.value]
    [] s.ok /\ a.type = "malformed" ->
         [s EXCEPT !.ok = FALSE,
                   !.lost.aspath = AddAll(AddAll(@, s.attr.aspath), s.as4),
                   !.lost.community = AddAll(@, s.attr.community)]

\* mutant: the AS4_PATH is not given back
Merged_KeepsAs4(s, p) ==
  IF ~s.ok \/ s.as4 = NULL THEN s
  ELSE LET new == {Reconcile(x, y) : x \in s.attr.aspath, y \in s.as4}
       IN IF p \in FourByte THEN s
          ELSE [s EXCEPT !.attr.aspath = new,
                         !.refs.aspath = AddAll(RemoveAll(@, s.attr.aspath), new)]

\* bgp_attr_munge_as4path(), then the AS4_PATH is given back
Merged(s, p) ==
  IF ~s.ok \/ s.as4 = NULL THEN s
  ELSE LET new == {Reconcile(x, y) : x \in s.attr.aspath, y \in s.as4}
           s1  == IF p \in FourByte THEN s
                  ELSE [s EXCEPT !.attr.aspath = new,
                                 !.refs.aspath = AddAll(RemoveAll(@, s.attr.aspath), new)]
       IN [s1 EXCEPT !.refs.aspath = RemoveAll(@, s.as4)]

AttrParse(p, attrs) == Merged(FoldLeft(ParseAttr, Parsed0, attrs), p)

-----------------------------------------------------------------------------
(* Routes of a node.                                                       *)

Entry(p, a) == [peer |-> p, attr |-> a]

\* mutant: any route of the bucket will do
Own_Any(t, p, x) == ToSet(t.node[x].info[Bucket(p)])

\* the peer's routes in the bucket it is looked for in
Own(t, p, x) == {e \in ToSet(t.node[x].info[Bucket(p)]) : e.peer = p}

InfoAdd(t, x, e) ==
  LockNode([t EXCEPT !.node[x].info[Bucket(e.peer)] = <<e>> \o @], x)

InfoDelete(t, x, e) ==
  UnlockNode([t EXCEPT !.node[x].info[Bucket(e.peer)] = Remove(@, e)], x)

(***************************************************************************)
(* bgp_process_update(): the node is locked during the call.               *)
(***************************************************************************)
ProcessUpdate(p, x, a) ==
  LET t    == NodeGet(rib, x)
      have == Own(t, p, x)
      r    == Intern(refs, a)
      swap(e) == IF e \in have THEN Entry(p, a) ELSE e
      info == t.node[x].info[Bucket(p)]
  IN \/ /\ have = {}                              \* new
        /\ rib' = UnlockNode(InfoAdd(t, x, Entry(p, a)), x)
        /\ refs' = r
     \/ /\ \E e \in have : e.attr = a             \* the same again
        /\ rib' = UnlockNode(t, x)
        /\ refs' = Unintern(r, a)
     \/ /\ \E e \in have : e.attr # a             \* new attributes
        /\ rib' = UnlockNode([t EXCEPT !.node[x].info[Bucket(p)] =
                                [i \in DOMAIN info |-> swap(info[i])]], x)
        /\ refs' = Unintern(r, (CHOOSE e \in have : TRUE).attr)

(***************************************************************************)
(* bgp_process_withdraw(): a prefix nobody announced gets a node for the   *)
(* time of the call.                                                       *)
(***************************************************************************)
ProcessWithdraw(p, x) ==
  LET t    == NodeGet(rib, x)
      have == Own(t, p, x)
  IN \/ /\ have = {}
        /\ rib' = UnlockNode(t, x) /\ UNCHANGED refs
     \/ \E e \in have :
          /\ rib' = UnlockNode(InfoDelete(t, x, e), x)
          /\ refs' = Unintern(refs, e.attr)

-----------------------------------------------------------------------------
(***************************************************************************)
(* The BGP thread.  W: the nodes a step locks or unlocks.                  *)
(***************************************************************************)
Works(W) ==
  LET hit == W \cup (Nodes(rib) \ Nodes(rib'))
  IN core' = [core EXCEPT !.met = @ \/ (core.pc = "matched" /\ core.node \cap hit # {})]

Todo(u) ==
  LET each(op, s) == [i \in DOMAIN s |-> [op |-> op, prefix |-> s[i]]]
  IN each("withdraw", u.wd) \o each("update", u.nlri) \o each("withdraw", u.mp_wd)

\* bgp_peer_info_delete() starts at the top of the tree
StartWalk(p) ==
  /\ thread' = [Quiet EXCEPT !.pc = "close", !.peer = {p}, !.at = First(rib)]
  /\ rib' = LockAll(rib, First(rib))
  /\ Works(First(rib))

\* bgp_parse_update_msg() up to the NLRI; a malformed one closes the session
Receive(p, u) ==
  /\ ~rib.abort /\ thread.pc = "idle" /\ updates < MaxUpdates
  /\ updates' = updates + 1
  /\ \E s \in {AttrParse(p, u.attrs)} :
       /\ refs' = s.refs /\ lost' = s.lost
       /\ \/ ~s.ok /\ StartWalk(p)
          \/ /\ s.ok
             /\ thread' = [Quiet EXCEPT !.pc = "nlri", !.peer = {p}, !.attr = s.attr,
                                        !.todo = Todo(u)]
             /\ UNCHANGED <<rib, core>>
  /\ UNCHANGED <<adj, raced, lookups>>

\* bgp_nlri_parse(): one prefix
Process ==
  /\ ~rib.abort /\ thread.pc = "nlri" /\ thread.todo # << >>
  /\ \E p \in thread.peer, x \in {Head(thread.todo).prefix} :
       /\ IF Head(thread.todo).op = "update"
          THEN ProcessUpdate(p, x, thread.attr) /\ adj' = [adj EXCEPT ![p][x] = {thread.attr}]
          ELSE ProcessWithdraw(p, x) /\ adj' = [adj EXCEPT ![p][x] = NULL]
       /\ Works({x})
  /\ thread' = [thread EXCEPT !.todo = Tail(@)]
  /\ UNCHANGED <<lost, raced, updates, lookups>>

\* the references of the message are given back
UpdateDone ==
  /\ ~rib.abort /\ thread.pc = "nlri" /\ thread.todo = << >>
  /\ refs' = LetGo(refs, thread.attr)
  /\ thread' = Quiet
  /\ UNCHANGED <<rib, core, adj, lost, raced, updates, lookups>>

Disconnect(p) ==
  /\ ~rib.abort /\ thread.pc = "idle"
  /\ StartWalk(p)
  /\ UNCHANGED <<refs, adj, lost, raced, updates, lookups>>

\* the walk at one node: the peer's routes there go, then on to the next node
CloseStep ==
  /\ ~rib.abort /\ thread.pc = "close"
  /\ \E p \in thread.peer, n \in thread.at :
       \E gone \in {Own(rib, p, n)} :
         /\ rib' = RouteNext(FoldSet(LAMBDA e, t : InfoDelete(t, n, e), rib, gone), n)
         /\ refs' = FoldSet(LAMBDA e, r : Unintern(r, e.attr), refs, gone)
         /\ thread' = [thread EXCEPT !.at = Following(rib, n)]
         /\ Works({n} \cup Following(rib, n))
  /\ UNCHANGED <<adj, lost, raced, updates, lookups>>

CloseDone ==
  /\ ~rib.abort /\ thread.pc = "close" /\ thread.at = NULL
  /\ thread' = Quiet
  /\ adj' = [p \in Peers |-> IF p \in thread.peer THEN [x \in DOMAIN adj[p] |-> NULL]
                             ELSE adj[p]]
  /\ UNCHANGED <<rib, refs, core, lost, raced, updates, lookups>>

-----------------------------------------------------------------------------
(***************************************************************************)
(* The core thread, for one packet (bgp_srcdst_lookup()): the longest node *)
(* that the peer has a route for the address at, whose lock it counts up.  *)
(* Nobody counts that lock down again.                                     *)
(***************************************************************************)
Matches(t, p, addr) == {n \in Nodes(t) : IsPrefix(n, addr) /\ Own(t, p, n) # {}}

Match(p, addr) ==
  /\ ~rib.abort /\ core.pc = "idle" /\ lookups < MaxLookups
  /\ \E n \in Longest(Matches(rib, p, addr)) :
       core' = [NoPacket EXCEPT !.pc = "matched", !.node = {n}, !.lock = rib.node[n].lock]
  /\ lookups' = lookups + 1
  /\ UNCHANGED <<rib, refs, thread, adj, lost, raced, updates>>

\* mutant: the node that was found is not locked
Stored_NoLock(n) == {rib.node[n].lock}

\* lock++ is a load and a store: of two that overlap, either may win
Stored(n) ==
  IF core.met THEN {core.lock + 1, rib.node[n].lock, rib.node[n].lock + 1}
  ELSE {core.lock + 1}

StoreLock ==
  /\ ~rib.abort /\ core.pc = "matched"
  /\ \/ \E n \in core.node \cap Nodes(rib) : \E v \in Stored(n) :
          /\ rib' = [rib EXCEPT !.node[n].lock = v, !.node[n].looks = @ + 1]
     \/ core.node \cap Nodes(rib) = {} /\ UNCHANGED rib     \* into a freed node
  /\ core' = [core EXCEPT !.pc = "held"]
  /\ raced' = (raced \/ core.met)
  /\ UNCHANGED <<refs, thread, adj, lost, updates, lookups>>

\* the packet's primitives are filled in, from the node among others
PacketDone ==
  /\ core.pc = "held" /\ core' = NoPacket
  /\ UNCHANGED <<rib, refs, thread, adj, lost, raced, updates, lookups>>

-----------------------------------------------------------------------------
BgpThread ==
  \/ \E p \in Peers, u \in Updates : Receive(p, u)
  \/ Process \/ UpdateDone \/ CloseStep \/ CloseDone
  \/ \E p \in Peers : Disconnect(p)

CoreThread ==
  \/ \E p \in Peers, addr \in Addresses : Match(p, addr)
  \/ StoreLock \/ PacketDone

Next == BgpThread \/ CoreThread

Spec == Init /\ [][Next]_vars

-----------------------------------------------------------------------------
(***************************************************************************)
(* What it is for.                                                         *)
(***************************************************************************)
Closing == IF thread.pc = "close" THEN thread.peer ELSE {}

HasRoutes(p, x, A) ==
  {e.attr : e \in {r \in UNION {Routes(rib, n) : n \in Nodes(rib) \cap {x}} : r.peer = p}} = A

\* The RIB holds of every peer what it announced last and has not withdrawn, once and
\* in its own bucket; of a peer whose session has ended nothing is left when the walk
\* of bgp_peer_info_delete() ends, whatever nodes it removes under itself.
RibIsAdj ==
  /\ \A p \in Peers \ Closing, x \in Nets : HasRoutes(p, x, adj[p][x])
  /\ thread.pc = "close" /\ thread.at = NULL =>
       \A p \in thread.peer, x \in Nets : HasRoutes(p, x, {})
  /\ \A n \in Nodes(rib), k \in Buckets :
       LET info == rib.node[n].info[k]
       IN \A i, j \in DOMAIN info :
            Bucket(info[i].peer) = k /\ (info[i].peer = info[j].peer => i = j)

AllRoutes == UNION {{<<n, e>> : e \in Routes(rib, n)} : n \in Nodes(rib)}
RoutesWith(a) == {r \in AllRoutes : r[2].attr = a}

\* references to value v, kept in the given field, of the message being done, of the
\* attributes and of parses that lost it
Due(field, v) ==
  LET of(a)   == IF v \in a[field] THEN 1 ELSE 0
      held    == MapThenSumSet(LAMBDA a : of(a) * CopiesIn(a, refs.attr), DOMAIN refs.attr)
  IN held + of(thread.attr) + CopiesIn(v, lost[field])

\* Reference counts are exact: an interned attribute counts the routes that have it, an
\* AS path or community the references of those attributes to it, of the message being
\* done, and what parsing lost.  So an object is freed with its last reference, and not
\* before, however announcements, replacements, withdrawals and closings share it.
RefsExact ==
  /\ \A a \in DOMAIN refs.attr \cup {r[2].attr : r \in AllRoutes} :
       CopiesIn(a, refs.attr) = Cardinality(RoutesWith(a))
  /\ \A field \in {"aspath", "community"} :
       \A v \in DOMAIN refs[field] \cup UNION {a[field] : a \in DOMAIN refs.attr} :
         CopiesIn(v, refs[field]) = Due(field, v)

\* each node hangs where its bits say, and every node is reached from the top
Linked ==
  /\ \A n \in Nodes(rib), b \in Bits : \A c \in rib.node[n].link[b] :
       /\ c \in Nodes(rib) /\ IsStrictPrefix(n, c) /\ BitAt(n, c) = b
       /\ rib.node[c].parent = {n}
  /\ \A n \in Nodes(rib) :
       IF rib.node[n].parent = NULL THEN rib.top = {n}
       ELSE \E m \in rib.node[n].parent : m \in Nodes(rib) /\ n \in Children(rib, m)
  /\ rib.count = Cardinality(Nodes(rib))

\* a lock counts the routes, the walk and the lookups; what has none is a branching
Counted ==
  \A n \in Nodes(rib) :
    LET node == rib.node[n]
        walk == IF n \in thread.at THEN 1 ELSE 0
    IN /\ node.lock = Cardinality(Routes(rib, n)) + walk + node.looks
       /\ node.lock = 0 => Cardinality(Children(rib, n)) = 2

\* The tree keeps its shape, and no node longer than somebody needs it, nor shorter: the
\* node of the packet the core thread works on stays.  An assertion of bgp_node_delete()
\* can fail, and a lock be wrong, only after the core thread's unlocked lock++ has met
\* the BGP thread's work on the same node.
TreeSound ==
  /\ Linked
  /\ ~raced => Counted /\ ~rib.abort
  /\ ~raced /\ ~core.met => core.node \subseteq Nodes(rib)
=============================================================================
