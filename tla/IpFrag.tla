------------------------------- MODULE IpFrag -------------------------------
(***************************************************************************)
(* The IPv4 fragment table (ip_frag.c): buckets of nodes, a list of all    *)
(* nodes in the order in which they were created or recycled (lru_list),   *)
(* a budget of nodes, scheduled and emergency prunes.  The IPv6 half is    *)
(* the same code over other headers.                                       *)
(*                                                                         *)
(* The table is one record, so that a handler that prunes, searches and    *)
(* creates in turn is a composition of operators on it.  A datagram is     *)
(* known to the code by its key (id, addresses, protocol); a sender uses a *)
(* key again for a later datagram, told apart here by when it started.     *)
(***************************************************************************)
EXTENDS Capture

CONSTANTS
  Keys,                 \* ip_id, ip_src, ip_dst, ip_p of a datagram
  FragBuckets,          \* IPFT_HASHSZ buckets
  HashFragment(_),      \* hash_fragment(): the bucket of a key
  FragNodes,            \* ipft_total_nodes at start
  IPF_TIMEOUT,
  PRUNE_INTERVAL,
  EMER_PRUNE_INTERVAL,
  PRUNE_OFFSET

ASSUME FragAssumption ==
  /\ Keys \subseteq Nat \ {0}
  /\ \A k \in Keys : HashFragment(k) \in FragBuckets
  /\ FragNodes \in Nat /\ IPF_TIMEOUT \in Nat \ {0}
  /\ {PRUNE_INTERVAL, EMER_PRUNE_INTERVAL, PRUNE_OFFSET} \subseteq Nat

VARIABLES
  frag,           \* the fragment table
  pruneDeadline,  \* prune_deadline
  emergency,      \* emergency_prune
  sent,           \* history: key -> the last datagram seen: when it started, its
                  \* last fragment, its bytes seen before the first fragment
  answer          \* what the last call told its caller

fragVars == <<frag, pruneDeadline, emergency, sent, answer>>

NodeIds == 1 .. FragNodes
NoKey == 0
NoHdr == <<NoKey, 0>>

(***************************************************************************)
(* A node's tlhdr stands for the datagram whose first fragment it was      *)
(* copied from.  carried: history, the node was recycled with got_first    *)
(* set and not by a first fragment.                                        *)
(***************************************************************************)
NewNode == [key |-> NoKey, got_first |-> FALSE, tlhdr |-> NoHdr, a |-> 0,
            pa |-> 0, deadline |-> 0, carried |-> FALSE]

\* stale: lru_list.root->lru_next still points at a node that was freed;
\* wild: it was followed, and what happens from then on is undefined
EmptyTable ==
  [chain |-> [b \in FragBuckets |-> << >>], lru |-> << >>,
   node |-> [n \in NodeIds |-> NewNode], left |-> FragNodes, stale |-> FALSE,
   wild |-> FALSE]

\* what find_fragment() leaves in packet_ptrs, with what it ought to be
NoAnswer == [ret |-> FALSE, tlhdr |-> NoHdr, sum_bytes |-> 0, sum_pkts |-> 0,
             skipped |-> FALSE, carried |-> FALSE,
             own |-> NoHdr, early |-> 0, at |-> 0]

FragInit ==
  /\ frag = EmptyTable
  /\ pruneDeadline = now + PRUNE_INTERVAL
  /\ emergency = 0
  /\ sent = [k \in Keys |-> [start |-> 0, at |-> 0, early |-> 0]]
  /\ answer = NoAnswer

-----------------------------------------------------------------------------
InTable(t) == Range(t.lru)

(***************************************************************************)
(* The network: a key is not used again while fragments of its previous    *)
(* datagram can be on the way, so a fragment that comes IPF_TIMEOUT or     *)
(* more after the last one of its key belongs to a new datagram.           *)
(***************************************************************************)
Arriving(k) == IF now < sent[k].at + IPF_TIMEOUT THEN sent[k]
               ELSE [start |-> now, at |-> now, early |-> 0]
Datagram(k) == <<k, Arriving(k).start>>

(***************************************************************************)
(* prune_old_fragments(): frees nodes from the old end of the list up to   *)
(* the first that is not stale.                                            *)
(***************************************************************************)
\* the leading nodes of the list that are past d
Stale(t, d) ==
  {t.lru[i] : i \in {j \in DOMAIN t.lru :
                       \A h \in 1 .. j : d > t.node[t.lru[h]].deadline}}

\* mutant: the list is emptied without giving the nodes back
Prune_KeepsBudget(t, d) ==
  LET gone == Stale(t, d)
      keep == NodeIds \ gone
      rest == Kept(t.lru, keep)
  IN [t EXCEPT !.chain = [b \in FragBuckets |-> Kept(t.chain[b], keep)],
               !.lru = rest,
               !.node = [n \in NodeIds |-> IF n \in gone THEN NewNode ELSE t.node[n]],
               !.stale = IF rest = << >> THEN gone # {} \/ t.stale ELSE FALSE]

\* mutant: the node that ends the walk is given back as well
Prune_OneMore(t, d) ==
  LET gone == Stale(t, d)
      keep == NodeIds \ gone
      rest == Kept(t.lru, keep)
  IN [t EXCEPT !.chain = [b \in FragBuckets |-> Kept(t.chain[b], keep)],
               !.lru = rest,
               !.node = [n \in NodeIds |-> IF n \in gone THEN NewNode ELSE t.node[n]],
               !.left = @ + Cardinality(gone) + 1,
               !.stale = IF rest = << >> THEN gone # {} \/ t.stale ELSE FALSE]

Prune(t, d) ==
  LET gone == Stale(t, d)
      keep == NodeIds \ gone
      rest == Kept(t.lru, keep)
  IN [t EXCEPT !.chain = [b \in FragBuckets |-> Kept(t.chain[b], keep)],
               !.lru = rest,
               !.node = [n \in NodeIds |-> IF n \in gone THEN NewNode ELSE t.node[n]],
               !.left = @ + Cardinality(gone),
               !.stale = IF rest = << >> THEN gone # {} \/ t.stale ELSE FALSE]

(***************************************************************************)
(* find_fragment(): the first node of the bucket with the key ends the     *)
(* search; before it, the first node past its deadline is kept in mind as  *)
(* a candidate for recycling.                                              *)
(***************************************************************************)
Hits(t, k) == {i \in DOMAIN t.chain[HashFragment(k)] :
                 t.node[t.chain[HashFragment(k)][i]].key = k}

\* mutant: a node that expires in this very second still counts
Valid_AtDeadline(t, n) == t.node[n].deadline >= now

Valid(t, n) == t.node[n].deadline > now

Match(t, k) == t.chain[HashFragment(k)][Min(Hits(t, k))]
Matched(t, k) == Hits(t, k) # {} /\ Valid(t, Match(t, k))

Expired(t, k) ==
  {i \in DOMAIN t.chain[HashFragment(k)] :
     t.node[t.chain[HashFragment(k)][i]].deadline < now}

\* the node create_fragment() is told to recycle, if any
Candidate(t, k) ==
  IF Hits(t, k) # {} THEN {Match(t, k)}
  ELSE IF Expired(t, k) # {} THEN {t.chain[HashFragment(k)][Min(Expired(t, k))]}
  ELSE {}

\* a fragment of a datagram whose first one has not been seen
Account(nd, len) == [nd EXCEPT !.pa = @ + 1, !.a = @ + len]

(***************************************************************************)
(* The fragment of a datagram that has a node: it is given the ports of    *)
(* the first fragment, is that fragment, or is put by.                     *)
(***************************************************************************)
Found(t, k, first, len) ==
  LET n  == Match(t, k)
      nd == t.node[n]
  IN IF nd.got_first
     THEN [tab |-> t,
           ans |-> [NoAnswer EXCEPT !.ret = TRUE, !.tlhdr = nd.tlhdr,
                                    !.own = Datagram(k), !.carried = nd.carried]]
     ELSE IF first
     THEN [tab |-> [t EXCEPT !.node[n] = [@ EXCEPT !.got_first = TRUE,
                                                   !.tlhdr = Datagram(k),
                                                   !.a = 0, !.pa = 0]],
           ans |-> [NoAnswer EXCEPT !.ret = TRUE, !.tlhdr = Datagram(k),
                                    !.own = Datagram(k), !.sum_bytes = nd.a,
                                    !.sum_pkts = nd.pa, !.early = Arriving(k).early]]
     ELSE [tab |-> [t EXCEPT !.node[n] = Account(@, len)], ans |-> NoAnswer]

(***************************************************************************)
(* create_fragment(): a node is recycled, which takes it to the young end  *)
(* of the list, or allocated.  Only an allocated one is cleared; a and pa  *)
(* of a recycled one differ in that a is set and pa incremented.           *)
(***************************************************************************)
\* mutant: a recycled node keeps its place in the list
Placed_InPlace(t, k, recycle, n) ==
  IF recycle # {} THEN t
  ELSE [t EXCEPT !.lru = Append(@, n),
                 !.chain[HashFragment(k)] = Append(@, n),
                 !.node[n] = NewNode, !.left = @ - 1, !.stale = FALSE]

\* mutant: the root is not linked to a new node
Placed_Unlinked(t, k, recycle, n) ==
  IF recycle # {}
  THEN [t EXCEPT !.lru = Append(Kept(@, NodeIds \ {n}), n)]
  ELSE [t EXCEPT !.lru = Append(@, n),
                 !.chain[HashFragment(k)] = Append(@, n),
                 !.node[n] = NewNode, !.left = @ - 1]

Placed(t, k, recycle, n) ==
  IF recycle # {}
  THEN [t EXCEPT !.lru = Append(Kept(@, NodeIds \ {n}), n)]
  ELSE [t EXCEPT !.lru = Append(@, n),
                 !.chain[HashFragment(k)] = Append(@, n),
                 !.node[n] = NewNode, !.left = @ - 1, !.stale = FALSE]

\* mutant: the bytes of a recycled node are kept
Started_Adds(nd, k, first, len) ==
  IF first THEN [nd EXCEPT !.got_first = TRUE, !.tlhdr = Datagram(k),
                           !.carried = FALSE]
  ELSE [nd EXCEPT !.pa = @ + 1, !.a = @ + len, !.carried = nd.got_first]

Started(nd, k, first, len) ==
  IF first THEN [nd EXCEPT !.got_first = TRUE, !.tlhdr = Datagram(k),
                           !.carried = FALSE]
  ELSE [nd EXCEPT !.pa = @ + 1, !.a = len, !.carried = nd.got_first]

Create(t, k, first, len) ==
  LET recycle == Candidate(t, k)
      n == IF recycle # {} THEN Min(recycle) ELSE Min(NodeIds \ InTable(t))
      p == Placed(t, k, recycle, n)
  IN [tab |-> [p EXCEPT !.node[n] =
                 Started([@ EXCEPT !.deadline = now + IPF_TIMEOUT, !.key = k],
                         k, first, len)],
      ans |-> IF ~first THEN NoAnswer
              ELSE [NoAnswer EXCEPT !.ret = TRUE, !.tlhdr = Datagram(k),
                                    !.own = Datagram(k)]]

\* "Fragment/4 buffer full. Skipping fragments.", with a prune now and then
MustPrune == now > emergency + EMER_PRUNE_INTERVAL

\* mutant: the emergency prune keeps the grace period of the scheduled one
Skipped_Grace(t) ==
  [tab |-> IF MustPrune THEN Prune(t, now - PRUNE_OFFSET) ELSE t,
   ans |-> [NoAnswer EXCEPT !.skipped = TRUE, !.at = now]]

Skipped(t) ==
  [tab |-> IF MustPrune THEN Prune(t, now) ELSE t,
   ans |-> [NoAnswer EXCEPT !.skipped = TRUE, !.at = now]]

-----------------------------------------------------------------------------
Due == now > pruneDeadline
Swept == IF Due THEN Prune(frag, now - PRUNE_OFFSET) ELSE frag

(***************************************************************************)
(* A prune that starts from a freed node, in the scheduled prune or, if    *)
(* the fragment is going to be skipped, in the emergency one.              *)
(***************************************************************************)
Wild(skip) == (frag.stale /\ Due) \/ (skip /\ Swept.stale /\ MustPrune)

\* history: what has arrived of the datagram
Seen(k, first, len) ==
  sent' = [sent EXCEPT ![k] = [Arriving(k) EXCEPT !.at = now,
                                 !.early = IF first THEN 0 ELSE @ + len]]

(***************************************************************************)
(* ip_fragment_handler(): the scheduled prune, then find_fragment().       *)
(***************************************************************************)
FragFound(k, first, len) ==
  /\ Matched(Swept, k) /\ ~Wild(FALSE)
  /\ LET r == Found(Swept, k, first, len)
     IN frag' = r.tab /\ answer' = r.ans
  /\ UNCHANGED emergency

FragCreate(k, first, len) ==
  /\ ~Matched(Swept, k) /\ Swept.left > 0 /\ ~Wild(FALSE)
  /\ LET r == Create(Swept, k, first, len)
     IN frag' = r.tab /\ answer' = r.ans
  /\ UNCHANGED emergency

NoRoom(k) == Swept.left = 0 \/ (MallocFails /\ Candidate(Swept, k) = {})

FragSkip(k, first, len) ==
  /\ ~Matched(Swept, k) /\ ~Wild(TRUE)
  /\ NoRoom(k)
  /\ LET r == Skipped(Swept)
     IN frag' = r.tab /\ answer' = r.ans
  /\ emergency' = IF MustPrune THEN now ELSE emergency

FragUndefined(k) ==
  /\ Wild(~Matched(Swept, k) /\ NoRoom(k))
  /\ frag' = [frag EXCEPT !.wild = TRUE]
  /\ UNCHANGED <<emergency, answer>>

FragHandler(k, first, len) ==
  /\ ~frag.wild
  /\ \/ FragFound(k, first, len) \/ FragCreate(k, first, len)
     \/ FragSkip(k, first, len) \/ FragUndefined(k)
  /\ pruneDeadline' = IF Due THEN now + PRUNE_INTERVAL ELSE pruneDeadline
  /\ Seen(k, first, len)

FragTypeOK ==
  /\ frag.chain \in [FragBuckets -> Seq(NodeIds)]
  /\ frag.lru \in Seq(NodeIds) /\ frag.left \in 0 .. FragNodes
  /\ {frag.stale, frag.wild} \subseteq BOOLEAN
  /\ frag.node \in [NodeIds -> [key : Keys \cup {NoKey}, got_first : BOOLEAN,
                                tlhdr : (Keys \X Nat) \cup {NoHdr}, a : Nat, pa : Nat,
                                deadline : Nat, carried : BOOLEAN]]
  /\ pruneDeadline \in Nat /\ emergency \in Nat
  /\ sent \in [Keys -> [start : Nat, at : Nat, early : Nat]]

-----------------------------------------------------------------------------
\* The buckets and the list hold the same nodes, each once and in the bucket of
\* its key, no key has two nodes, and the budget is what is left: prunes,
\* recycled nodes and failed allocations never leak one.
FragAccounted ==
  /\ \A i, j \in DOMAIN frag.lru : frag.lru[i] = frag.lru[j] => i = j
  /\ frag.left + Len(frag.lru) = FragNodes
  /\ InTable(frag) = UNION {Range(frag.chain[b]) : b \in FragBuckets}
  /\ \A b \in FragBuckets : \A i, j \in DOMAIN frag.chain[b] :
       /\ HashFragment(frag.node[frag.chain[b][i]].key) = b
       /\ frag.node[frag.chain[b][i]].key = frag.node[frag.chain[b][j]].key => i = j

\* The list is ordered by deadline although nodes are recycled in any order:
\* prune_old_fragments() may stop at the first node that is not stale.
LruSorted ==
  \A i, j \in DOMAIN frag.lru :
    i < j => frag.node[frag.lru[i]].deadline <= frag.node[frag.lru[j]].deadline

\* A fragment is given the ports of the first fragment of its own datagram, not
\* those of an older datagram with the same key or in the same node, unless the
\* node was recycled with got_first set (create_fragment() does not clear it).
OwnPorts == answer.ret /\ ~answer.carried => answer.tlhdr = answer.own

\* The bytes handed over with a first fragment (frag_sum_bytes) are bytes of its
\* own datagram that came earlier, never those of the node's previous owner.
OwnBytes == answer.sum_bytes <= answer.early

\* The root of the list is left pointing at a freed node only between a prune
\* that emptied the table and the next fragment that is not refused: any other
\* call heals it, so that only a prune directly after a refusal can follow it.
StaleRootAfterSkip == frag.stale => answer.skipped

\* Fragments are refused for lack of room only while no node is past its deadline
\* by more than EMER_PRUNE_INTERVAL: dead nodes do not block the table for longer.
RefusedOnlyFull ==
  answer.skipped /\ answer.at = now =>
    \A n \in InTable(frag) : frag.node[n].deadline + EMER_PRUNE_INTERVAL >= now
=============================================================================
