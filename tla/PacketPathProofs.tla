--------------------------- MODULE PacketPathProofs ---------------------------
(***************************************************************************)
(* What holds of the tables of the packet daemons for every number of      *)
(* nodes, buckets and packets, every hash function and every set of        *)
(* lifetimes: buckets, lists and budgets agree (TablesSound), fragments    *)
(* get what is of their own datagram (OwnFragments), full tables are not   *)
(* full of dead nodes (RoomKept), classes are earned (ClassesEarned) and   *)
(* flows are counted once (FlowsExact).                                    *)
(***************************************************************************)
EXTENDS PacketPath, TableFacts

-----------------------------------------------------------------------------
(* The fragment table as a value *)

FragNodeRec == [key : Keys \cup {NoKey}, got_first : BOOLEAN,
                tlhdr : (Keys \X Nat) \cup {NoHdr}, a : Nat, pa : Nat,
                deadline : Nat, carried : BOOLEAN]
FragRec == [chain : [FragBuckets -> Seq(NodeIds)], lru : Seq(NodeIds),
            node : [NodeIds -> FragNodeRec], left : Nat, stale : BOOLEAN,
            wild : BOOLEAN]

Homes(node) == [n \in NodeIds |-> HashFragment(node[n].key)]
Deadlines(node) == [n \in NodeIds |-> node[n].deadline]

\* what holds of a table in the middle of a handler as well
FragOK(t) ==
  /\ t \in FragRec
  /\ Filed(t.chain, t.lru, Homes(t.node), FragBuckets, NodeIds)
  /\ t.left + Len(t.lru) = FragNodes
  /\ \A m, n \in InTable(t) : t.node[m].key = t.node[n].key => m = n
  /\ \A n \in InTable(t) : /\ t.node[n].key \in Keys
                           /\ t.node[n].got_first => t.node[n].tlhdr \in Keys \X Nat
  /\ Ascending(t.lru, Deadlines(t.node))
  /\ t.stale => t.lru = << >>

\* The nodes of a table are nodes, and one that is not in it is there for
\* create_fragment() while the budget is not used up.
LEMMA FragRoom ==
  ASSUME NEW t, FragOK(t)
  PROVE  /\ InTable(t) \subseteq NodeIds /\ Len(t.lru) \in Nat
         /\ t.left > 0 => /\ Min(NodeIds \ InTable(t)) \in NodeIds
                          /\ Min(NodeIds \ InTable(t)) \notin InTable(t)
PROOF
  <1>1. t.lru \in Seq(NodeIds) /\ t.left \in Nat /\ t.left + Len(t.lru) = FragNodes
        /\ FragNodes \in Nat
    BY FragAssumption DEF FragOK, FragRec
  <1>2. /\ InTable(t) \subseteq NodeIds /\ Cardinality(InTable(t)) <= Len(t.lru)
        /\ IsFiniteSet(InTable(t)) /\ Cardinality(InTable(t)) \in Nat
    BY <1>1, RangeOf DEF InTable
  <1>3. Len(t.lru) \in Nat
    BY <1>1, LenProperties
  <1>4. ASSUME t.left > 0 PROVE NodeIds \ InTable(t) # {}
    <2>1. SUFFICES ASSUME NodeIds = InTable(t) PROVE FALSE
      BY <1>2
    <2>2. Cardinality(NodeIds) = FragNodes
      BY <1>1, FS_Interval DEF NodeIds
    <2> QED
      BY <1>1, <1>2, <1>3, <1>4, <2>1, <2>2
  <1>5. ASSUME t.left > 0 PROVE Min(NodeIds \ InTable(t)) \in NodeIds \ InTable(t)
    <2>1. NodeIds \ InTable(t) \subseteq Nat
      BY DEF NodeIds
    <2> QED
      BY <1>4, <1>5, <2>1, MinOf
  <1> QED
    BY <1>2, <1>3, <1>5

\* prune_old_fragments() leaves a table, with the nodes it had that are not past d.
LEMMA PruneKeeps ==
  ASSUME NEW t, FragOK(t), NEW d \in Int
  PROVE  LET u == Prune(t, d)
         IN /\ FragOK(u) /\ InTable(u) \subseteq InTable(t) /\ u.wild = t.wild
            /\ \A n \in InTable(u) : u.node[n] = t.node[n] /\ t.node[n].deadline >= d
PROOF
  <1> DEFINE gone == Stale(t, d)
             keep == NodeIds \ gone
             rest == Kept(t.lru, keep)
             node == [n \in NodeIds |-> IF n \in gone THEN NewNode ELSE t.node[n]]
             u == Prune(t, d)
  <1>0. /\ t \in FragRec /\ t.lru \in Seq(NodeIds) /\ t.left \in Nat
        /\ t.node \in [NodeIds -> FragNodeRec]
    BY DEF FragOK, FragRec
  <1>1. /\ u.chain = KeptIn(t.chain, FragBuckets, keep) /\ u.lru = rest /\ u.node = node
        /\ u.left = t.left + Cardinality(gone) /\ u.wild = t.wild
        /\ u.stale = (IF rest = << >> THEN gone # {} \/ t.stale ELSE FALSE)
    BY <1>0 DEF FragRec, Prune, KeptIn
  <1>2. DOMAIN u = DOMAIN t
    BY <1>0 DEF FragRec, Prune
  <1>3. gone \in SUBSET InTable(t)
    BY DEF Stale, InTable, Range
  <1>4. Filed(t.chain, t.lru, Homes(t.node), FragBuckets, NodeIds)
    BY DEF FragOK
  <1>5. /\ Filed(KeptIn(t.chain, FragBuckets, keep), rest, Homes(t.node), FragBuckets, NodeIds)
        /\ Range(rest) = Range(t.lru) \ gone
        /\ Cardinality(gone) \in Nat /\ Len(rest) \in Nat
        /\ Len(rest) + Cardinality(gone) = Len(t.lru)
    BY <1>3, <1>4, FiledWithout DEF InTable
  <1>6. \A n \in NodeIds : n \notin gone => node[n] = t.node[n]
    BY <1>0
  <1>7. NewNode \in FragNodeRec
    BY DEF NewNode, FragNodeRec
  <1>8. node \in [NodeIds -> FragNodeRec]
    BY <1>0, <1>7
  <1>9. u \in FragRec
    <2>1. /\ u.chain \in [FragBuckets -> Seq(NodeIds)] /\ u.lru \in Seq(NodeIds)
          /\ u.node \in [NodeIds -> FragNodeRec] /\ u.left \in Nat
          /\ u.stale \in BOOLEAN /\ u.wild \in BOOLEAN
      <3>1. t.stale \in BOOLEAN /\ t.wild \in BOOLEAN
        BY <1>0 DEF FragRec
      <3>2. (IF rest = << >> THEN gone # {} \/ t.stale ELSE FALSE) \in BOOLEAN
        BY <3>1
      <3> HIDE DEF u, node, rest, gone
      <3>3. u.stale \in BOOLEAN /\ u.wild \in BOOLEAN
        BY <1>1, <3>1, <3>2
      <3>4. u.chain \in [FragBuckets -> Seq(NodeIds)] /\ u.lru \in Seq(NodeIds)
        BY <1>1, <1>5 DEF Filed
      <3>5. u.node \in [NodeIds -> FragNodeRec] /\ u.left \in Nat
        BY <1>0, <1>1, <1>5, <1>8
      <3> QED
        BY <3>3, <3>4, <3>5
    <2> HIDE DEF node, rest, gone, keep
    <2>2. u = [t EXCEPT !.chain = u.chain, !.lru = u.lru, !.node = u.node,
                        !.left = u.left, !.stale = u.stale]
      BY <1>0, <1>1 DEF Prune, FragRec
    <2> HIDE DEF u
    <2> QED
      BY <1>0, <2>1, <2>2 DEF FragRec
  <1>10. /\ InTable(u) = InTable(t) \ gone /\ InTable(t) \subseteq NodeIds
         /\ \A n \in InTable(u) : u.node[n] = t.node[n]
    <2> HIDE DEF node, rest, gone, u
    <2>1. InTable(t) \subseteq NodeIds
      BY FragRoom
    <2> QED
      BY <1>1, <1>5, <1>6, <2>1 DEF InTable
  <1>11. Filed(u.chain, u.lru, Homes(u.node), FragBuckets, NodeIds)
    <2> DEFINE h == Homes(t.node)
               g == Homes(u.node)
    <2>1. \A n \in Range(u.lru) : g[n] = h[n]
      BY <1>10 DEF InTable, Homes
    <2> HIDE DEF u, node, rest, gone, h, g
    <2>2. Filed(u.chain, u.lru, h, FragBuckets, NodeIds)
      BY <1>1, <1>5 DEF h
    <2>3. Filed(u.chain, u.lru, g, FragBuckets, NodeIds)
      BY <2>1, <2>2, FiledSame
    <2> QED
      BY <2>3 DEF g
  <1>12. Ascending(u.lru, Deadlines(u.node))
    <2> DEFINE f == Deadlines(t.node)
               g == Deadlines(u.node)
    <2>1. \A n \in Range(u.lru) : g[n] = f[n]
      BY <1>10 DEF InTable, Deadlines
    <2>2. Ascending(t.lru, f)
      BY DEF FragOK
    <2> HIDE DEF u, node, rest, gone, keep, f, g
    <2>3. \A q : Ascending(t.lru, q) => Ascending(Kept(t.lru, keep), q)
      BY <1>0, KeptAscending
    <2>4. Ascending(u.lru, f)
      BY <1>1, <2>2, <2>3 DEF rest
    <2>5. Ascending(u.lru, g)
      BY <2>1, <2>4, AscendingSame
    <2> QED
      BY <2>5 DEF g
  <1>13. \A n \in InTable(u) : t.node[n].deadline >= d
    <2>1. /\ \A i, j \in DOMAIN t.lru : i < j =>
               t.node[t.lru[i]].deadline <= t.node[t.lru[j]].deadline
          /\ DOMAIN t.lru = 1 .. Len(t.lru) /\ Len(t.lru) \in Nat
          /\ \A i \in DOMAIN t.lru : t.node[t.lru[i]].deadline \in Nat
      <3>1. /\ DOMAIN t.lru = 1 .. Len(t.lru) /\ Len(t.lru) \in Nat
            /\ \A i \in DOMAIN t.lru : t.lru[i] \in NodeIds
        BY <1>0, LenProperties
      <3>2. \A n \in NodeIds : t.node[n].deadline \in Nat
        BY <1>0 DEF FragNodeRec
      <3>3. \A i, j \in DOMAIN t.lru : i < j =>
              t.node[t.lru[i]].deadline <= t.node[t.lru[j]].deadline
        BY <3>1 DEF FragOK, Ascending, Deadlines
      <3> QED
        BY <3>1, <3>2, <3>3
    <2>2. ASSUME NEW i \in DOMAIN t.lru, t.lru[i] \notin gone
          PROVE  t.node[t.lru[i]].deadline >= d
      <3>1. PICK h \in 1 .. i : ~(d > t.node[t.lru[h]].deadline)
        BY <2>2 DEF Stale
      <3>2. h \in DOMAIN t.lru /\ (h = i \/ h < i)
        BY <2>1, <2>2, <3>1
      <3> QED
        BY <2>1, <2>2, <3>1, <3>2
    <2>3. \A n \in InTable(t) : \E i \in DOMAIN t.lru : n = t.lru[i]
      BY DEF InTable, Range
    <2> HIDE DEF u, node, rest, gone
    <2> QED
      BY <1>10, <2>2, <2>3
  <1>14. u.left + Len(u.lru) = FragNodes
    <2> HIDE DEF u, node, rest, gone
    <2> QED
      BY <1>0, <1>1, <1>5 DEF FragOK
  <1>15. u.stale => u.lru = << >>
    <2> HIDE DEF u, node, rest, gone
    <2> QED
      BY <1>1
  <1> HIDE DEF u
  <1> QED
    BY <1>1, <1>9, <1>10, <1>11, <1>12, <1>13, <1>14, <1>15 DEF u, FragOK

\* The bucket of a key holds the nodes of that hash, the one with the key if there
\* is one, and whatever find_fragment() chooses to match or to recycle.
LEMMA FragBucket ==
  ASSUME NEW t, FragOK(t), NEW k \in Keys
  PROVE  /\ \A m \in InTable(t) : t.node[m].key = k => Hits(t, k) # {} /\ m = Match(t, k)
         /\ Hits(t, k) # {} => Match(t, k) \in InTable(t) /\ t.node[Match(t, k)].key = k
         /\ Candidate(t, k) # {} =>
              LET n == Min(Candidate(t, k))
              IN n \in InTable(t) /\ HashFragment(t.node[n].key) = HashFragment(k)
         /\ Candidate(t, k) # {} /\ Hits(t, k) # {} =>
              Min(Candidate(t, k)) = Match(t, k)
         /\ Candidate(t, k) = {} => Hits(t, k) = {}
PROOF
  <1> DEFINE b == HashFragment(k)
             c == t.chain[b]
  <1>0. /\ t.lru \in Seq(NodeIds) /\ b \in FragBuckets /\ c \in Seq(NodeIds)
        /\ DOMAIN c = 1 .. Len(c) /\ Len(c) \in Nat
        /\ Range(c) = {n \in InTable(t) : Homes(t.node)[n] = b}
        /\ InTable(t) \subseteq NodeIds
    <2>1. b \in FragBuckets
      BY FragAssumption
    <2>2. c \in Seq(NodeIds) /\ Range(c) = {n \in InTable(t) : Homes(t.node)[n] = b}
      BY <2>1 DEF FragOK, Filed, InTable
    <2> QED
      BY <2>1, <2>2, LenProperties, FragRoom DEF FragOK, FragRec
  <1>1. \A n \in InTable(t) : n \in Range(c) <=> HashFragment(t.node[n].key) = b
    BY <1>0 DEF Homes
  <1>2. \A i \in DOMAIN c : c[i] \in InTable(t) /\ HashFragment(t.node[c[i]].key) = b
    <2>1. \A i \in DOMAIN c : c[i] \in Range(c)
      BY DEF Range
    <2> HIDE DEF c, b
    <2> QED
      BY <1>0, <1>1, <2>1
  <1>3. /\ Hits(t, k) = {i \in DOMAIN c : t.node[c[i]].key = k} /\ Match(t, k) = c[Min(Hits(t, k))]
        /\ Expired(t, k) = {i \in DOMAIN c : t.node[c[i]].deadline < now}
    BY DEF Hits, Match, Expired
  <1>4. ASSUME Hits(t, k) # {} PROVE Min(Hits(t, k)) \in Hits(t, k)
    <2>1. Hits(t, k) \subseteq Nat
      BY <1>0, <1>3
    <2> QED
      BY <1>4, <2>1, MinOf
  <1>5. ASSUME Expired(t, k) # {} PROVE Min(Expired(t, k)) \in Expired(t, k)
    <2>1. Expired(t, k) \subseteq Nat
      BY <1>0, <1>3
    <2> QED
      BY <1>5, <2>1, MinOf
  <1>6. ASSUME Hits(t, k) # {}
        PROVE  Match(t, k) \in InTable(t) /\ t.node[Match(t, k)].key = k
    <2> HIDE DEF c, b
    <2> QED
      BY <1>2, <1>3, <1>4, <1>6
  <1>7. ASSUME NEW m \in InTable(t), t.node[m].key = k
        PROVE  Hits(t, k) # {} /\ m = Match(t, k)
    <2>1. PICK i \in DOMAIN c : c[i] = m
      BY <1>1, <1>7 DEF Range
    <2>2. i \in Hits(t, k)
      BY <1>3, <1>7, <2>1
    <2>3. Match(t, k) \in InTable(t) /\ t.node[Match(t, k)].key = k
      BY <1>6, <2>2
    <2> QED
      BY <1>7, <2>2, <2>3 DEF FragOK
  <1>8. ASSUME Candidate(t, k) # {}
        PROVE  LET n == Min(Candidate(t, k))
               IN /\ n \in InTable(t) /\ HashFragment(t.node[n].key) = b
                  /\ Hits(t, k) # {} => n = Match(t, k)
    <2>1. CASE Hits(t, k) # {}
      <3>1. Candidate(t, k) = {Match(t, k)} /\ Match(t, k) \in Nat
        BY <1>0, <1>6, <2>1 DEF Candidate, NodeIds
      <3>2. Min(Candidate(t, k)) = Match(t, k)
        BY <3>1, MinOf
      <3> QED
        BY <1>6, <2>1, <3>2
    <2>2. CASE Hits(t, k) = {}
      <3> DEFINE x == c[Min(Expired(t, k))]
      <3>1. Candidate(t, k) = {x} /\ Expired(t, k) # {}
        BY <1>8, <2>2 DEF Candidate
      <3>2. x \in InTable(t) /\ HashFragment(t.node[x].key) = b
        <4> HIDE DEF c, b
        <4> QED
          BY <1>2, <1>3, <1>5, <3>1
      <3>3. x \in Nat
        BY <1>0, <3>2 DEF NodeIds
      <3> HIDE DEF x
      <3>4. Min(Candidate(t, k)) = x
        BY <3>1, <3>3, MinOf
      <3> QED
        BY <2>2, <3>2, <3>4
    <2> QED
      BY <2>1, <2>2
  <1>9. ASSUME Candidate(t, k) = {} PROVE Hits(t, k) = {}
    BY <1>9 DEF Candidate
  <1> QED
    BY <1>6, <1>7, <1>8, <1>9

\* the node create_fragment() has got, written
Written(nd, k, first, len) ==
  Started([nd EXCEPT !.deadline = now + IPF_TIMEOUT, !.key = k], k, first, len)

\* What create_fragment() writes into the node it has got.
LEMMA StartedNode ==
  ASSUME NEW nd \in FragNodeRec, NEW k \in Keys, NEW first \in BOOLEAN, NEW len \in Nat,
         Datagram(k) \in Keys \X Nat, now \in Nat
  PROVE  LET s == Written(nd, k, first, len)
         IN /\ s \in FragNodeRec /\ s.key = k /\ s.deadline = now + IPF_TIMEOUT
            /\ s.got_first = (first \/ nd.got_first)
            /\ s.tlhdr = IF first THEN Datagram(k) ELSE nd.tlhdr
            /\ s.got_first /\ ~s.carried => first
            /\ ~s.got_first => s.a = len
PROOF
  <1> DEFINE n0 == [nd EXCEPT !.deadline = now + IPF_TIMEOUT, !.key = k]
             s == Written(nd, k, first, len)
  <1>0. s = Started(n0, k, first, len)
    BY DEF Written
  <1>1. now + IPF_TIMEOUT \in Nat
    BY FragAssumption
  <1>2. /\ n0 \in FragNodeRec /\ n0.key = k /\ n0.deadline = now + IPF_TIMEOUT
        /\ n0.got_first = nd.got_first /\ n0.tlhdr = nd.tlhdr
    BY <1>1 DEF FragNodeRec
  <1> HIDE DEF n0
  <1>3. CASE first
    <2>1. s = [n0 EXCEPT !.got_first = TRUE, !.tlhdr = Datagram(k), !.carried = FALSE]
      BY <1>0, <1>3 DEF Started
    <2>2. s \in FragNodeRec
      BY <1>2, <2>1 DEF FragNodeRec
    <2>3. /\ s.key = n0.key /\ s.deadline = n0.deadline /\ s.got_first = TRUE
          /\ s.tlhdr = Datagram(k)
      BY <1>2, <2>1 DEF FragNodeRec
    <2> HIDE DEF s
    <2>4. s.got_first = (first \/ nd.got_first)
      BY <1>3, <2>3, Zenon
    <2>5. (s.got_first /\ ~s.carried => first) /\ (~s.got_first => s.a = len)
      BY <1>3, <2>3
    <2>6. s.tlhdr = IF first THEN Datagram(k) ELSE nd.tlhdr
      BY <1>3, <2>3, Zenon
    <2> QED
      BY <1>2, <2>2, <2>3, <2>4, <2>5, <2>6, Zenon DEF s
  <1>4. CASE ~first
    <2>1. s = [n0 EXCEPT !.pa = @ + 1, !.a = len, !.carried = n0.got_first]
      BY <1>0, <1>4 DEF Started
    <2>2. n0.got_first \in BOOLEAN /\ n0.pa + 1 \in Nat
      BY <1>2 DEF FragNodeRec
    <2>3. s \in FragNodeRec
      BY <1>2, <2>1, <2>2 DEF FragNodeRec
    <2>4. /\ s.key = n0.key /\ s.deadline = n0.deadline /\ s.got_first = n0.got_first
          /\ s.tlhdr = n0.tlhdr /\ s.a = len /\ s.carried = n0.got_first
      BY <1>2, <2>1 DEF FragNodeRec
    <2> HIDE DEF s
    <2>5. s.got_first = (first \/ nd.got_first)
      BY <1>2, <1>4, <2>2, <2>4, Zenon
    <2>6. (s.got_first /\ ~s.carried => first) /\ (~s.got_first => s.a = len)
      BY <2>4
    <2>7. s.tlhdr = IF first THEN Datagram(k) ELSE nd.tlhdr
      BY <1>2, <1>4, <2>4, Zenon
    <2> QED
      BY <1>2, <2>3, <2>4, <2>5, <2>6, <2>7, Zenon DEF s
  <1> QED
    BY <1>3, <1>4

\* create_fragment() leaves a table: the node it recycled or allocated is the
\* youngest and now the one of the key.
LEMMA CreateKeeps ==
  ASSUME NEW t, FragOK(t), NEW k \in Keys, NEW first \in BOOLEAN, NEW len \in Nat,
         Datagram(k) \in Keys \X Nat, now \in Nat, t.left > 0,
         \A m \in InTable(t) : t.node[m].deadline <= now + IPF_TIMEOUT
  PROVE  LET u == Create(t, k, first, len).tab
         IN /\ FragOK(u) /\ u.wild = t.wild /\ ~u.stale
            /\ \E n \in InTable(u) :
                 /\ InTable(u) = InTable(t) \cup {n}
                 /\ \A m \in InTable(u) : m # n =>
                      u.node[m] = t.node[m] /\ t.node[m].key # k
                 /\ u.node[n].key = k /\ u.node[n].deadline = now + IPF_TIMEOUT
                 /\ u.node[n].got_first /\ ~u.node[n].carried =>
                      u.node[n].tlhdr = Datagram(k)
                 /\ ~u.node[n].got_first => ~first /\ u.node[n].a = len
PROOF
  <1> DEFINE recycle == Candidate(t, k)
             n == IF recycle # {} THEN Min(recycle) ELSE Min(NodeIds \ InTable(t))
             p == Placed(t, k, recycle, n)
             nd == p.node[n]
             st == Written(nd, k, first, len)
             u == Create(t, k, first, len).tab
  <1>0. /\ t \in FragRec /\ t.lru \in Seq(NodeIds) /\ t.left \in Nat
        /\ t.node \in [NodeIds -> FragNodeRec]
        /\ t.chain \in [FragBuckets -> Seq(NodeIds)] /\ t.stale \in BOOLEAN
        /\ InTable(t) \subseteq NodeIds /\ HashFragment(k) \in FragBuckets
    BY FragRoom, FragAssumption DEF FragOK, FragRec
  <1>1. u = [p EXCEPT !.node[n] = st]
    BY DEF Create, Written
  <1>2. NewNode \in FragNodeRec
    BY DEF NewNode, FragNodeRec
  <1>3. ASSUME NEW h \in NodeIds, NEW x \in FragNodeRec, nd = x, n = h,
               x.got_first => x.tlhdr \in Keys \X Nat,
               u.node = [t.node EXCEPT ![h] = st],
               u.lru \in Seq(NodeIds), Range(u.lru) = InTable(t) \cup {h}
        PROVE  /\ st \in FragNodeRec /\ u.node \in [NodeIds -> FragNodeRec]
               /\ st.key = k /\ st.deadline = now + IPF_TIMEOUT
               /\ st.got_first => st.tlhdr \in Keys \X Nat
               /\ st.got_first /\ ~st.carried => st.tlhdr = Datagram(k)
               /\ ~st.got_first => ~first /\ st.a = len
               /\ u.node[h] = st /\ \A m \in NodeIds : m # h => u.node[m] = t.node[m]
               /\ InTable(u) = InTable(t) \cup {h}
    <2>1. /\ st \in FragNodeRec /\ st.key = k /\ st.deadline = now + IPF_TIMEOUT
          /\ st.tlhdr = IF first THEN Datagram(k) ELSE x.tlhdr
          /\ st.got_first = (first \/ x.got_first)
          /\ st.got_first /\ ~st.carried => first
          /\ ~st.got_first => st.a = len
      <3> DEFINE s2 == Written(x, k, first, len)
      <3>1. /\ s2 \in FragNodeRec /\ s2.key = k /\ s2.deadline = now + IPF_TIMEOUT
            /\ s2.got_first = (first \/ x.got_first)
            /\ s2.tlhdr = IF first THEN Datagram(k) ELSE x.tlhdr
            /\ s2.got_first /\ ~s2.carried => first
            /\ ~s2.got_first => s2.a = len
        BY StartedNode
      <3>2. st = s2
        BY <1>3
      <3> HIDE DEF st, s2
      <3> QED
        BY <3>1, <3>2
    <2> HIDE DEF st, u, nd, p, n
    <2>2. InTable(u) = InTable(t) \cup {h}
      BY <1>3 DEF InTable
    <2>3. u.node \in [NodeIds -> FragNodeRec]
      BY <1>0, <1>3, <2>1
    <2>4. u.node[h] = st /\ \A m \in NodeIds : m # h => u.node[m] = t.node[m]
      BY <1>0, <1>3
    <2>5. st.got_first => st.tlhdr \in Keys \X Nat
      BY <1>3, <2>1
    <2>6. st.got_first /\ ~st.carried => st.tlhdr = Datagram(k)
      BY <2>1
    <2>7. ~st.got_first => ~first /\ st.a = len
      BY <2>1
    <2> QED
      BY <2>1, <2>2, <2>3, <2>4, <2>5, <2>6, <2>7
  <1>4. ASSUME NEW h \in NodeIds, u \in FragRec, u.wild = t.wild, ~u.stale,
               Filed(u.chain, u.lru, Homes(u.node), FragBuckets, NodeIds),
               u.left + Len(u.lru) = FragNodes, InTable(u) = InTable(t) \cup {h},
               st.key = k, st.deadline = now + IPF_TIMEOUT,
               st.got_first => st.tlhdr \in Keys \X Nat,
               st.got_first /\ ~st.carried => st.tlhdr = Datagram(k),
               ~st.got_first => ~first /\ st.a = len,
               u.node[h] = st, \A m \in NodeIds : m # h => u.node[m] = t.node[m],
               \A m \in InTable(t) : t.node[m].key = k => m = h,
               Ascending(u.lru, Deadlines(u.node))
        PROVE  /\ FragOK(u)
               /\ \E y \in InTable(u) :
                    /\ InTable(u) = InTable(t) \cup {y}
                    /\ \A m \in InTable(u) : m # y =>
                         u.node[m] = t.node[m] /\ t.node[m].key # k
                    /\ u.node[y].key = k /\ u.node[y].deadline = now + IPF_TIMEOUT
                    /\ u.node[y].got_first /\ ~u.node[y].carried =>
                         u.node[y].tlhdr = Datagram(k)
                    /\ ~u.node[y].got_first => ~first /\ u.node[y].a = len
    <2> HIDE DEF u, st, nd, n, p
    <2>1. \A m, x \in InTable(u) : u.node[m].key = u.node[x].key => m = x
      BY <1>0, <1>4 DEF FragOK
    <2>2. \A m \in InTable(u) :
            u.node[m].key \in Keys
            /\ (u.node[m].got_first => u.node[m].tlhdr \in Keys \X Nat)
      BY <1>0, <1>4 DEF FragOK
    <2>3. FragOK(u)
      BY <1>4, <2>1, <2>2 DEF FragOK
    <2>4. \A m \in InTable(u) : m # h => u.node[m] = t.node[m] /\ t.node[m].key # k
      BY <1>0, <1>4
    <2>5. h \in InTable(u)
      BY <1>4
    <2> QED
      BY <1>4, <2>3, <2>4, <2>5
  <1>5. CASE recycle # {}
    <2>1. PICK h \in InTable(t) : h = n /\ HashFragment(t.node[h].key) = HashFragment(k)
      BY <1>5, FragBucket
    <2>2. p = [t EXCEPT !.lru = Append(Kept(@, NodeIds \ {h}), h)]
      BY <1>5, <2>1 DEF Placed
    <2>3. /\ h \in NodeIds /\ t.node[h] \in FragNodeRec
          /\ t.node[h].got_first => t.node[h].tlhdr \in Keys \X Nat
      BY <1>0, <2>1 DEF FragOK
    <2> DEFINE l == Append(Kept(t.lru, NodeIds \ {h}), h)
    <2>4. /\ p.lru = l /\ p.chain = t.chain /\ p.node = t.node /\ p.left = t.left
          /\ p.stale = t.stale /\ p.wild = t.wild /\ nd = t.node[h]
      BY <1>0, <2>1, <2>2 DEF FragRec
    <2>5. /\ u.lru = l /\ u.chain = t.chain /\ u.left = t.left
          /\ u.stale = t.stale /\ u.wild = t.wild
          /\ u.node = [t.node EXCEPT ![h] = st]
      <3> HIDE DEF st, u, nd, n, l, p
      <3>1. u = [p EXCEPT !.node = [p.node EXCEPT ![h] = st]]
        BY <1>1, <2>1
      <3>2. p = [t EXCEPT !.lru = l]
        BY <2>2 DEF l
      <3> QED
        BY <1>0, <2>4, <3>1, <3>2 DEF FragRec
    <2>6. u = [t EXCEPT !.lru = l, !.node = [t.node EXCEPT ![h] = st]]
      <3> HIDE DEF st, u, nd, n, l, p
      <3>1. u = [p EXCEPT !.node = [p.node EXCEPT ![h] = st]]
        BY <1>1, <2>1
      <3>2. p = [t EXCEPT !.lru = l]
        BY <2>2 DEF l
      <3> QED
        BY <1>0, <2>4, <3>1, <3>2 DEF FragRec
    <2> DEFINE v == u.node
    <2>7. /\ Filed(t.chain, l, Homes(t.node), FragBuckets, NodeIds)
          /\ Range(l) = Range(t.lru) /\ Len(l) = Len(t.lru)
      <3> DEFINE f == Homes(t.node)
      <3>1. Filed(t.chain, t.lru, f, FragBuckets, NodeIds) /\ h \in Range(t.lru)
        BY <2>1 DEF FragOK, InTable
      <3>2. l = ToEnd(t.lru, NodeIds, h)
        BY DEF ToEnd
      <3> HIDE DEF f, l
      <3>3. /\ Filed(t.chain, l, f, FragBuckets, NodeIds)
            /\ Range(l) = Range(t.lru) /\ Len(l) = Len(t.lru)
        BY <3>1, <3>2, FiledAgain
      <3> QED
        BY <3>3 DEF f
    <2>8. l \in Seq(NodeIds) /\ Range(l) = InTable(t) /\ InTable(t) = InTable(t) \cup {h}
      BY <2>1, <2>7, ZenonT(30) DEF Filed, InTable
    <2>9. /\ st \in FragNodeRec /\ v \in [NodeIds -> FragNodeRec]
          /\ st.key = k /\ st.deadline = now + IPF_TIMEOUT
          /\ st.got_first => st.tlhdr \in Keys \X Nat
          /\ st.got_first /\ ~st.carried => st.tlhdr = Datagram(k)
          /\ ~st.got_first => ~first /\ st.a = len
          /\ v[h] = st /\ \A m \in NodeIds : m # h => v[m] = t.node[m]
          /\ InTable(u) = InTable(t) \cup {h}
      <3> HIDE DEF u, st, nd, n, l, p
      <3>1. Range(u.lru) = InTable(t) \cup {h} /\ u.lru \in Seq(NodeIds)
        BY <2>5, <2>8
      <3> QED
        <4>1. PICK x \in FragNodeRec : x = t.node[h]
          BY <2>3
        <4>2. nd = x /\ n = h /\ (x.got_first => x.tlhdr \in Keys \X Nat)
          BY <2>1, <2>3, <2>4, <4>1
        <4> QED
          BY <1>3, <2>3, <2>5, <3>1, <4>2, Zenon
    <2>10. u \in FragRec
      <3> HIDE DEF u, st, nd, n, l, p
      <3>1. [t.node EXCEPT ![h] = st] \in [NodeIds -> FragNodeRec]
        BY <2>5, <2>9
      <3> QED
        BY <1>0, <2>6, <2>8, <3>1 DEF FragRec
    <2>11. Filed(u.chain, u.lru, Homes(v), FragBuckets, NodeIds)
      <3> DEFINE f == Homes(t.node)
                 g == Homes(v)
      <3>1. \A m \in Range(l) : g[m] = f[m]
        <4> HIDE DEF u, st, nd, n, l, p, v
        <4>1. \A m \in NodeIds : f[m] = HashFragment(t.node[m].key)
                                  /\ g[m] = HashFragment(v[m].key)
          BY DEF Homes
        <4> QED
          BY <1>0, <2>1, <2>3, <2>8, <2>9, <4>1
      <3> HIDE DEF u, st, nd, n, l, p, v, f, g
      <3>2. Filed(t.chain, l, f, FragBuckets, NodeIds)
        BY <2>7 DEF f
      <3>3. Filed(t.chain, l, g, FragBuckets, NodeIds)
        BY <3>1, <3>2, FiledSame
      <3> QED
        BY <2>5, <3>3 DEF g
    <2>12. \A m \in InTable(t) : t.node[m].key = k => m = h
      BY <2>1, <1>5, FragBucket
    <2>13. Ascending(u.lru, Deadlines(v))
      <3> DEFINE f == Deadlines(t.node)
                 g == Deadlines(v)
                 r == Kept(t.lru, NodeIds \ {h})
      <3>1. Ascending(t.lru, f)
        BY DEF FragOK
      <3>2. \A q : Ascending(t.lru, q) => Ascending(r, q)
        <4> HIDE DEF f, g
        <4> QED
          BY <1>0, KeptAscending
      <3>3. /\ r \in Seq(NodeIds \cap (NodeIds \ {h}))
            /\ Range(r) = Range(t.lru) \cap (NodeIds \ {h})
        BY <1>0, KeptRange
      <3>4. r \in Seq(NodeIds)
        <4>1. NodeIds \cap (NodeIds \ {h}) \subseteq NodeIds
          OBVIOUS
        <4> HIDE DEF r
        <4> QED
          BY <3>3, <4>1, SeqMonotonic
      <3> HIDE DEF u, st, nd, n, l, p, v, r
      <3>5. \A m \in Range(r) : g[m] = f[m] /\ g[m] <= g[h]
        <4>1. \A m \in NodeIds : f[m] = t.node[m].deadline /\ g[m] = v[m].deadline
          BY DEF Deadlines
        <4>2. \A m \in Range(r) : m \in NodeIds /\ m # h /\ m \in InTable(t)
          BY <1>0, <3>3 DEF InTable
        <4>3. g[h] = now + IPF_TIMEOUT
          BY <2>3, <2>9, <4>1
        <4>4. \A m \in Range(r) : v[m] = t.node[m] /\ t.node[m].deadline <= now + IPF_TIMEOUT
          BY <2>9, <4>2
        <4> HIDE DEF f, g
        <4> QED
          BY <4>1, <4>2, <4>3, <4>4
      <3>6. h \notin Range(r)
        BY <3>3
      <3> HIDE DEF f, g
      <3>7. Ascending(r, f)
        BY <3>1, <3>2
      <3>8. Ascending(Append(r, h), g)
        <4>1. \A a, b :
                Ascending(r, a) /\ (\A m \in Range(r) : b[m] = a[m] /\ b[m] <= b[h])
                  => Ascending(Append(r, h), b)
          BY <2>3, <3>4, <3>6, AppendAscending
        <4> QED
          BY <3>5, <3>7, <4>1
      <3> QED
        BY <2>5, <3>8 DEF l, r, g
    <2>14. ~t.stale
      BY <2>1 DEF FragOK, InTable, Range
    <2> HIDE DEF u, st, nd, n, l, p
    <2>15. u.left + Len(u.lru) = FragNodes
      BY <2>5, <2>7 DEF FragOK
    <2>16. ~u.stale /\ u.wild = t.wild
      BY <2>5, <2>14
    <2> QED
      BY <1>4, <2>3, <2>9, <2>10, <2>11, <2>12, <2>13, <2>15, <2>16
  <1>6. CASE recycle = {}
    <2>1. PICK h \in NodeIds \ InTable(t) : h = n
      BY <1>6, FragRoom
    <2> DEFINE b == HashFragment(k)
               l == Append(t.lru, h)
               c == AddedTo(t.chain, b, h)
    <2>2. p = [t EXCEPT !.lru = l, !.chain = c, !.node = [t.node EXCEPT ![h] = NewNode],
                        !.left = t.left - 1, !.stale = FALSE]
      BY <1>0, <1>6, <2>1 DEF Placed, AddedTo, FragRec
    <2>3. /\ h \in NodeIds
          /\ NewNode.got_first => NewNode.tlhdr \in Keys \X Nat
      BY <2>1 DEF NewNode
    <2>4. nd = NewNode
      <3>1. p.node = [t.node EXCEPT ![h] = NewNode]
        <4> HIDE DEF p
        <4> QED
          BY <1>0, <2>2 DEF FragRec
      <3> HIDE DEF p, n
      <3>2. p.node[h] = NewNode
        BY <1>0, <2>1, <3>1
      <3> QED
        BY <2>1, <3>2
    <2>5. u = [p EXCEPT !.node = [p.node EXCEPT ![h] = st]]
      BY <1>1, <2>1
    <2> DEFINE v == [t.node EXCEPT ![h] = st]
    <2>6. /\ u = [t EXCEPT !.lru = l, !.chain = c, !.node = v, !.left = t.left - 1,
                           !.stale = FALSE]
          /\ u.lru = l /\ u.chain = c /\ u.node = v /\ u.left = t.left - 1
          /\ u.wild = t.wild /\ ~u.stale
      <3> HIDE DEF st, u, nd, n, l, c, p
      <3>1. p.node = [t.node EXCEPT ![h] = NewNode]
        BY <1>0, <2>2 DEF FragRec
      <3>2. [p.node EXCEPT ![h] = st] = v
        BY <1>0, <3>1
      <3> HIDE DEF v
      <3>3. u = [p EXCEPT !.node = v]
        BY <2>5, <3>2
      <3>4. u = [t EXCEPT !.lru = l, !.chain = c, !.node = v, !.left = t.left - 1,
                          !.stale = FALSE]
        BY <1>0, <2>2, <3>3 DEF FragRec
      <3> QED
        BY <1>0, <3>4 DEF FragRec
    <2>7. /\ l \in Seq(NodeIds) /\ Range(l) = InTable(t) \cup {h}
      <3>1. /\ Append(t.lru, h) \in Seq(NodeIds)
            /\ Range(Append(t.lru, h)) = Range(t.lru) \cup {h}
        <4>1. t.lru \in Seq(NodeIds) /\ h \in NodeIds
          BY <1>0, <2>1
        <4> QED
          BY <4>1, AppendRange
      <3> QED
        BY <3>1 DEF InTable
    <2>9. /\ st \in FragNodeRec /\ v \in [NodeIds -> FragNodeRec]
          /\ st.key = k /\ st.deadline = now + IPF_TIMEOUT
          /\ st.got_first => st.tlhdr \in Keys \X Nat
          /\ st.got_first /\ ~st.carried => st.tlhdr = Datagram(k)
          /\ ~st.got_first => ~first /\ st.a = len
          /\ v[h] = st /\ \A m \in NodeIds : m # h => v[m] = t.node[m]
          /\ InTable(u) = InTable(t) \cup {h}
      <3> HIDE DEF u, st, nd, n, l, p, v
      <3>1. Range(u.lru) = InTable(t) \cup {h} /\ u.lru \in Seq(NodeIds)
        BY <2>6, <2>7
      <3>2. PICK x \in FragNodeRec : x = NewNode
        BY <1>2
      <3>3. nd = x /\ n = h /\ (x.got_first => x.tlhdr \in Keys \X Nat)
        BY <2>1, <2>3, <2>4, <3>2
      <3>4. u.node = [t.node EXCEPT ![h] = st]
        BY <2>6 DEF v
      <3>5. /\ st \in FragNodeRec /\ u.node \in [NodeIds -> FragNodeRec]
            /\ st.key = k /\ st.deadline = now + IPF_TIMEOUT
            /\ st.got_first => st.tlhdr \in Keys \X Nat
            /\ st.got_first /\ ~st.carried => st.tlhdr = Datagram(k)
            /\ ~st.got_first => ~first /\ st.a = len
            /\ u.node[h] = st /\ \A m \in NodeIds : m # h => u.node[m] = t.node[m]
            /\ InTable(u) = InTable(t) \cup {h}
        BY <1>3, <2>3, <3>1, <3>3, <3>4, Zenon
      <3> QED
        BY <2>6, <3>5
    <2>10. u \in FragRec
      <3>1. c \in [FragBuckets -> Seq(NodeIds)]
        <4>1. Append(t.chain[b], h) \in Seq(NodeIds)
          BY <1>0, <2>1, AppendProperties
        <4> QED
          BY <1>0, <4>1 DEF AddedTo
      <3>2. t.left - 1 \in Nat
        BY <1>0
      <3> HIDE DEF u, st, nd, n, l, p, v, c
      <3> QED
        BY <1>0, <2>6, <2>7, <2>9, <3>1, <3>2 DEF FragRec
    <2>11. Filed(u.chain, u.lru, Homes(v), FragBuckets, NodeIds) /\ Len(l) = Len(t.lru) + 1
      <3> DEFINE f == Homes(t.node)
                 g == Homes(v)
      <3>1. (\A m \in Range(t.lru) : g[m] = f[m]) /\ g[h] = b
        <4> HIDE DEF u, st, nd, n, l, p, v
        <4>1. \A m \in NodeIds : f[m] = HashFragment(t.node[m].key)
                                  /\ g[m] = HashFragment(v[m].key)
          BY DEF Homes
        <4>2. \A m \in Range(t.lru) : m \in NodeIds /\ m # h
          BY <1>0, <2>1 DEF InTable
        <4> QED
          BY <2>1, <2>9, <4>1, <4>2
      <3>2. Filed(t.chain, t.lru, f, FragBuckets, NodeIds)
        BY DEF FragOK
      <3>3. h \in NodeIds \ Range(t.lru) /\ b \in FragBuckets
        BY <1>0, <2>1 DEF InTable
      <3> HIDE DEF u, st, nd, n, p, v, f, g, b
      <3>4. Filed(c, l, g, FragBuckets, NodeIds) /\ Len(l) = Len(t.lru) + 1
        BY <3>1, <3>2, <3>3, FiledNew
      <3> HIDE DEF l, c
      <3> QED
        BY <2>6, <3>4 DEF g
    <2>12. \A m \in InTable(t) : t.node[m].key # k
      BY <1>6, FragBucket
    <2>13. Ascending(u.lru, Deadlines(v))
      <3> DEFINE f == Deadlines(t.node)
                 g == Deadlines(v)
                 r == t.lru
      <3>1. Ascending(r, f)
        BY DEF FragOK
      <3> HIDE DEF u, st, nd, n, l, p, v
      <3>2. \A m \in Range(r) : g[m] = f[m] /\ g[m] <= g[h]
        <4>1. \A m \in NodeIds : f[m] = t.node[m].deadline /\ g[m] = v[m].deadline
          BY DEF Deadlines
        <4>2. \A m \in Range(r) : m \in NodeIds /\ m # h /\ m \in InTable(t)
          BY <1>0, <2>1 DEF InTable
        <4>3. g[h] = now + IPF_TIMEOUT
          BY <2>3, <2>9, <4>1
        <4>4. \A m \in Range(r) : v[m] = t.node[m] /\ t.node[m].deadline <= now + IPF_TIMEOUT
          BY <2>9, <4>2
        <4> HIDE DEF f, g
        <4> QED
          BY <4>1, <4>2, <4>3, <4>4
      <3>3. h \notin Range(r) /\ r \in Seq(NodeIds)
        BY <1>0, <2>1 DEF InTable
      <3> HIDE DEF f, g, r
      <3>4. \A a, d :
              Ascending(r, a) /\ (\A m \in Range(r) : d[m] = a[m] /\ d[m] <= d[h])
                => Ascending(Append(r, h), d)
        BY <2>3, <3>3, AppendAscending
      <3>5. Ascending(Append(r, h), g)
        BY <3>1, <3>2, <3>4
      <3> QED
        BY <2>6, <3>5 DEF l, r, g
    <2> HIDE DEF u, st, nd, n, l, p, c
    <2>14. u.left + Len(u.lru) = FragNodes
      <3>1. t.left + Len(t.lru) = FragNodes /\ Len(t.lru) \in Nat
        BY FragRoom DEF FragOK
      <3> HIDE DEF l
      <3>2. Len(u.lru) = Len(t.lru) + 1
        BY <2>6, <2>11
      <3>3. u.left = t.left - 1
        BY <2>6
      <3> QED
        BY <1>0, <3>1, <3>2, <3>3
    <2>15. u.node = v
      BY <2>6
    <2> HIDE DEF v
    <2>16. /\ Filed(u.chain, u.lru, Homes(u.node), FragBuckets, NodeIds)
           /\ Ascending(u.lru, Deadlines(u.node))
      BY <2>11, <2>13, <2>15
    <2>17. u.node[h] = st /\ \A m \in NodeIds : m # h => u.node[m] = t.node[m]
      BY <2>9, <2>15
    <2> QED
      <3>1. u \in FragRec /\ u.wild = t.wild /\ ~u.stale /\ h \in NodeIds
        BY <2>3, <2>6, <2>10
      <3>2. \A m \in InTable(t) : t.node[m].key = k => m = h
        BY <2>12
      <3>3. /\ FragOK(u)
            /\ \E y \in InTable(u) :
                 /\ InTable(u) = InTable(t) \cup {y}
                 /\ \A m \in InTable(u) : m # y =>
                      u.node[m] = t.node[m] /\ t.node[m].key # k
                 /\ u.node[y].key = k /\ u.node[y].deadline = now + IPF_TIMEOUT
                 /\ u.node[y].got_first /\ ~u.node[y].carried =>
                      u.node[y].tlhdr = Datagram(k)
                 /\ ~u.node[y].got_first => ~first /\ u.node[y].a = len
        BY <1>4, <2>9, <2>14, <2>16, <2>17, <3>1, <3>2, Zenon
      <3> QED
        BY <3>1, <3>3 DEF u
  <1> QED
    BY <1>5, <1>6

-----------------------------------------------------------------------------
(* The fragment table in time *)

SentRec == [start : Nat, at : Nat, early : Nat]
AnswerRec == [ret : BOOLEAN, tlhdr : (Keys \X Nat) \cup {NoHdr}, sum_bytes : Nat,
              sum_pkts : Nat, skipped : BOOLEAN, carried : BOOLEAN,
              own : (Keys \X Nat) \cup {NoHdr}, early : Nat, at : Nat]

\* what a node says of a datagram while it counts
Honest(nd, s, clock) ==
  /\ nd.deadline <= s[nd.key].at + IPF_TIMEOUT
  /\ nd.deadline > clock =>
       /\ nd.got_first /\ ~nd.carried => nd.tlhdr = <<nd.key, s[nd.key].start>>
       /\ ~nd.got_first => nd.a <= s[nd.key].early

FragTimes ==
  /\ now \in Nat \ {0} /\ pruneDeadline \in Nat /\ emergency \in Nat /\ emergency <= now
  /\ sent \in [Keys -> SentRec] /\ \A k \in Keys : sent[k].at <= now
  /\ \A n \in InTable(frag) : /\ emergency <= frag.node[n].deadline
                              /\ frag.node[n].deadline <= now + IPF_TIMEOUT

FragHonest ==
  ~frag.wild => \A n \in InTable(frag) : Honest(frag.node[n], sent, now)

FragAnswers ==
  /\ answer \in AnswerRec
  /\ answer.ret => answer.tlhdr \in Keys \X Nat
  /\ OwnPorts /\ OwnBytes /\ StaleRootAfterSkip /\ RefusedOnlyFull

\* the inductive invariant of the fragment table
FragInv == FragOK(frag) /\ FragTimes /\ FragHonest /\ FragAnswers

\* The scheduled prune of ip_fragment_handler() leaves a table with nodes it had.
LEMMA SweptKeeps ==
  ASSUME FragInv
  PROVE  /\ FragOK(Swept) /\ InTable(Swept) \subseteq InTable(frag)
         /\ Swept.wild = frag.wild
         /\ \A n \in InTable(Swept) : Swept.node[n] = frag.node[n]
PROOF
  <1>1. now - PRUNE_OFFSET \in Int
    BY FragAssumption DEF FragInv, FragTimes
  <1>2. FragOK(frag)
    BY DEF FragInv
  <1>3. CASE Due
    <2>1. Swept = Prune(frag, now - PRUNE_OFFSET)
      BY <1>3 DEF Swept
    <2> QED
      BY <1>1, <1>2, <2>1, PruneKeeps
  <1>4. CASE ~Due
    BY <1>2, <1>4 DEF Swept
  <1> QED
    BY <1>3, <1>4

\* A fragment that arrives belongs to the datagram of its key that is on the way,
\* or starts a new one.
LEMMA ArrivingType ==
  ASSUME FragInv, NEW k \in Keys
  PROVE  Arriving(k) \in SentRec /\ Datagram(k) \in Keys \X Nat
PROOF
  <1>1. Arriving(k) \in SentRec
    BY DEF Arriving, FragInv, FragTimes, SentRec
  <1> QED
    BY <1>1 DEF Datagram, SentRec

\* What has been seen of a datagram changes for the key of the fragment only.
LEMMA SeenSent ==
  ASSUME FragInv, NEW k \in Keys, NEW first \in BOOLEAN, NEW len \in Nat,
         Seen(k, first, len), now' = now
  PROVE  /\ sent' \in [Keys -> SentRec] /\ \A j \in Keys : sent'[j].at <= now
         /\ \A j \in Keys : j # k => sent'[j] = sent[j]
         /\ sent'[k].at = now /\ sent'[k].start = Arriving(k).start
         /\ sent'[k].early = IF first THEN 0 ELSE Arriving(k).early + len
PROOF
  <1> DEFINE r == [Arriving(k) EXCEPT !.at = now, !.early = IF first THEN 0 ELSE @ + len]
  <1>1. Arriving(k) \in SentRec /\ now \in Nat
    BY ArrivingType DEF FragInv, FragTimes
  <1>2. sent \in [Keys -> SentRec] /\ \A j \in Keys : sent[j].at <= now
    BY DEF FragInv, FragTimes
  <1>3. sent' = [sent EXCEPT ![k] = r]
    BY DEF Seen
  <1>4. /\ r \in SentRec /\ r.at = now /\ r.start = Arriving(k).start
        /\ r.early = IF first THEN 0 ELSE Arriving(k).early + len
    <2> DEFINE e == IF first THEN 0 ELSE Arriving(k).early + len
    <2>1. e \in Nat
      BY <1>1 DEF SentRec
    <2>2. r = [Arriving(k) EXCEPT !.at = now, !.early = e]
      BY <1>1 DEF SentRec
    <2> HIDE DEF e, r
    <2>3. r \in SentRec /\ r.at = now /\ r.start = Arriving(k).start /\ r.early = e
      BY <1>1, <2>1, <2>2 DEF SentRec
    <2> QED
      BY <2>3 DEF e
  <1> HIDE DEF r
  <1>5. sent' \in [Keys -> SentRec] /\ sent'[k] = r /\ \A j \in Keys : j # k => sent'[j] = sent[j]
    BY <1>2, <1>3, <1>4
  <1>6. \A j \in Keys : sent'[j].at <= now
    BY <1>1, <1>2, <1>4, <1>5
  <1> QED
    BY <1>4, <1>5, <1>6

\* The other nodes, and those past their deadline, stay as honest as they were.
LEMMA HonestLater ==
  ASSUME FragInv, NEW k \in Keys, NEW first \in BOOLEAN, NEW len \in Nat,
         Seen(k, first, len), now' = now,
         NEW nd \in FragNodeRec, nd.key \in Keys, Honest(nd, sent, now),
         nd.key # k \/ ~(nd.deadline > now)
  PROVE  Honest(nd, sent', now)
PROOF
  <1>1. /\ \A j \in Keys : j # k => sent'[j] = sent[j]
        /\ sent'[k].at = now
    BY SeenSent
  <1>2. nd.deadline \in Nat /\ now \in Nat /\ IPF_TIMEOUT \in Nat
    BY FragAssumption DEF FragNodeRec, FragInv, FragTimes
  <1>3. CASE nd.key # k
    BY <1>1, <1>3 DEF Honest
  <1>4. CASE nd.key = k /\ ~(nd.deadline > now)
    BY <1>1, <1>2, <1>4 DEF Honest
  <1> QED
    BY <1>3, <1>4

\* What is written into a node without touching its key and deadline.
LEMMA TouchKeeps ==
  ASSUME NEW t, FragOK(t), NEW n \in InTable(t), NEW nd \in FragNodeRec,
         nd.key = t.node[n].key, nd.deadline = t.node[n].deadline,
         nd.got_first => nd.tlhdr \in Keys \X Nat
  PROVE  LET u == [t EXCEPT !.node = [t.node EXCEPT ![n] = nd]]
         IN /\ FragOK(u) /\ u.lru = t.lru /\ u.stale = t.stale /\ u.wild = t.wild
            /\ u.node[n] = nd /\ \A m \in InTable(t) : m # n => u.node[m] = t.node[m]
PROOF
  <1> DEFINE v == [t.node EXCEPT ![n] = nd]
             u == [t EXCEPT !.node = v]
  <1>0. /\ t \in FragRec /\ t.node \in [NodeIds -> FragNodeRec]
        /\ InTable(t) \subseteq NodeIds
    BY FragRoom DEF FragOK, FragRec
  <1>1. /\ v \in [NodeIds -> FragNodeRec] /\ v[n] = nd
        /\ \A m \in NodeIds : m # n => v[m] = t.node[m]
    BY <1>0
  <1> HIDE DEF v
  <1>2. /\ u \in FragRec /\ u.lru = t.lru /\ u.stale = t.stale /\ u.wild = t.wild
        /\ u.node = v /\ u.chain = t.chain /\ u.left = t.left
    BY <1>0, <1>1 DEF FragRec
  <1>3. \A m \in InTable(t) : v[m].key = t.node[m].key /\ v[m].deadline = t.node[m].deadline
    BY <1>0, <1>1
  <1> HIDE DEF u
  <1>4. InTable(u) = InTable(t)
    BY <1>2 DEF InTable
  <1>5. Filed(u.chain, u.lru, Homes(u.node), FragBuckets, NodeIds)
    <2> DEFINE f == Homes(t.node)
               g == Homes(v)
    <2>1. \A m \in Range(t.lru) : g[m] = f[m]
      BY <1>0, <1>3 DEF Homes, InTable
    <2>2. Filed(t.chain, t.lru, f, FragBuckets, NodeIds)
      BY DEF FragOK
    <2> HIDE DEF f, g
    <2>3. Filed(t.chain, t.lru, g, FragBuckets, NodeIds)
      BY <2>1, <2>2, FiledSame
    <2> QED
      BY <1>2, <2>3 DEF g
  <1>6. Ascending(u.lru, Deadlines(u.node))
    <2> DEFINE f == Deadlines(t.node)
               g == Deadlines(v)
    <2>1. \A m \in Range(t.lru) : g[m] = f[m]
      BY <1>0, <1>3 DEF Deadlines, InTable
    <2>2. Ascending(t.lru, f)
      BY DEF FragOK
    <2> HIDE DEF f, g
    <2>3. Ascending(t.lru, g)
      BY <2>1, <2>2, AscendingSame
    <2> QED
      BY <1>2, <2>3 DEF g
  <1>7. /\ \A m, x \in InTable(t) : v[m].key = v[x].key => m = x
        /\ \A m \in InTable(t) : /\ v[m].key \in Keys
                                 /\ v[m].got_first => v[m].tlhdr \in Keys \X Nat
    BY <1>0, <1>1, <1>3 DEF FragOK
  <1>8. u.left + Len(u.lru) = FragNodes /\ (u.stale => u.lru = << >>)
    BY <1>2 DEF FragOK
  <1>9. FragOK(u)
    BY <1>2, <1>4, <1>5, <1>6, <1>7, <1>8 DEF FragOK
  <1> QED
    BY <1>0, <1>1, <1>2, <1>9 DEF u, v

\* A fragment of a datagram that has a node (FragFound).
LEMMA FoundKeeps ==
  ASSUME FragInv, NEW k \in Keys, NEW first \in BOOLEAN, NEW len \in Nat, ~frag.wild,
         FragFound(k, first, len), Seen(k, first, len), now' = now, pruneDeadline' \in Nat
  PROVE  FragInv'
PROOF
  <1> DEFINE s == Swept
             n == Match(s, k)
             nd == s.node[n]
             r == Found(s, k, first, len)
  <1>1. /\ FragOK(s) /\ InTable(s) \subseteq InTable(frag) /\ s.wild = frag.wild
        /\ \A m \in InTable(s) : s.node[m] = frag.node[m]
    BY SweptKeeps
  <1>2. /\ n \in InTable(s) /\ nd.key = k /\ nd.deadline > now
        /\ n \in NodeIds /\ nd \in FragNodeRec /\ s \in FragRec /\ s.lru # << >> /\ ~s.stale
    <2>1. Hits(s, k) # {} /\ Valid(s, n)
      BY DEF FragFound, Matched
    <2>2. n \in InTable(s) /\ nd.key = k
      BY <1>1, <2>1, FragBucket
    <2>3. InTable(s) \subseteq NodeIds
      BY <1>1, FragRoom
    <2>4. s.lru # << >>
      BY <2>2 DEF InTable, Range
    <2> QED
      BY <1>1, <2>1, <2>2, <2>3, <2>4 DEF Valid, FragOK, FragRec
  <1>3. /\ sent' \in [Keys -> SentRec] /\ (\A j \in Keys : sent'[j].at <= now)
        /\ (\A j \in Keys : j # k => sent'[j] = sent[j])
        /\ sent'[k].at = now /\ sent'[k].start = Arriving(k).start
        /\ sent'[k].early = IF first THEN 0 ELSE Arriving(k).early + len
    BY SeenSent
  <1>4. Arriving(k) \in SentRec /\ Datagram(k) \in Keys \X Nat
    BY ArrivingType
  <1>5. /\ nd.deadline \in Nat /\ now \in Nat /\ IPF_TIMEOUT \in Nat
        /\ nd.a \in Nat /\ nd.pa \in Nat /\ nd.got_first \in BOOLEAN
        /\ nd.carried \in BOOLEAN
        /\ (nd.got_first => nd.tlhdr \in Keys \X Nat)
        /\ nd.tlhdr \in (Keys \X Nat) \cup {NoHdr}
        /\ nd.deadline <= now + IPF_TIMEOUT
    BY <1>1, <1>2, FragAssumption DEF FragNodeRec, FragInv, FragTimes, FragOK
  <1>6. /\ Arriving(k) = sent[k]
        /\ nd.got_first /\ ~nd.carried => nd.tlhdr = Datagram(k)
        /\ ~nd.got_first => nd.a <= Arriving(k).early
    <2>1. Honest(nd, sent, now)
      BY <1>1, <1>2 DEF FragInv, FragHonest
    <2>2. sent[k].at \in Nat
      BY DEF FragInv, FragTimes, SentRec
    <2>3. Arriving(k) = sent[k]
      BY <1>2, <1>5, <2>1, <2>2, SMTT(30) DEF Honest, Arriving
    <2>4. Datagram(k) = <<k, sent[k].start>>
      BY <2>3 DEF Datagram
    <2> QED
      BY <1>2, <2>1, <2>3, <2>4 DEF Honest
  <1>7. <<k, sent'[k].start>> = Datagram(k)
    BY <1>3 DEF Datagram
  <1>8. NoAnswer \in AnswerRec
    BY DEF NoAnswer, AnswerRec
  <1> DEFINE WithNode(x) == [s EXCEPT !.node = [s.node EXCEPT ![n] = x]]
             Good(x) == /\ x \in FragNodeRec /\ x.key = k /\ x.deadline = nd.deadline
                        /\ x.got_first => x.tlhdr \in Keys \X Nat
                        /\ Honest(x, sent', now)
                        /\ r.tab = WithNode(x)
             Told == /\ r.ans \in AnswerRec /\ (r.ans.ret => r.ans.tlhdr \in Keys \X Nat)
                     /\ (r.ans.ret /\ ~r.ans.carried => r.ans.tlhdr = r.ans.own)
                     /\ r.ans.sum_bytes <= r.ans.early /\ ~r.ans.skipped
  <1>9. ASSUME nd.got_first PROVE Told /\ \E x : Good(x)
    <2>1. r.tab = s /\ r.ans = [NoAnswer EXCEPT !.ret = TRUE, !.tlhdr = nd.tlhdr,
                                   !.own = Datagram(k), !.carried = nd.carried]
      BY <1>9 DEF Found
    <2>2. s = WithNode(nd)
      BY <1>2 DEF FragRec
    <2> HIDE DEF r, nd, s, n, WithNode
    <2>3. Honest(nd, sent', now)
      BY <1>2, <1>3, <1>5, <1>6, <1>7, <1>9 DEF Honest
    <2>4. Good(nd)
      BY <1>2, <1>5, <2>1, <2>2, <2>3
    <2>5. Told
      <3> DEFINE a == r.ans
      <3>1. /\ a.ret = TRUE /\ a.tlhdr = nd.tlhdr /\ a.own = Datagram(k)
            /\ a.carried = nd.carried /\ a.sum_bytes = 0 /\ a.early = 0 /\ a.skipped = FALSE
        BY <2>1 DEF NoAnswer
      <3>2. a \in AnswerRec
        BY <1>4, <1>5, <1>8, <2>1 DEF AnswerRec
      <3> HIDE DEF a
      <3>3. a.sum_bytes <= a.early
        BY <3>1
      <3> QED
        BY <1>5, <1>6, <1>9, <3>1, <3>2, <3>3 DEF a
    <2> QED
      BY <2>4, <2>5
  <1>10. ASSUME ~nd.got_first, first PROVE Told /\ \E x : Good(x)
    <2> DEFINE x == [nd EXCEPT !.got_first = TRUE, !.tlhdr = Datagram(k), !.a = 0, !.pa = 0]
    <2>1. /\ r.tab = [s EXCEPT !.node[n] = [@ EXCEPT !.got_first = TRUE,
                                              !.tlhdr = Datagram(k), !.a = 0, !.pa = 0]]
          /\ r.ans = [NoAnswer EXCEPT !.ret = TRUE, !.tlhdr = Datagram(k),
                         !.own = Datagram(k), !.sum_bytes = nd.a,
                         !.sum_pkts = nd.pa, !.early = Arriving(k).early]
      BY <1>10 DEF Found
    <2>2. r.tab = WithNode(x)
      BY <1>2, <2>1 DEF FragRec
    <2>3. /\ x \in FragNodeRec /\ x.key = k /\ x.deadline = nd.deadline /\ x.got_first
          /\ x.tlhdr = Datagram(k)
      BY <1>2, <1>4 DEF FragNodeRec
    <2> HIDE DEF r, nd, s, n, x, WithNode
    <2>4. Honest(x, sent', now)
      BY <1>2, <1>3, <1>5, <1>7, <2>3 DEF Honest
    <2>5. Good(x)
      BY <1>2, <1>4, <2>2, <2>3, <2>4
    <2>6. Told
      BY <1>4, <1>5, <1>6, <1>8, <1>10, <2>1, ZenonT(30) DEF NoAnswer, AnswerRec, SentRec
    <2> QED
      BY <2>5, <2>6
  <1>11. ASSUME ~nd.got_first, ~first PROVE Told /\ \E x : Good(x)
    <2> DEFINE x == Account(nd, len)
    <2>1. r.tab = [s EXCEPT !.node[n] = Account(@, len)] /\ r.ans = NoAnswer
      BY <1>11 DEF Found
    <2>2. r.tab = WithNode(x)
      BY <1>2, <2>1 DEF FragRec
    <2>3. /\ x \in FragNodeRec /\ x.key = k /\ x.deadline = nd.deadline /\ ~x.got_first
          /\ x.a = nd.a + len
      <3>1. nd.pa + 1 \in Nat /\ nd.a + len \in Nat
        BY <1>5
      <3>2. x = [nd EXCEPT !.pa = nd.pa + 1, !.a = nd.a + len]
        BY <1>2 DEF FragNodeRec, Account
      <3> HIDE DEF x, nd
      <3>3. x \in FragNodeRec
        BY <1>2, <3>1, <3>2 DEF FragNodeRec
      <3>4. /\ x.key = nd.key /\ x.deadline = nd.deadline /\ x.got_first = nd.got_first
            /\ x.a = nd.a + len
        BY <1>2, <3>2 DEF FragNodeRec
      <3> QED
        BY <1>2, <1>11, <3>3, <3>4
    <2> HIDE DEF r, nd, s, n, x, WithNode
    <2>4. Honest(x, sent', now)
      <3>1. x.a <= sent'[k].early
        BY <1>3, <1>4, <1>5, <1>6, <1>11, <2>3 DEF SentRec
      <3> QED
        BY <1>2, <1>3, <1>5, <2>3, <3>1 DEF Honest
    <2>5. Good(x)
      BY <1>2, <2>2, <2>3, <2>4
    <2>6. Told
      BY <1>8, <2>1 DEF NoAnswer
    <2> QED
      BY <2>5, <2>6
  <1>12. Told /\ \E x : Good(x)
    BY <1>5, <1>9, <1>10, <1>11
  <1>13. PICK x : Good(x)
    BY <1>12
  <1>14. frag' = WithNode(x) /\ answer' = r.ans /\ emergency' = emergency
    BY <1>13 DEF FragFound
  <1> HIDE DEF r, nd, s, n
  <1>15. /\ FragOK(frag') /\ frag'.lru = s.lru /\ ~frag'.stale /\ frag'.wild = s.wild
         /\ frag'.node[n] = x /\ \A m \in InTable(s) : m # n => frag'.node[m] = s.node[m]
    <2>1. x \in FragNodeRec /\ x.key = s.node[n].key /\ x.deadline = s.node[n].deadline
          /\ (x.got_first => x.tlhdr \in Keys \X Nat)
      BY <1>2, <1>13 DEF nd
    <2>2. FragOK(s) /\ n \in InTable(s)
      BY <1>1, <1>2
    <2>3. frag' = [s EXCEPT !.node = [s.node EXCEPT ![n] = x]]
      BY <1>14
    <2> HIDE DEF Good, Told, Put
    <2> QED
      BY <1>2, <2>1, <2>2, <2>3, TouchKeeps
  <1>16. InTable(frag') = InTable(s)
    BY <1>15 DEF InTable
  <1>17. \A m \in InTable(frag') : m # n =>
           /\ frag'.node[m] = frag.node[m] /\ m \in InTable(frag)
           /\ frag.node[m] \in FragNodeRec /\ frag.node[m].key \in Keys
           /\ frag.node[m].key # k
    <2>1. \A m \in InTable(s) : s.node[m].key = s.node[n].key => m = n
      BY <1>1, <1>2 DEF FragOK
    <2>2. \A m \in InTable(s) : s.node[m] \in FragNodeRec /\ s.node[m].key \in Keys
      <3>1. InTable(s) \subseteq NodeIds
        BY <1>1, FragRoom
      <3> QED
        BY <1>1, <1>2, <3>1 DEF FragOK, FragRec
    <2> QED
      BY <1>1, <1>2, <1>15, <1>16, <2>1, <2>2 DEF nd
  <1>18. FragTimes'
    <2>1. \A m \in InTable(frag') : /\ emergency <= frag'.node[m].deadline
                                     /\ frag'.node[m].deadline <= now + IPF_TIMEOUT
      <3>1. \A m \in InTable(frag) : /\ emergency <= frag.node[m].deadline
                                     /\ frag.node[m].deadline <= now + IPF_TIMEOUT
        BY DEF FragInv, FragTimes
      <3>2. nd = frag.node[n] /\ n \in InTable(frag) /\ x.deadline = nd.deadline
        BY <1>1, <1>2, <1>13 DEF nd
      <3> HIDE DEF Good, Told, Put
      <3> QED
        BY <1>15, <1>17, <3>1, <3>2
    <2> QED
      BY <1>3, <1>14, <2>1 DEF FragInv, FragTimes
  <1>19. FragHonest'
    <2>1. Honest(frag'.node[n], sent', now)
      BY <1>13, <1>15
    <2>2. \A m \in InTable(frag') : m # n => Honest(frag'.node[m], sent', now)
      <3>1. \A m \in InTable(frag) : Honest(frag.node[m], sent, now)
        BY DEF FragInv, FragHonest
      <3> SUFFICES ASSUME NEW m \in InTable(frag'), m # n
                   PROVE  Honest(frag'.node[m], sent', now)
        OBVIOUS
      <3>2. PICK y \in FragNodeRec : y = frag.node[m]
        BY <1>17
      <3>3. y.key \in Keys /\ Honest(y, sent, now) /\ y.key # k /\ frag'.node[m] = y
        BY <1>17, <3>1, <3>2
      <3>4. Honest(y, sent', now)
        BY <3>3, HonestLater
      <3> QED
        BY <3>3, <3>4
    <2> QED
      BY <2>1, <2>2 DEF FragHonest
  <1>20. FragAnswers'
    BY <1>12, <1>14, <1>15 DEF FragAnswers, OwnPorts, OwnBytes, StaleRootAfterSkip,
      RefusedOnlyFull
  <1> QED
    BY <1>15, <1>18, <1>19, <1>20 DEF FragInv

\* A fragment of a datagram without a node that counts (FragCreate).
LEMMA CreateStep ==
  ASSUME FragInv, NEW k \in Keys, NEW first \in BOOLEAN, NEW len \in Nat, ~frag.wild,
         FragCreate(k, first, len), Seen(k, first, len), now' = now, pruneDeadline' \in Nat
  PROVE  FragInv'
PROOF
  <1> DEFINE s == Swept
             u == Create(s, k, first, len).tab
             a == Create(s, k, first, len).ans
  <1>1. /\ FragOK(s) /\ InTable(s) \subseteq InTable(frag) /\ s.wild = frag.wild
        /\ \A m \in InTable(s) : s.node[m] = frag.node[m]
    BY SweptKeeps
  <1>2. Datagram(k) \in Keys \X Nat /\ Arriving(k) \in SentRec
    BY ArrivingType
  <1>3. /\ now \in Nat /\ IPF_TIMEOUT \in Nat /\ emergency \in Nat /\ emergency <= now
        /\ \A m \in InTable(frag) : /\ emergency <= frag.node[m].deadline
                                    /\ frag.node[m].deadline <= now + IPF_TIMEOUT
    BY FragAssumption DEF FragInv, FragTimes
  <1>4. s.left > 0 /\ \A m \in InTable(s) : s.node[m].deadline <= now + IPF_TIMEOUT
    BY <1>1, <1>3 DEF FragCreate
  <1>5. /\ FragOK(u) /\ u.wild = s.wild /\ ~u.stale
        /\ \E n \in InTable(u) :
             /\ InTable(u) = InTable(s) \cup {n}
             /\ \A m \in InTable(u) : m # n =>
                  u.node[m] = s.node[m] /\ s.node[m].key # k
             /\ u.node[n].key = k /\ u.node[n].deadline = now + IPF_TIMEOUT
             /\ u.node[n].got_first /\ ~u.node[n].carried =>
                  u.node[n].tlhdr = Datagram(k)
             /\ ~u.node[n].got_first => ~first /\ u.node[n].a = len
    BY <1>1, <1>2, <1>3, <1>4, CreateKeeps, SMTT(30)
  <1>6. frag' = u /\ answer' = a /\ emergency' = emergency
    BY DEF FragCreate
  <1>7. /\ sent' \in [Keys -> SentRec] /\ (\A j \in Keys : sent'[j].at <= now)
        /\ (\A j \in Keys : j # k => sent'[j] = sent[j])
        /\ sent'[k].at = now /\ sent'[k].start = Arriving(k).start
        /\ sent'[k].early = IF first THEN 0 ELSE Arriving(k).early + len
    BY SeenSent
  <1>8. /\ a \in AnswerRec /\ (a.ret => a.tlhdr \in Keys \X Nat)
        /\ (a.ret /\ ~a.carried => a.tlhdr = a.own)
        /\ a.sum_bytes <= a.early /\ ~a.skipped
    <2>1. NoAnswer \in AnswerRec /\ a = IF ~first THEN NoAnswer
            ELSE [NoAnswer EXCEPT !.ret = TRUE, !.tlhdr = Datagram(k), !.own = Datagram(k)]
      BY DEF Create, NoAnswer, AnswerRec
    <2> HIDE DEF a
    <2>2. CASE first
      <3>1. /\ a.ret = TRUE /\ a.tlhdr = Datagram(k) /\ a.own = Datagram(k)
            /\ a.sum_bytes = 0 /\ a.early = 0 /\ a.skipped = FALSE
        BY <2>1, <2>2 DEF NoAnswer
      <3>2. a \in AnswerRec
        BY <1>2, <2>1, <2>2 DEF AnswerRec
      <3>3. a.sum_bytes <= a.early
        BY <3>1
      <3> QED
        BY <1>2, <3>1, <3>2, <3>3
    <2>3. CASE ~first
      BY <2>1, <2>3 DEF NoAnswer
    <2> QED
      BY <2>2, <2>3
  <1> HIDE DEF s, u, a
  <1>9. PICK n \in InTable(u) :
          /\ InTable(u) = InTable(s) \cup {n}
          /\ \A m \in InTable(u) : m # n =>
               u.node[m] = s.node[m] /\ s.node[m].key # k
          /\ u.node[n].key = k /\ u.node[n].deadline = now + IPF_TIMEOUT
          /\ u.node[n].got_first /\ ~u.node[n].carried =>
               u.node[n].tlhdr = Datagram(k)
          /\ ~u.node[n].got_first => ~first /\ u.node[n].a = len
    BY <1>5
  <1>10. \A m \in InTable(u) : m # n =>
           /\ u.node[m] = frag.node[m] /\ m \in InTable(frag)
           /\ frag.node[m] \in FragNodeRec /\ frag.node[m].key \in Keys
           /\ frag.node[m].key # k
    <2>1. \A m \in InTable(frag) : frag.node[m] \in FragNodeRec /\ frag.node[m].key \in Keys
      <3>1. InTable(frag) \subseteq NodeIds
        BY FragRoom DEF FragInv
      <3> QED
        BY <3>1 DEF FragInv, FragOK, FragRec
    <2> QED
      BY <1>1, <1>9, <2>1
  <1>11. FragTimes'
    <2>1. \A m \in InTable(u) : /\ emergency <= u.node[m].deadline
                                 /\ u.node[m].deadline <= now + IPF_TIMEOUT
      BY <1>3, <1>9, <1>10
    <2> QED
      BY <1>6, <1>7, <2>1 DEF FragInv, FragTimes
  <1>12. FragHonest'
    <2>1. Honest(u.node[n], sent', now)
      <3>1. <<k, sent'[k].start>> = Datagram(k)
        BY <1>7 DEF Datagram
      <3>2. ~u.node[n].got_first => u.node[n].a <= sent'[k].early
        BY <1>2, <1>7, <1>9 DEF SentRec
      <3>3. u.node[n].deadline <= sent'[k].at + IPF_TIMEOUT
        BY <1>3, <1>7, <1>9
      <3> QED
        BY <1>9, <3>1, <3>2, <3>3 DEF Honest
    <2>2. ASSUME NEW m \in InTable(u), m # n PROVE Honest(u.node[m], sent', now)
      <3>1. PICK y \in FragNodeRec : y = frag.node[m]
        BY <1>10, <2>2
      <3>2. Honest(frag.node[m], sent, now)
        BY <1>10, <2>2 DEF FragInv, FragHonest
      <3>3. y.key \in Keys /\ Honest(y, sent, now) /\ y.key # k /\ u.node[m] = y
        BY <1>10, <2>2, <3>1, <3>2
      <3>4. Honest(y, sent', now)
        BY <3>3, HonestLater
      <3> QED
        BY <3>3, <3>4
    <2> QED
      BY <1>6, <2>1, <2>2 DEF FragHonest
  <1>13. FragAnswers'
    BY <1>5, <1>6, <1>8 DEF FragAnswers, OwnPorts, OwnBytes, StaleRootAfterSkip,
      RefusedOnlyFull
  <1> QED
    BY <1>5, <1>6, <1>11, <1>12, <1>13 DEF FragInv

\* A fragment for which there is no room (FragSkip).
LEMMA SkipStep ==
  ASSUME FragInv, NEW k \in Keys, NEW first \in BOOLEAN, NEW len \in Nat, ~frag.wild,
         FragSkip(k, first, len), Seen(k, first, len), now' = now, pruneDeadline' \in Nat
  PROVE  FragInv'
PROOF
  <1> DEFINE s == Swept
             u == Skipped(s).tab
             a == Skipped(s).ans
  <1>1. /\ FragOK(s) /\ InTable(s) \subseteq InTable(frag) /\ s.wild = frag.wild
        /\ \A m \in InTable(s) : s.node[m] = frag.node[m]
    BY SweptKeeps
  <1>2. /\ now \in Nat /\ now > 0 /\ IPF_TIMEOUT \in Nat /\ EMER_PRUNE_INTERVAL \in Nat
        /\ emergency \in Nat /\ emergency <= now
        /\ \A m \in InTable(frag) : /\ emergency <= frag.node[m].deadline
                                    /\ frag.node[m].deadline <= now + IPF_TIMEOUT
    BY FragAssumption DEF FragInv, FragTimes
  <1>3. frag' = u /\ answer' = a /\ emergency' = IF MustPrune THEN now ELSE emergency
    BY DEF FragSkip
  <1>4. /\ FragOK(u) /\ InTable(u) \subseteq InTable(s) /\ u.wild = s.wild
        /\ \A m \in InTable(u) : u.node[m] = s.node[m]
        /\ MustPrune => \A m \in InTable(u) : u.node[m].deadline >= now
    <2>1. CASE MustPrune
      <3>1. u = Prune(s, now)
        BY <2>1 DEF Skipped
      <3>2. now \in Int
        BY <1>2
      <3> HIDE DEF u, s
      <3>3. /\ FragOK(u) /\ InTable(u) \subseteq InTable(s) /\ u.wild = s.wild
            /\ \A m \in InTable(u) : u.node[m] = s.node[m] /\ s.node[m].deadline >= now
        BY <1>1, <3>1, <3>2, PruneKeeps
      <3> QED
        BY <3>3
    <2>2. CASE ~MustPrune
      BY <1>1, <2>2 DEF Skipped
    <2> QED
      BY <2>1, <2>2
  <1>5. a = [NoAnswer EXCEPT !.skipped = TRUE, !.at = now]
    BY DEF Skipped
  <1> HIDE DEF s, u, a
  <1>6. /\ a \in AnswerRec /\ ~a.ret /\ a.sum_bytes = 0 /\ a.early = 0 /\ a.skipped
    BY <1>2, <1>5 DEF NoAnswer, AnswerRec
  <1>7. /\ sent' \in [Keys -> SentRec] /\ (\A j \in Keys : sent'[j].at <= now)
    BY SeenSent
  <1>8. \A m \in InTable(u) : /\ u.node[m] = frag.node[m] /\ m \in InTable(frag)
                              /\ frag.node[m] \in FragNodeRec /\ frag.node[m].key \in Keys
    <2>1. \A m \in InTable(frag) : frag.node[m] \in FragNodeRec /\ frag.node[m].key \in Keys
      <3>1. InTable(frag) \subseteq NodeIds
        BY FragRoom DEF FragInv
      <3> QED
        BY <3>1 DEF FragInv, FragOK, FragRec
    <2> QED
      BY <1>1, <1>4, <2>1
  <1>9. FragTimes'
    <2>1. emergency' \in Nat /\ emergency' <= now
      BY <1>2, <1>3
    <2>2. \A m \in InTable(u) : /\ emergency' <= u.node[m].deadline
                                 /\ u.node[m].deadline <= now + IPF_TIMEOUT
      BY <1>2, <1>3, <1>4, <1>8
    <2> QED
      BY <1>3, <1>7, <2>1, <2>2 DEF FragInv, FragTimes
  <1>10. FragHonest'
    <2>1. ASSUME NEW m \in InTable(u) PROVE Honest(u.node[m], sent', now)
      <3>1. PICK y \in FragNodeRec : y = frag.node[m]
        BY <1>8, <2>1
      <3>2. Honest(frag.node[m], sent, now)
        BY <1>8, <2>1 DEF FragInv, FragHonest
      <3>3. y.key \in Keys /\ Honest(y, sent, now) /\ u.node[m] = y
        BY <1>8, <2>1, <3>1, <3>2
      <3>4. y.key # k \/ ~(y.deadline > now)
        <4>1. m \in InTable(s) /\ s.node[m] = y
          BY <1>1, <1>4, <2>1, <3>3
        <4>2. ASSUME y.key = k PROVE Hits(s, k) # {} /\ m = Match(s, k)
          BY <1>1, <4>1, <4>2, FragBucket
        <4>3. ~Matched(s, k)
          BY DEF FragSkip, s
        <4> QED
          BY <4>1, <4>2, <4>3 DEF Matched, Valid
      <3>5. Honest(y, sent', now)
        BY <3>3, <3>4, HonestLater
      <3> QED
        BY <3>3, <3>5
    <2> QED
      BY <1>3, <2>1 DEF FragHonest
  <1>11. FragAnswers'
    <2>1. \A m \in InTable(u) : u.node[m].deadline + EMER_PRUNE_INTERVAL >= now
      <3>1. CASE MustPrune
        BY <1>2, <1>4, <1>8, <3>1 DEF FragNodeRec
      <3>2. CASE ~MustPrune
        BY <1>2, <1>8, <3>2 DEF MustPrune, FragNodeRec
      <3> QED
        BY <3>1, <3>2
    <2> QED
      BY <1>3, <1>6, <2>1 DEF FragAnswers, OwnPorts, OwnBytes, StaleRootAfterSkip,
        RefusedOnlyFull
  <1> QED
    BY <1>3, <1>4, <1>9, <1>10, <1>11 DEF FragInv

\* A prune that follows a freed root: nothing is said of the nodes any more.
LEMMA UndefinedStep ==
  ASSUME FragInv, NEW k \in Keys, NEW first \in BOOLEAN, NEW len \in Nat,
         FragUndefined(k), Seen(k, first, len), now' = now, pruneDeadline' \in Nat
  PROVE  FragInv'
PROOF
  <1>1. frag \in FragRec
    BY DEF FragInv, FragOK
  <1>2. /\ frag' \in FragRec /\ frag'.chain = frag.chain /\ frag'.lru = frag.lru
        /\ frag'.node = frag.node /\ frag'.left = frag.left /\ frag'.stale = frag.stale
        /\ frag'.wild /\ emergency' = emergency /\ answer' = answer
    BY <1>1 DEF FragUndefined, FragRec
  <1>3. InTable(frag') = InTable(frag)
    BY <1>2 DEF InTable
  <1>4. FragOK(frag')
    BY <1>2, <1>3 DEF FragOK, FragInv
  <1>5. FragTimes'
    <2>1. sent' \in [Keys -> SentRec] /\ \A j \in Keys : sent'[j].at <= now
      BY SeenSent
    <2> QED
      BY <1>2, <1>3, <2>1 DEF FragInv, FragTimes
  <1>6. FragHonest' /\ FragAnswers'
    BY <1>2, <1>3 DEF FragInv, FragHonest, FragAnswers, OwnPorts, OwnBytes,
      StaleRootAfterSkip, RefusedOnlyFull
  <1> QED
    BY <1>4, <1>5, <1>6 DEF FragInv

\* ip_fragment_handler() keeps the invariant.
LEMMA FragHandlerKeeps ==
  ASSUME FragInv, NEW k \in Keys, NEW first \in BOOLEAN, NEW len \in Nat,
         FragHandler(k, first, len), now' = now
  PROVE  FragInv'
PROOF
  <1>1. ~frag.wild /\ Seen(k, first, len)
    BY DEF FragHandler
  <1>2. pruneDeadline' \in Nat
    <2>1. now \in Nat /\ pruneDeadline \in Nat /\ PRUNE_INTERVAL \in Nat
      BY FragAssumption DEF FragInv, FragTimes
    <2> QED
      BY <2>1 DEF FragHandler
  <1>3. CASE FragFound(k, first, len)
    BY <1>1, <1>2, <1>3, FoundKeeps
  <1>4. CASE FragCreate(k, first, len)
    BY <1>1, <1>2, <1>4, CreateStep
  <1>5. CASE FragSkip(k, first, len)
    BY <1>1, <1>2, <1>5, SkipStep
  <1>6. CASE FragUndefined(k)
    BY <1>1, <1>2, <1>6, UndefinedStep
  <1> QED
    BY <1>3, <1>4, <1>5, <1>6 DEF FragHandler

\* Neither does a packet that is not a fragment, or a second that passes, harm it.
LEMMA NoFragmentKeeps ==
  ASSUME FragInv, NoFragment, now' \in {now, now + 1}
  PROVE  FragInv'
PROOF
  <1>1. /\ frag' = frag /\ pruneDeadline' = pruneDeadline /\ emergency' = emergency
        /\ sent' = sent /\ answer' = [NoAnswer EXCEPT !.skipped = answer.skipped]
    BY DEF NoFragment
  <1>2. answer.skipped \in BOOLEAN
    BY DEF FragInv, FragAnswers, AnswerRec
  <1>3. /\ answer' \in AnswerRec /\ answer'.ret = FALSE /\ answer'.sum_bytes = 0
        /\ answer'.early = 0 /\ answer'.at = 0 /\ answer'.skipped = answer.skipped
    BY <1>1, <1>2 DEF NoAnswer, AnswerRec
  <1>4. /\ now \in Nat /\ now > 0 /\ emergency \in Nat /\ emergency <= now
        /\ sent \in [Keys -> SentRec] /\ (\A k \in Keys : sent[k].at <= now)
        /\ \A n \in InTable(frag) : /\ emergency <= frag.node[n].deadline
                                    /\ frag.node[n].deadline <= now + IPF_TIMEOUT
        /\ IPF_TIMEOUT \in Nat
    BY FragAssumption DEF FragInv, FragTimes
  <1>5. \A n \in InTable(frag) : /\ frag.node[n].deadline \in Nat
                                 /\ frag.node[n].key \in Keys
    <2>1. InTable(frag) \subseteq NodeIds
      BY FragRoom DEF FragInv
    <2> QED
      BY <2>1 DEF FragInv, FragOK, FragRec, FragNodeRec
  <1>6. now' \in Nat \ {0} /\ now <= now'
    BY <1>4
  <1>7. FragTimes'
    <2>1. \A k \in Keys : sent[k].at <= now'
      BY <1>4, <1>6 DEF SentRec
    <2>2. \A n \in InTable(frag) : frag.node[n].deadline <= now' + IPF_TIMEOUT
      BY <1>4, <1>5, <1>6
    <2>3. emergency <= now'
      BY <1>4, <1>6
    <2> QED
      BY <1>1, <1>4, <1>6, <2>1, <2>2, <2>3 DEF FragInv, FragTimes
  <1>8. FragHonest'
    <2>1. ASSUME NEW n \in InTable(frag), Honest(frag.node[n], sent, now)
          PROVE  Honest(frag.node[n], sent, now')
      BY <1>4, <1>5, <1>6, <2>1 DEF Honest
    <2> QED
      BY <1>1, <2>1 DEF FragInv, FragHonest
  <1>9. FragAnswers'
    BY <1>1, <1>3, <1>4, <1>6 DEF FragInv, FragAnswers, OwnPorts, OwnBytes,
      StaleRootAfterSkip, RefusedOnlyFull
  <1> QED
    BY <1>1, <1>7, <1>8, <1>9 DEF FragInv

\* The fragment table at start.
LEMMA FragStarts ==
  ASSUME ClockInit, FragInit
  PROVE  FragInv
PROOF
  <1>1. /\ now \in Nat \ {0} /\ PRUNE_INTERVAL \in Nat /\ FragNodes \in Nat
        /\ IPF_TIMEOUT \in Nat
    BY CaptureAssumption, FragAssumption DEF ClockInit
  <1> DEFINE e == << >>
  <1>2. e \in Seq(NodeIds) /\ Len(e) = 0 /\ Range(e) = {} /\ Once(e) /\ DOMAIN e = {}
    <2>1. e \in Seq(NodeIds) /\ Len(e) = 0 /\ DOMAIN e = {}
      BY EmptySeq
    <2> QED
      BY <2>1 DEF Range, Once
  <1>3. NewNode \in FragNodeRec
    BY DEF NewNode, FragNodeRec
  <1>4. /\ frag.chain = [b \in FragBuckets |-> e] /\ frag.lru = e
        /\ frag.node = [n \in NodeIds |-> NewNode] /\ frag.left = FragNodes
        /\ frag.stale = FALSE /\ frag.wild = FALSE
        /\ frag = [chain |-> frag.chain, lru |-> frag.lru, node |-> frag.node,
                   left |-> frag.left, stale |-> frag.stale, wild |-> frag.wild]
    BY DEF FragInit, EmptyTable
  <1> HIDE DEF e
  <1>5. frag \in FragRec
    BY <1>1, <1>2, <1>3, <1>4 DEF FragRec
  <1>6. InTable(frag) = {}
    BY <1>2, <1>4 DEF InTable
  <1>7. Filed(frag.chain, frag.lru, Homes(frag.node), FragBuckets, NodeIds)
    BY <1>2, <1>4, <1>5 DEF Filed
  <1>8. Ascending(frag.lru, Deadlines(frag.node))
    BY <1>2, <1>4 DEF Ascending
  <1>9. FragOK(frag)
    BY <1>1, <1>2, <1>4, <1>5, <1>6, <1>7, <1>8 DEF FragOK
  <1>10. FragTimes /\ FragHonest
    <2>1. sent \in [Keys -> SentRec] /\ \A k \in Keys : sent[k].at <= now
      BY <1>1 DEF FragInit, SentRec
    <2> QED
      BY <1>1, <1>6, <2>1 DEF FragInit, FragTimes, FragHonest
  <1>11. FragAnswers
    BY <1>4 DEF FragInit, NoAnswer, AnswerRec, FragAnswers, OwnPorts, OwnBytes,
      StaleRootAfterSkip, RefusedOnlyFull
  <1> QED
    BY <1>9, <1>10, <1>11 DEF FragInv

\* What the invariant says in the words of the properties.
LEMMA FragSound ==
  ASSUME FragInv
  PROVE  /\ FragTypeOK /\ FragAccounted /\ LruSorted /\ StaleRootAfterSkip
         /\ OwnFragments /\ RefusedOnlyFull
PROOF
  <1>1. /\ frag \in FragRec /\ frag.left + Len(frag.lru) = FragNodes /\ frag.left \in Nat
        /\ Len(frag.lru) \in Nat /\ FragNodes \in Nat
        /\ InTable(frag) \subseteq NodeIds
        /\ Filed(frag.chain, frag.lru, Homes(frag.node), FragBuckets, NodeIds)
    BY FragRoom, FragAssumption DEF FragInv, FragOK, FragRec
  <1>2. FragTypeOK
    BY <1>1 DEF FragInv, FragTimes, FragRec, FragNodeRec, SentRec, FragTypeOK
  <1>3. FragAccounted
    <2>1. \A b \in FragBuckets :
            /\ Once(frag.chain[b])
            /\ Range(frag.chain[b]) = {n \in InTable(frag) : HashFragment(frag.node[n].key) = b}
      BY <1>1 DEF Filed, Homes, InTable
    <2>2. \A n \in InTable(frag) : HashFragment(frag.node[n].key) \in FragBuckets
      BY FragAssumption DEF FragInv, FragOK
    <2>3. InTable(frag) = UNION {Range(frag.chain[b]) : b \in FragBuckets}
      BY <2>1, <2>2
    <2>4. \A b \in FragBuckets : \A i \in DOMAIN frag.chain[b] :
            /\ frag.chain[b][i] \in InTable(frag)
            /\ HashFragment(frag.node[frag.chain[b][i]].key) = b
      <3>1. \A b \in FragBuckets : \A i \in DOMAIN frag.chain[b] :
              frag.chain[b][i] \in Range(frag.chain[b])
        BY DEF Range
      <3> QED
        BY <2>1, <3>1
    <2>5. \A b \in FragBuckets : \A i, j \in DOMAIN frag.chain[b] :
            frag.node[frag.chain[b][i]].key = frag.node[frag.chain[b][j]].key => i = j
      BY <2>1, <2>4 DEF FragInv, FragOK, Once
    <2> QED
      BY <1>1, <2>3, <2>4, <2>5 DEF FragAccounted, Filed, Once
  <1>4. LruSorted
    <2>1. \A i \in DOMAIN frag.lru : frag.lru[i] \in NodeIds
      BY <1>1 DEF InTable, Range
    <2> QED
      BY <2>1 DEF FragInv, FragOK, Ascending, Deadlines, LruSorted
  <1> QED
    BY <1>2, <1>3, <1>4 DEF FragInv, FragAnswers, OwnFragments

-----------------------------------------------------------------------------
(* The flow table as a value *)

Tuples == Nat \X Nat \X Nat \X Nat \X STRING
\* the tuples normalize_flow() leaves
Normal == {d \in Tuples : ~(d[3] < d[4] \/ (d[3] = d[4] /\ d[1] < d[2]))}

FlowNodeRec == [key : Tuples \cup {<< >>}, last : [Dirs -> Nat],
                tcp_flags : [Dirs -> SUBSET TcpFlags], last_tcp_seq : Nat,
                class : [Dirs -> Nat], tentatives : [Dirs -> Nat], ba : [Dirs -> Nat],
                helper : BOOLEAN]
FlowRec == [chain : [FlowBuckets -> Seq(FlowIds)], lru : Seq(FlowIds),
            node : [FlowIds -> FlowNodeRec], left : Nat]

FlowHomes(node) == [n \in FlowIds |-> HashFlow(node[n].key)]

FlowOK(t) ==
  /\ t \in FlowRec
  /\ Filed(t.chain, t.lru, FlowHomes(t.node), FlowBuckets, FlowIds)
  /\ t.left + Len(t.lru) = FlowNodes
  /\ \A m, n \in FlowsIn(t) : t.node[m].key = t.node[n].key => m = n
  /\ \A n \in FlowsIn(t) : t.node[n].key \in Normal

\* A node as create_flow() clears it is a node.
LEMMA NewFlowType ==
  ASSUME NEW key \in Tuples \cup {<< >>}
  PROVE  NewFlowNode(key) \in FlowNodeRec /\ NewFlowNode(key).key = key
PROOF
  <1>1. {} \in SUBSET TcpFlags /\ 0 \in Nat /\ FALSE \in BOOLEAN
    OBVIOUS
  <1> QED
    BY <1>1 DEF NewFlowNode, FlowNodeRec, Dirs

\* The nodes of a table are nodes, and there is one more while the budget lasts.
LEMMA FlowRoom ==
  ASSUME NEW t, FlowOK(t)
  PROVE  /\ FlowsIn(t) \subseteq FlowIds /\ Len(t.lru) \in Nat
         /\ t.left > 0 => /\ Min(FlowIds \ FlowsIn(t)) \in FlowIds
                          /\ Min(FlowIds \ FlowsIn(t)) \notin FlowsIn(t)
PROOF
  <1>1. /\ t.lru \in Seq(FlowIds) /\ t.left \in Nat /\ t.left + Len(t.lru) = FlowNodes
        /\ FlowNodes \in Nat
    BY FlowAssumption DEF FlowOK, FlowRec
  <1>2. /\ FlowsIn(t) \subseteq FlowIds /\ Cardinality(FlowsIn(t)) <= Len(t.lru)
        /\ IsFiniteSet(FlowsIn(t)) /\ Cardinality(FlowsIn(t)) \in Nat
    BY <1>1, RangeOf DEF FlowsIn
  <1>3. Len(t.lru) \in Nat
    BY <1>1, LenProperties
  <1>4. ASSUME t.left > 0 PROVE FlowIds \ FlowsIn(t) # {}
    <2>1. SUFFICES ASSUME FlowIds = FlowsIn(t) PROVE FALSE
      BY <1>2
    <2>2. Cardinality(FlowIds) = FlowNodes
      BY <1>1, FS_Interval DEF FlowIds
    <2> QED
      BY <1>1, <1>2, <1>3, <1>4, <2>1, <2>2
  <1>5. ASSUME t.left > 0 PROVE Min(FlowIds \ FlowsIn(t)) \in FlowIds \ FlowsIn(t)
    <2>1. FlowIds \ FlowsIn(t) \subseteq Nat
      BY DEF FlowIds
    <2> QED
      BY <1>4, <1>5, <2>1, MinOf
  <1> QED
    BY <1>2, <1>3, <1>5

\* prune_old_flows() leaves a table with the nodes that are not expired.
LEMMA PruneFlowsKeeps ==
  ASSUME NEW t, FlowOK(t)
  PROVE  LET u == PruneFlows(t)
         IN /\ FlowOK(u)
            /\ FlowsIn(u) = {n \in FlowsIn(t) : ~IsExpired(now, t.node[n])}
            /\ \A n \in FlowsIn(u) : u.node[n] = t.node[n]
PROOF
  <1> DEFINE gone == {n \in FlowsIn(t) : IsExpired(now, t.node[n])}
             keep == FlowIds \ gone
             rest == Kept(t.lru, keep)
             node == [n \in FlowIds |-> IF n \in gone THEN FreeFlow ELSE t.node[n]]
             u == PruneFlows(t)
  <1>0. /\ t \in FlowRec /\ t.lru \in Seq(FlowIds) /\ t.left \in Nat
        /\ t.node \in [FlowIds -> FlowNodeRec] /\ FlowsIn(t) \subseteq FlowIds
    BY FlowRoom DEF FlowOK, FlowRec
  <1>1. /\ u.chain = KeptIn(t.chain, FlowBuckets, keep) /\ u.lru = rest /\ u.node = node
        /\ u.left = t.left + Cardinality(gone)
        /\ u = [chain |-> u.chain, lru |-> u.lru, node |-> u.node, left |-> u.left]
    BY DEF PruneFlows, KeptIn
  <1>3. gone \in SUBSET FlowsIn(t)
    OBVIOUS
  <1>4. Filed(t.chain, t.lru, FlowHomes(t.node), FlowBuckets, FlowIds)
    BY DEF FlowOK
  <1> HIDE DEF gone
  <1>5. /\ Filed(KeptIn(t.chain, FlowBuckets, keep), rest, FlowHomes(t.node), FlowBuckets, FlowIds)
        /\ Range(rest) = Range(t.lru) \ gone
        /\ Cardinality(gone) \in Nat /\ Len(rest) \in Nat
        /\ Len(rest) + Cardinality(gone) = Len(t.lru)
    BY <1>3, <1>4, FiledWithout, SMTT(30) DEF FlowsIn
  <1>6. \A n \in FlowIds : n \notin gone => node[n] = t.node[n]
    BY <1>0
  <1>7. FreeFlow \in FlowNodeRec
    BY NewFlowType DEF FreeFlow
  <1>8. node \in [FlowIds -> FlowNodeRec]
    BY <1>0, <1>7
  <1> HIDE DEF node, rest, keep, u
  <1>9. u \in FlowRec
    <2>1. /\ u.chain \in [FlowBuckets -> Seq(FlowIds)] /\ u.lru \in Seq(FlowIds)
      BY <1>1, <1>5 DEF Filed
    <2>2. u.node \in [FlowIds -> FlowNodeRec] /\ u.left \in Nat
      BY <1>0, <1>1, <1>5, <1>8
    <2> QED
      BY <1>1, <2>1, <2>2 DEF FlowRec
  <1>10. /\ FlowsIn(u) = FlowsIn(t) \ gone
         /\ \A n \in FlowsIn(u) : u.node[n] = t.node[n]
    <2>1. FlowsIn(u) = FlowsIn(t) \ gone
      BY <1>1, <1>5 DEF FlowsIn
    <2> QED
      BY <1>0, <1>1, <1>6, <2>1
  <1>11. Filed(u.chain, u.lru, FlowHomes(u.node), FlowBuckets, FlowIds)
    <2> DEFINE h == FlowHomes(t.node)
               g == FlowHomes(u.node)
    <2>1. \A n \in Range(u.lru) : g[n] = h[n]
      BY <1>0, <1>10 DEF FlowsIn, FlowHomes
    <2> HIDE DEF h, g
    <2>2. Filed(u.chain, u.lru, h, FlowBuckets, FlowIds)
      BY <1>1, <1>5 DEF h
    <2>3. Filed(u.chain, u.lru, g, FlowBuckets, FlowIds)
      BY <2>1, <2>2, FiledSame
    <2> QED
      BY <2>3 DEF g
  <1>12. u.left + Len(u.lru) = FlowNodes
    BY <1>0, <1>1, <1>5 DEF FlowOK
  <1>13. FlowOK(u)
    BY <1>9, <1>10, <1>11, <1>12 DEF FlowOK
  <1> QED
    BY <1>10, <1>13 DEF u, gone

\* What is written into a node without touching its tuple.
LEMMA TouchFlowKeeps ==
  ASSUME NEW t, FlowOK(t), NEW n \in FlowsIn(t), NEW nd \in FlowNodeRec,
         nd.key = t.node[n].key
  PROVE  LET u == [t EXCEPT !.node = [t.node EXCEPT ![n] = nd]]
         IN /\ FlowOK(u) /\ FlowsIn(u) = FlowsIn(t) /\ u.node[n] = nd
            /\ \A m \in FlowsIn(t) : m # n => u.node[m] = t.node[m]
PROOF
  <1> DEFINE v == [t.node EXCEPT ![n] = nd]
             u == [t EXCEPT !.node = v]
  <1>0. /\ t \in FlowRec /\ t.node \in [FlowIds -> FlowNodeRec]
        /\ FlowsIn(t) \subseteq FlowIds
    BY FlowRoom DEF FlowOK, FlowRec
  <1>1. /\ v \in [FlowIds -> FlowNodeRec] /\ v[n] = nd
        /\ \A m \in FlowIds : m # n => v[m] = t.node[m]
    BY <1>0
  <1> HIDE DEF v
  <1>2. /\ u \in FlowRec /\ u.lru = t.lru /\ u.node = v /\ u.chain = t.chain
        /\ u.left = t.left
    BY <1>0, <1>1 DEF FlowRec
  <1>3. \A m \in FlowsIn(t) : v[m].key = t.node[m].key
    BY <1>0, <1>1
  <1> HIDE DEF u
  <1>4. FlowsIn(u) = FlowsIn(t)
    BY <1>2 DEF FlowsIn
  <1>5. Filed(u.chain, u.lru, FlowHomes(u.node), FlowBuckets, FlowIds)
    <2> DEFINE f == FlowHomes(t.node)
               g == FlowHomes(v)
    <2>1. \A m \in Range(t.lru) : g[m] = f[m]
      BY <1>0, <1>3 DEF FlowHomes, FlowsIn
    <2>2. Filed(t.chain, t.lru, f, FlowBuckets, FlowIds)
      BY DEF FlowOK
    <2> HIDE DEF f, g
    <2>3. Filed(t.chain, t.lru, g, FlowBuckets, FlowIds)
      BY <2>1, <2>2, FiledSame
    <2> QED
      BY <1>2, <2>3 DEF g
  <1>6. /\ \A m, x \in FlowsIn(t) : v[m].key = v[x].key => m = x
        /\ \A m \in FlowsIn(t) : v[m].key \in Normal
    BY <1>3 DEF FlowOK
  <1>7. u.left + Len(u.lru) = FlowNodes
    BY <1>2 DEF FlowOK
  <1>8. FlowOK(u)
    BY <1>2, <1>4, <1>5, <1>6, <1>7 DEF FlowOK
  <1> QED
    BY <1>0, <1>1, <1>2, <1>4, <1>8 DEF u, v

\* create_flow() leaves a table in which the tuple has a cleared node: an expired
\* one of its bucket or a new one.
LEMMA FlowPlacedKeeps ==
  ASSUME NEW t, FlowOK(t), NEW p, FlowKey(p) \in Normal, HashFlow(FlowKey(p)) \in FlowBuckets,
         FlowHits(t, p) = {}, t.left > 0
  PROVE  LET u == FlowPlaced(t, p).tab
             n == FlowPlaced(t, p).id
         IN /\ FlowOK(u) /\ n \in FlowsIn(u) /\ FlowsIn(u) = FlowsIn(t) \cup {n}
            /\ u.node[n] = NewFlowNode(FlowKey(p))
            /\ \A m \in FlowsIn(t) : m # n => u.node[m] = t.node[m]
            /\ n \in FlowsIn(t) => IsExpired(now, t.node[n])
PROOF
  <1> DEFINE key == FlowKey(p)
             b == HashFlow(key)
             x == FlowExpired(t, p)
             c == t.chain[b]
             nd == NewFlowNode(key)
             u == FlowPlaced(t, p).tab
             n == FlowPlaced(t, p).id
  <1>0. /\ t \in FlowRec /\ t.lru \in Seq(FlowIds) /\ t.left \in Nat
        /\ t.node \in [FlowIds -> FlowNodeRec] /\ t.chain \in [FlowBuckets -> Seq(FlowIds)]
        /\ FlowsIn(t) \subseteq FlowIds /\ Len(t.lru) \in Nat
        /\ t.left + Len(t.lru) = FlowNodes
        /\ Filed(t.chain, t.lru, FlowHomes(t.node), FlowBuckets, FlowIds)
    BY FlowRoom DEF FlowOK, FlowRec
  <1>1. nd \in FlowNodeRec /\ nd.key = key
    BY NewFlowType DEF Normal
  <1>2. \A m \in FlowsIn(t) : t.node[m].key # key
    BY DEF FlowHits
  <1>3. n = IF x # {} THEN c[Min(x)] ELSE Min(FlowIds \ FlowsIn(t))
    BY DEF FlowPlaced
  <1> DEFINE Kept2(h) == ToEnd(t.lru, FlowIds, h)
             Node2(h) == [t.node EXCEPT ![h] = nd]
  <1>4. ASSUME NEW h \in FlowIds, u \in FlowRec, u.node = Node2(h), n = h,
               FlowsIn(u) = FlowsIn(t) \cup {h}, u.left + Len(u.lru) = FlowNodes,
               Filed(u.chain, u.lru, FlowHomes(u.node), FlowBuckets, FlowIds)
        PROVE  /\ FlowOK(u) /\ n \in FlowsIn(u) /\ FlowsIn(u) = FlowsIn(t) \cup {n}
               /\ u.node[n] = nd
               /\ \A m \in FlowsIn(t) : m # n => u.node[m] = t.node[m]
    <2> HIDE DEF u, n, nd, key, b, c, x
    <2>1. u.node[h] = nd /\ \A m \in FlowIds : m # h => u.node[m] = t.node[m]
      BY <1>0, <1>4
    <2>2. \A m \in FlowsIn(t) : m # h => u.node[m] = t.node[m]
      BY <1>0, <2>1
    <2>3. \A m, y \in FlowsIn(u) : u.node[m].key = u.node[y].key => m = y
      BY <1>1, <1>2, <1>4, <2>1, <2>2 DEF FlowOK
    <2>4. \A m \in FlowsIn(u) : u.node[m].key \in Normal
      BY <1>1, <1>4, <2>1, <2>2 DEF FlowOK, key
    <2>5. FlowOK(u)
      BY <1>4, <2>3, <2>4 DEF FlowOK
    <2> QED
      BY <1>4, <2>1, <2>2, <2>5
  <1>5. CASE x # {}
    <2>1. /\ Min(x) \in x /\ c \in Seq(FlowIds)
          /\ Range(c) = {m \in FlowsIn(t) : FlowHomes(t.node)[m] = b}
      <3>1. c \in Seq(FlowIds) /\ Range(c) = {m \in FlowsIn(t) : FlowHomes(t.node)[m] = b}
        BY <1>0 DEF Filed, FlowsIn
      <3>2. DOMAIN c = 1 .. Len(c) /\ Len(c) \in Nat
        BY <3>1, LenProperties
      <3>3. x \subseteq Nat
        BY <3>2 DEF FlowExpired
      <3> HIDE DEF x
      <3>4. Min(x) \in x
        BY <1>5, <3>3, MinOf, Zenon
      <3> QED
        BY <3>1, <3>4
    <2>2. Min(x) \in DOMAIN c /\ IsExpired(now, t.node[c[Min(x)]])
      BY <2>1, Zenon DEF FlowExpired
    <2>3. PICK h \in FlowsIn(t) : h = n /\ FlowHomes(t.node)[h] = b /\ IsExpired(now, t.node[h])
      <3>1. c[Min(x)] \in Range(c)
        BY <2>2 DEF Range
      <3> HIDE DEF c, x, n
      <3> QED
        BY <1>3, <1>5, <2>1, <2>2, <3>1
    <2>4. h \in FlowIds /\ HashFlow(t.node[h].key) = b
      BY <1>0, <2>3 DEF FlowHomes
    <2>5. u = [t EXCEPT !.lru = Kept2(h), !.node = Node2(h)]
      <3>1. u = [t EXCEPT !.lru = Append(Kept(@, FlowIds \ {h}), h), !.node[h] = nd]
        BY <1>5, <2>3 DEF FlowPlaced
      <3> QED
        BY <1>0, <3>1 DEF FlowRec, ToEnd
    <2>6. /\ Filed(t.chain, Kept2(h), FlowHomes(t.node), FlowBuckets, FlowIds)
          /\ Range(Kept2(h)) = Range(t.lru) /\ Len(Kept2(h)) = Len(t.lru)
      <3> DEFINE f == FlowHomes(t.node)
      <3>1. Filed(t.chain, t.lru, f, FlowBuckets, FlowIds) /\ h \in Range(t.lru)
        BY <1>0, <2>3 DEF FlowsIn
      <3> HIDE DEF f
      <3>2. /\ Filed(t.chain, Kept2(h), f, FlowBuckets, FlowIds)
            /\ Range(Kept2(h)) = Range(t.lru) /\ Len(Kept2(h)) = Len(t.lru)
        BY <3>1, FiledAgain
      <3> QED
        BY <3>2 DEF f
    <2> DEFINE v == Node2(h)
               l == Kept2(h)
    <2>7. v \in [FlowIds -> FlowNodeRec] /\ l \in Seq(FlowIds)
      BY <1>0, <1>1, <2>4, <2>6 DEF Filed
    <2>8. Filed(t.chain, l, FlowHomes(v), FlowBuckets, FlowIds)
      <3> DEFINE f == FlowHomes(t.node)
                 g == FlowHomes(v)
      <3>1. \A m \in Range(l) : g[m] = f[m]
        <4>1. \A m \in FlowIds : f[m] = HashFlow(t.node[m].key) /\ g[m] = HashFlow(v[m].key)
          BY DEF FlowHomes
        <4>2. v[h].key = key /\ \A m \in FlowIds : m # h => v[m] = t.node[m]
          BY <1>0, <1>1, <2>4
        <4>3. \A m \in Range(l) : m \in FlowIds
          BY <1>0, <2>6 DEF FlowsIn
        <4> HIDE DEF f, g, v, l
        <4> QED
          BY <2>4, <4>1, <4>2, <4>3
      <3> HIDE DEF f, g, l, v
      <3>2. Filed(t.chain, l, f, FlowBuckets, FlowIds)
        BY <2>6 DEF f, l
      <3>3. Filed(t.chain, l, g, FlowBuckets, FlowIds)
        BY <3>1, <3>2, FiledSame
      <3> QED
        BY <3>3 DEF g
    <2> HIDE DEF u, n, v, l
    <2>9. u = [t EXCEPT !.lru = l, !.node = v]
      BY <2>5 DEF v, l
    <2>10. /\ u \in FlowRec /\ u.lru = l /\ u.node = v /\ u.chain = t.chain /\ u.left = t.left
      BY <1>0, <2>7, <2>9 DEF FlowRec
    <2>11. FlowsIn(u) = FlowsIn(t) \cup {h}
      BY <2>3, <2>6, <2>10 DEF FlowsIn, l
    <2>12. Len(l) = Len(t.lru)
      BY <2>6 DEF l
    <2>13. u.left + Len(u.lru) = FlowNodes
      BY <1>0, <2>10, <2>12
    <2>14. Filed(u.chain, u.lru, FlowHomes(u.node), FlowBuckets, FlowIds)
      BY <2>8, <2>10
    <2>15. u.node = Node2(h)
      BY <2>10 DEF v
    <2>16. /\ FlowOK(u) /\ n \in FlowsIn(u) /\ FlowsIn(u) = FlowsIn(t) \cup {n}
           /\ u.node[n] = nd
           /\ \A m \in FlowsIn(t) : m # n => u.node[m] = t.node[m]
      BY <1>4, <2>3, <2>4, <2>10, <2>11, <2>13, <2>14, <2>15
    <2> QED
      BY <2>3, <2>16 DEF u, n
  <1>6. CASE x = {}
    <2>1. PICK h \in FlowIds \ FlowsIn(t) : h = n
      BY <1>3, <1>6, FlowRoom
    <2> DEFINE v == Node2(h)
               l == Append(t.lru, h)
               d == AddedTo(t.chain, b, h)
    <2>2. u = [t EXCEPT !.lru = l, !.chain = d, !.node = v, !.left = t.left - 1]
      <3>1. u = [t EXCEPT !.lru = Append(@, h), !.chain[b] = Append(@, h),
                          !.node[h] = nd, !.left = @ - 1]
        BY <1>6, <2>1 DEF FlowPlaced
      <3> QED
        BY <1>0, <3>1 DEF FlowRec, AddedTo
    <2>3. h \in FlowIds /\ h \notin FlowsIn(t)
      BY <2>1
    <2>4. v \in [FlowIds -> FlowNodeRec] /\ t.left - 1 \in Nat
      BY <1>0, <1>1, <2>3
    <2>5. /\ Filed(d, l, FlowHomes(v), FlowBuckets, FlowIds)
          /\ Range(l) = Range(t.lru) \cup {h} /\ Len(l) = Len(t.lru) + 1
      <3> DEFINE f == FlowHomes(t.node)
                 g == FlowHomes(v)
      <3>1. (\A m \in Range(t.lru) : g[m] = f[m]) /\ g[h] = b
        <4>1. \A m \in FlowIds : f[m] = HashFlow(t.node[m].key) /\ g[m] = HashFlow(v[m].key)
          BY DEF FlowHomes
        <4>2. v[h].key = key /\ \A m \in FlowIds : m # h => v[m] = t.node[m]
          BY <1>0, <1>1, <2>3
        <4>3. \A m \in Range(t.lru) : m \in FlowIds /\ m # h
          BY <1>0, <2>3 DEF FlowsIn
        <4> HIDE DEF f, g, v, l
        <4> QED
          BY <2>3, <4>1, <4>2, <4>3
      <3>2. Filed(t.chain, t.lru, f, FlowBuckets, FlowIds)
        BY <1>0
      <3>3. h \in FlowIds \ Range(t.lru) /\ b \in FlowBuckets
        BY <2>3 DEF FlowsIn
      <3> HIDE DEF u, n, v, f, g, b
      <3>4. /\ Filed(d, l, g, FlowBuckets, FlowIds) /\ Len(l) = Len(t.lru) + 1
        BY <3>1, <3>2, <3>3, FiledNew
      <3>5. Range(l) = Range(t.lru) \cup {h}
        BY <3>1, <3>2, <3>3, FiledNew
      <3> HIDE DEF l, d
      <3> QED
        BY <3>4, <3>5 DEF g
    <2>6. d \in [FlowBuckets -> Seq(FlowIds)] /\ l \in Seq(FlowIds)
      BY <2>5 DEF Filed
    <2> HIDE DEF u, n, v, l, d
    <2>7. /\ u \in FlowRec /\ u.lru = l /\ u.node = v /\ u.chain = d /\ u.left = t.left - 1
      BY <1>0, <2>2, <2>4, <2>6 DEF FlowRec
    <2>8. FlowsIn(u) = FlowsIn(t) \cup {h}
      BY <2>5, <2>7 DEF FlowsIn
    <2>9. u.left + Len(u.lru) = FlowNodes
      <3>1. Len(u.lru) = Len(t.lru) + 1 /\ u.left = t.left - 1
        BY <2>5, <2>7
      <3>2. t.left \in Nat /\ Len(t.lru) \in Nat /\ t.left + Len(t.lru) = FlowNodes
        BY <1>0
      <3> QED
        BY <3>1, <3>2
    <2>10. Filed(u.chain, u.lru, FlowHomes(u.node), FlowBuckets, FlowIds)
      BY <2>5, <2>7
    <2>11. u.node = Node2(h)
      BY <2>7 DEF v
    <2>12. /\ FlowOK(u) /\ n \in FlowsIn(u) /\ FlowsIn(u) = FlowsIn(t) \cup {n}
           /\ u.node[n] = nd
           /\ \A m \in FlowsIn(t) : m # n => u.node[m] = t.node[m]
      BY <1>4, <2>1, <2>3, <2>7, <2>8, <2>9, <2>10, <2>11
    <2> QED
      BY <2>1, <2>12 DEF u, n
  <1> QED
    BY <1>5, <1>6

-----------------------------------------------------------------------------
(* Lifetimes and tuples *)

\* flags that evaluate_tcp_flags() leaves in a direction decide a lifetime
FlagsOK(nd) ==
  \A i \in Dirs : nd.tcp_flags[i] = {} \/ nd.tcp_flags[i] \cap {"SYN", "FIN", "RST"} # {}

\* is_expired_uni() compares the time with the last packet and one of the lifetimes.
LEMMA ExpiredByLife ==
  ASSUME NEW nd \in FlowNodeRec, FlagsOK(nd), NEW i \in Dirs
  PROVE  \E L \in SUBSET FlowLifetimes :
           L # {} /\ \A t \in Int : IsExpiredUni(t, nd, i) <=> \E l \in L : t > nd.last[i] + l
PROOF
  <1> DEFINE F == nd.tcp_flags[i]
             S == {l \in FlowLifetimes :
                     \/ "SYN" \in F /\ l = FLOW_TCPSYN_LIFETIME
                     \/ "FIN" \in F /\ l = FLOW_TCPFIN_LIFETIME
                     \/ "RST" \in F /\ l = FLOW_TCPRST_LIFETIME}
  <1>1. CASE ~IsTcp(nd.key)
    <2>1. \A t \in Int : IsExpiredUni(t, nd, i) <=> t > nd.last[i] + FLOW_GENERIC_LIFETIME
      BY <1>1 DEF IsExpiredUni
    <2>2. {FLOW_GENERIC_LIFETIME} \in SUBSET FlowLifetimes
      BY DEF FlowLifetimes
    <2> QED
      BY <2>1, <2>2
  <1>2. CASE IsTcp(nd.key) /\ F = {}
    <2>1. \A t \in Int : IsExpiredUni(t, nd, i) <=> t > nd.last[i] + FLOW_TCPEST_LIFETIME
      BY <1>2 DEF IsExpiredUni
    <2>2. {FLOW_TCPEST_LIFETIME} \in SUBSET FlowLifetimes
      BY DEF FlowLifetimes
    <2> QED
      BY <2>1, <2>2
  <1>3. CASE IsTcp(nd.key) /\ F # {}
    <2>1. \A t \in Int : IsExpiredUni(t, nd, i) <=> \E l \in S : t > nd.last[i] + l
      BY <1>3 DEF IsExpiredUni, FlowLifetimes
    <2>2. S \in SUBSET FlowLifetimes /\ S # {}
      BY <1>3 DEF FlowLifetimes, FlagsOK
    <2> HIDE DEF S
    <2> QED
      BY <2>1, <2>2
  <1> QED
    BY <1>1, <1>2, <1>3

\* The same for both directions, and that a flow that is expired stays so.
LEMMA ExpiredLater ==
  ASSUME NEW nd \in FlowNodeRec, FlagsOK(nd), NEW t \in Int, NEW u \in Int, t <= u,
         IsExpired(t, nd)
  PROVE  IsExpired(u, nd)
PROOF
  <1> SUFFICES ASSUME NEW i \in Dirs PROVE IsExpiredUni(u, nd, i)
    BY DEF IsExpired
  <1>1. PICK L \in SUBSET FlowLifetimes :
          \A s \in Int : IsExpiredUni(s, nd, i) <=> \E l \in L : s > nd.last[i] + l
    BY ExpiredByLife
  <1>2. PICK l \in L : t > nd.last[i] + l
    BY <1>1 DEF IsExpired
  <1>3. nd.last[i] \in Nat /\ l \in Nat
    BY <1>2, FlowAssumption DEF FlowNodeRec
  <1>4. u > nd.last[i] + l
    BY <1>2, <1>3
  <1> QED
    BY <1>1, <1>2, <1>4

\* A packet has the tuple of its flow or, turned round, the opposite one, and
\* normalised tuples do not meet in any other way.
LEMMA TupleFacts ==
  /\ \A p \in PacketRec :
       /\ FlowKey(p) \in Normal /\ Direction(p) \in Tuples /\ Idx(p) \in Dirs
       /\ Idx(p) = 0 => Direction(p) = FlowKey(p)
       /\ Idx(p) = 1 => Direction(p) = Opposite(FlowKey(p)) /\ Direction(p) # FlowKey(p)
  /\ \A d \in Tuples : Opposite(d) \in Tuples /\ Opposite(Opposite(d)) = d
  /\ \A k, l \in Normal : k = Opposite(l) => k = l
PROOF
  <1>1. ASSUME NEW p \in PacketRec
        PROVE  /\ FlowKey(p) \in Normal /\ Direction(p) \in Tuples /\ Idx(p) \in Dirs
               /\ Idx(p) = 0 => Direction(p) = FlowKey(p)
               /\ Idx(p) = 1 => Direction(p) = Opposite(FlowKey(p)) /\ Direction(p) # FlowKey(p)
    <2>1. /\ p.src \in Nat /\ p.dst \in Nat /\ p.sport \in Nat /\ p.dport \in Nat
          /\ p.proto \in STRING
      BY DEF PacketRec
    <2>2. Direction(p) \in Tuples
      BY <2>1 DEF Direction, Tuples
    <2>3. CASE Reversed(p)
      <3>1. Idx(p) = 1 /\ FlowKey(p) = <<p.dst, p.src, p.dport, p.sport, p.proto>>
        BY <2>3 DEF Idx, FlowKey
      <3>2. Direction(p) = Opposite(FlowKey(p))
        BY <3>1 DEF Direction, Opposite
      <3>3. FlowKey(p) \in Normal
        BY <2>1, <2>3, <3>1 DEF Normal, Tuples, Reversed
      <3>4. Direction(p) # FlowKey(p)
        BY <2>1, <2>3, <3>1 DEF Direction, Reversed
      <3> QED
        BY <2>2, <3>1, <3>2, <3>3, <3>4 DEF Dirs
    <2>4. CASE ~Reversed(p)
      <3>1. Idx(p) = 0 /\ FlowKey(p) = <<p.src, p.dst, p.sport, p.dport, p.proto>>
        BY <2>4 DEF Idx, FlowKey
      <3>2. FlowKey(p) \in Normal
        BY <2>1, <2>4, <3>1 DEF Normal, Tuples, Reversed
      <3> QED
        BY <2>2, <3>1, <3>2 DEF Dirs, Direction
    <2> QED
      BY <2>3, <2>4
  <1>2. ASSUME NEW d \in Tuples
        PROVE  Opposite(d) \in Tuples /\ Opposite(Opposite(d)) = d
    <2>1. /\ d = <<d[1], d[2], d[3], d[4], d[5]>>
          /\ d[1] \in Nat /\ d[2] \in Nat /\ d[3] \in Nat /\ d[4] \in Nat /\ d[5] \in STRING
      BY DEF Tuples
    <2> QED
      BY <2>1 DEF Opposite, Tuples
  <1>3. ASSUME NEW k \in Normal, NEW l \in Normal, k = Opposite(l) PROVE k = l
    <2>1. /\ l = <<l[1], l[2], l[3], l[4], l[5]>>
          /\ l[1] \in Nat /\ l[2] \in Nat /\ l[3] \in Nat /\ l[4] \in Nat
          /\ ~(l[3] < l[4] \/ (l[3] = l[4] /\ l[1] < l[2]))
      BY DEF Normal, Tuples
    <2>2. k = <<l[2], l[1], l[4], l[3], l[5]>>
      BY <1>3 DEF Opposite
    <2>3. ~(l[4] < l[3] \/ (l[4] = l[3] /\ l[2] < l[1]))
      BY <2>2 DEF Normal
    <2>4. l[3] = l[4] /\ l[1] = l[2]
      BY <2>1, <2>3
    <2> QED
      BY <2>1, <2>2, <2>4
  <1> QED
    BY <1>1, <1>2, <1>3

-----------------------------------------------------------------------------
(* What a packet does to the node of its flow *)

\* what two nodes have in common when only the direction i was touched
SameElse(a, b, i) ==
  /\ a \in FlowNodeRec /\ a.key = b.key
  /\ a.last[Rev(i)] = b.last[Rev(i)] /\ a.ba[Rev(i)] = b.ba[Rev(i)]

\* clear_tcp_flow_cmn() forgets a direction.
LEMMA Cleared ==
  ASSUME NEW nd \in FlowNodeRec, NEW i \in Dirs
  PROVE  LET c == ClearDirection(nd, i)
         IN /\ SameElse(c, nd, i) /\ c.last[i] = 0 /\ c.ba[i] = 0
            /\ c.class[Rev(i)] = nd.class[Rev(i)]
            /\ FlagsOK(nd) => FlagsOK(c)
PROOF
  <1> DEFINE c == ClearDirection(nd, i)
  <1>1. /\ nd.last \in [Dirs -> Nat] /\ nd.tcp_flags \in [Dirs -> SUBSET TcpFlags]
        /\ nd.class \in [Dirs -> Nat] /\ nd.tentatives \in [Dirs -> Nat]
        /\ nd.ba \in [Dirs -> Nat]
    BY DEF FlowNodeRec
  <1> DEFINE la == [nd.last EXCEPT ![i] = 0]
             fl == [nd.tcp_flags EXCEPT ![i] = {}]
             cl == [nd.class EXCEPT ![i] = 0]
             te == [nd.tentatives EXCEPT ![i] = 0]
             ba == [nd.ba EXCEPT ![i] = 0]
  <1>2. /\ la \in [Dirs -> Nat] /\ fl \in [Dirs -> SUBSET TcpFlags] /\ cl \in [Dirs -> Nat]
        /\ te \in [Dirs -> Nat] /\ ba \in [Dirs -> Nat]
    BY <1>1
  <1>3. Rev(i) \in Dirs /\ Rev(i) # i
    BY DEF Rev, Dirs
  <1>4. /\ la[i] = 0 /\ fl[i] = {} /\ cl[i] = 0 /\ ba[i] = 0
        /\ la[Rev(i)] = nd.last[Rev(i)] /\ fl[Rev(i)] = nd.tcp_flags[Rev(i)]
        /\ cl[Rev(i)] = nd.class[Rev(i)] /\ ba[Rev(i)] = nd.ba[Rev(i)]
        /\ \A j \in Dirs : j # i => fl[j] = nd.tcp_flags[j]
    BY <1>1, <1>3
  <1>5. c = [nd EXCEPT !.last = la, !.tcp_flags = fl, !.class = cl, !.tentatives = te, !.ba = ba]
    BY DEF ClearDirection, FlowNodeRec
  <1> HIDE DEF c, la, fl, cl, te, ba
  <1>6. /\ c \in FlowNodeRec /\ c.key = nd.key /\ c.last = la /\ c.tcp_flags = fl
        /\ c.class = cl /\ c.ba = ba
    BY <1>2, <1>5 DEF FlowNodeRec
  <1>7. FlagsOK(nd) => FlagsOK(c)
    BY <1>4, <1>6 DEF FlagsOK
  <1> QED
    BY <1>4, <1>6, <1>7 DEF SameElse, c

\* evaluate_tcp_flags() touches flags and sequence number only, and leaves flags
\* that decide a lifetime.
LEMMA Evaluated ==
  ASSUME NEW nd \in FlowNodeRec, NEW i \in Dirs, NEW p \in PacketRec, FlagsOK(nd)
  PROVE  LET e == EvaluateTcpFlags(nd, i, p)
         IN /\ e \in FlowNodeRec /\ e.key = nd.key /\ e.last = nd.last /\ e.ba = nd.ba
            /\ e.class = nd.class /\ e.tentatives = nd.tentatives /\ e.helper = nd.helper
            /\ FlagsOK(e)
PROOF
  <1> DEFINE base == IF Handshaken(nd, i, p) THEN [d \in Dirs |-> {}] ELSE nd.tcp_flags
             syn  == IF "SYN" \in p.flags
                     THEN [base EXCEPT ![i] = {"SYN"} \cup (p.flags \cap {"ACK"})] ELSE base
             fin  == IF p.flags \cap {"FIN", "RST"} # {} THEN [d \in Dirs |-> p.flags] ELSE syn
             sq   == IF "SYN" \in p.flags /\ "ACK" \notin p.flags THEN p.seq ELSE nd.last_tcp_seq
             e    == EvaluateTcpFlags(nd, i, p)
             Fine(f) == \A j \in Dirs : f[j] = {} \/ f[j] \cap {"SYN", "FIN", "RST"} # {}
  <1>1. /\ p.flags \in SUBSET TcpFlags /\ p.seq \in Nat /\ nd.last_tcp_seq \in Nat
        /\ nd.tcp_flags \in [Dirs -> SUBSET TcpFlags]
    BY DEF PacketRec, FlowNodeRec
  <1>2. base \in [Dirs -> SUBSET TcpFlags] /\ Fine(base)
    BY <1>1 DEF FlagsOK
  <1>3. syn \in [Dirs -> SUBSET TcpFlags] /\ Fine(syn)
    <2> HIDE DEF base
    <2>1. {"SYN"} \cup (p.flags \cap {"ACK"}) \in SUBSET TcpFlags
      BY <1>1 DEF TcpFlags
    <2>2. CASE "SYN" \in p.flags
      BY <1>2, <2>1, <2>2
    <2>3. CASE "SYN" \notin p.flags
      BY <1>2, <2>3
    <2> QED
      BY <2>2, <2>3
  <1>4. fin \in [Dirs -> SUBSET TcpFlags] /\ Fine(fin)
    <2> HIDE DEF syn
    <2>1. CASE p.flags \cap {"FIN", "RST"} # {}
      BY <1>1, <2>1
    <2>2. CASE p.flags \cap {"FIN", "RST"} = {}
      BY <1>3, <2>2
    <2> QED
      BY <2>1, <2>2
  <1>5. sq \in Nat
    BY <1>1
  <1>6. e = IF ~IsTcp(nd.key) THEN nd ELSE [nd EXCEPT !.tcp_flags = fin, !.last_tcp_seq = sq]
    BY DEF EvaluateTcpFlags, FlowNodeRec
  <1> HIDE DEF e, fin, sq, syn, base
  <1>7. CASE ~IsTcp(nd.key)
    BY <1>6, <1>7 DEF e
  <1>8. CASE IsTcp(nd.key)
    <2>1. e = [nd EXCEPT !.tcp_flags = fin, !.last_tcp_seq = sq]
      BY <1>6, <1>8
    <2>2. /\ e \in FlowNodeRec /\ e.key = nd.key /\ e.last = nd.last /\ e.ba = nd.ba
          /\ e.class = nd.class /\ e.tentatives = nd.tentatives /\ e.helper = nd.helper
          /\ e.tcp_flags = fin
      BY <1>4, <1>5, <2>1 DEF FlowNodeRec
    <2>3. FlagsOK(e)
      BY <1>4, <2>2 DEF FlagsOK
    <2> QED
      BY <2>2, <2>3 DEF e
  <1> QED
    BY <1>7, <1>8

\* The time of the packet is set.
LEMMA Stamped ==
  ASSUME NEW nd \in FlowNodeRec, NEW i \in Dirs, FlagsOK(nd), now \in Nat
  PROVE  LET s == [nd EXCEPT !.last[i] = now]
         IN /\ SameElse(s, nd, i) /\ s.last[i] = now /\ s.ba = nd.ba /\ s.class = nd.class
            /\ s.tentatives = nd.tentatives /\ FlagsOK(s)
PROOF
  <1> DEFINE la == [nd.last EXCEPT ![i] = now]
             s == [nd EXCEPT !.last[i] = now]
  <1>1. nd.last \in [Dirs -> Nat] /\ Rev(i) \in Dirs /\ Rev(i) # i
    BY DEF FlowNodeRec, Rev, Dirs
  <1>2. la \in [Dirs -> Nat] /\ la[i] = now /\ la[Rev(i)] = nd.last[Rev(i)]
    BY <1>1
  <1>3. s = [nd EXCEPT !.last = la]
    BY DEF FlowNodeRec
  <1> HIDE DEF la, s
  <1>4. /\ s \in FlowNodeRec /\ s.key = nd.key /\ s.last = la /\ s.ba = nd.ba
        /\ s.class = nd.class /\ s.tcp_flags = nd.tcp_flags /\ s.tentatives = nd.tentatives
    BY <1>2, <1>3 DEF FlowNodeRec
  <1>5. FlagsOK(s)
    BY <1>4 DEF FlagsOK
  <1> QED
    BY <1>2, <1>4, <1>5 DEF s, SameElse

\* init_class_accumulators() touches what is known of the class of a flow, and the
\* bytes gathered in the direction.
LEMMA ClassInitialised ==
  ASSUME NEW nd \in FlowNodeRec, NEW i \in Dirs, NEW c \in Nat, FlagsOK(nd)
  PROVE  LET m == InitClass(nd, i, c)
         IN /\ m \in FlowNodeRec /\ m.key = nd.key /\ m.last = nd.last /\ FlagsOK(m)
            /\ m.ba[i] = 0 /\ m.ba[Rev(i)] = nd.ba[Rev(i)]
            /\ c = 0 => m.class[i] = Inherited(nd, i)
PROOF
  <1> DEFINE te == [nd.tentatives EXCEPT ![i] = Tentatives]
             ba == [nd.ba EXCEPT ![i] = 0]
             cl == [nd.class EXCEPT ![i] = Inherited(nd, i)]
             he == nd.helper /\ ~IsExpiredUni(nd.last[i], nd, Rev(i))
             n1 == [nd EXCEPT !.tentatives = te, !.ba = ba, !.class = cl, !.helper = he]
             all == [d \in Dirs |-> c]
             m  == InitClass(nd, i, c)
  <1>1. /\ nd.class \in [Dirs -> Nat] /\ nd.tentatives \in [Dirs -> Nat]
        /\ nd.ba \in [Dirs -> Nat] /\ Rev(i) \in Dirs /\ Rev(i) # i /\ Tentatives \in Nat
    BY FlowAssumption DEF FlowNodeRec, Rev, Dirs
  <1>2. Inherited(nd, i) \in Nat
    BY <1>1 DEF Inherited
  <1>3. /\ te \in [Dirs -> Nat] /\ ba \in [Dirs -> Nat] /\ cl \in [Dirs -> Nat]
        /\ all \in [Dirs -> Nat] /\ ba[i] = 0 /\ ba[Rev(i)] = nd.ba[Rev(i)]
        /\ cl[i] = Inherited(nd, i)
    BY <1>1, <1>2
  <1>4. he \in BOOLEAN
    OBVIOUS
  <1>5. m = IF c = 0 THEN n1 ELSE [n1 EXCEPT !.class = all, !.helper = FALSE]
    BY DEF InitClass, FlowNodeRec
  <1> HIDE DEF te, ba, cl, he, all, m
  <1>6. /\ n1 \in FlowNodeRec /\ n1.key = nd.key /\ n1.last = nd.last /\ n1.ba = ba
        /\ n1.class = cl /\ n1.tcp_flags = nd.tcp_flags
    BY <1>3, <1>4 DEF FlowNodeRec
  <1> HIDE DEF n1
  <1>7. /\ m \in FlowNodeRec /\ m.key = nd.key /\ m.last = nd.last /\ m.ba = ba
        /\ m.tcp_flags = nd.tcp_flags
        /\ c = 0 => m.class = cl
    <2>1. CASE c = 0
      BY <1>5, <1>6, <2>1
    <2>2. CASE c # 0
      <3>1. m = [n1 EXCEPT !.class = all, !.helper = FALSE]
        BY <1>5, <2>2
      <3>2. /\ m \in FlowNodeRec /\ m.key = n1.key /\ m.last = n1.last /\ m.ba = n1.ba
            /\ m.tcp_flags = n1.tcp_flags
        BY <1>3, <1>6, <3>1 DEF FlowNodeRec
      <3> QED
        BY <1>6, <2>2, <3>2
    <2> QED
      BY <2>1, <2>2
  <1>8. FlagsOK(m)
    BY <1>7 DEF FlagsOK
  <1> QED
    BY <1>3, <1>7, <1>8 DEF m

\* What its payload reveals is the class of both directions of a flow.
LEMMA ClassRevealed ==
  ASSUME NEW nd \in FlowNodeRec, NEW i \in Dirs, NEW p \in PacketRec, FlagsOK(nd)
  PROVE  LET m == Classified(nd, i, p)
         IN /\ m \in FlowNodeRec /\ m.key = nd.key /\ m.last = nd.last /\ FlagsOK(m)
            /\ m.ba = nd.ba
            /\ p.reveals = 0 => m = nd
PROOF
  <1> DEFINE all == [d \in Dirs |-> p.reveals]
             he == p.reveals \in HelperClasses
             m == Classified(nd, i, p)
  <1>1. p.reveals \in Nat
    BY DEF PacketRec
  <1>2. all \in [Dirs -> Nat] /\ he \in BOOLEAN
    BY <1>1
  <1>3. p.reveals = 0 => Reveals(nd, i, p) = 0
    BY DEF Reveals
  <1>4. m = IF Reveals(nd, i, p) = 0 THEN nd ELSE [nd EXCEPT !.class = all, !.helper = he]
    BY DEF Classified
  <1> HIDE DEF m, all, he
  <1>5. /\ m \in FlowNodeRec /\ m.key = nd.key /\ m.last = nd.last /\ m.ba = nd.ba
        /\ m.tcp_flags = nd.tcp_flags
    <2>1. CASE Reveals(nd, i, p) = 0
      BY <1>4, <2>1
    <2>2. CASE Reveals(nd, i, p) # 0
      <3>1. m = [nd EXCEPT !.class = all, !.helper = he]
        BY <1>4, <2>2
      <3> QED
        BY <1>2, <3>1 DEF FlowNodeRec
    <2> QED
      BY <2>1, <2>2
  <1>6. FlagsOK(m)
    BY <1>5 DEF FlagsOK
  <1> QED
    BY <1>3, <1>4, <1>5, <1>6 DEF m

\* handle_class_accumulators() gathers the bytes of a packet, or ends with none.
LEMMA Gathered ==
  ASSUME NEW nd \in FlowNodeRec, NEW i \in Dirs, NEW p \in PacketRec, FlagsOK(nd)
  PROVE  LET m == Accumulate(nd, i, p)
         IN /\ m \in FlowNodeRec /\ m.key = nd.key /\ m.last = nd.last /\ FlagsOK(m)
            /\ m.class = nd.class /\ m.ba[Rev(i)] = nd.ba[Rev(i)]
            /\ m.ba[i] = IF Gathers(nd, i) THEN nd.ba[i] + p.len + p.extra ELSE 0
PROOF
  <1> DEFINE ba == [nd.ba EXCEPT ![i] = IF Gathers(nd, i) THEN @ + p.len + p.extra ELSE 0]
             left == IF p.payload THEN nd.tentatives[i] - 1 ELSE nd.tentatives[i]
             te == [nd.tentatives EXCEPT ![i] = IF Gathers(nd, i) THEN left ELSE 0]
             m  == Accumulate(nd, i, p)
  <1>1. /\ nd.tentatives \in [Dirs -> Nat] /\ nd.ba \in [Dirs -> Nat]
        /\ Rev(i) \in Dirs /\ Rev(i) # i
        /\ p.len \in Nat /\ p.extra \in Nat /\ p.payload \in BOOLEAN
    BY DEF FlowNodeRec, PacketRec, Rev, Dirs
  <1>2. Gathers(nd, i) => left \in Nat
    BY <1>1 DEF Gathers
  <1>3. te \in [Dirs -> Nat]
    <2> HIDE DEF left
    <2> QED
      BY <1>1, <1>2
  <1>4. /\ ba \in [Dirs -> Nat] /\ ba[Rev(i)] = nd.ba[Rev(i)]
        /\ ba[i] = IF Gathers(nd, i) THEN nd.ba[i] + p.len + p.extra ELSE 0
    BY <1>1
  <1>5. m = [nd EXCEPT !.ba = ba, !.tentatives = te]
    <2>1. CASE Gathers(nd, i)
      BY <2>1 DEF Accumulate, FlowNodeRec
    <2>2. CASE ~Gathers(nd, i)
      BY <2>2 DEF Accumulate, FlowNodeRec
    <2> QED
      BY <2>1, <2>2
  <1> HIDE DEF m, ba, te
  <1>6. /\ m \in FlowNodeRec /\ m.key = nd.key /\ m.last = nd.last /\ m.class = nd.class
        /\ m.ba = ba /\ m.tcp_flags = nd.tcp_flags
    BY <1>3, <1>4, <1>5 DEF FlowNodeRec
  <1>7. FlagsOK(m)
    BY <1>6 DEF FlagsOK
  <1> QED
    BY <1>4, <1>6, <1>7 DEF m

\* the states of a node, nd at first, that a packet of direction i goes through
Taken(nd, p, i, c, new, nd0, nd1, nd2, nd3) ==
  /\ nd0 = IF new THEN ClearDirection(nd, i) ELSE nd
  /\ nd1 = [EvaluateTcpFlags(nd0, i, p) EXCEPT !.last[i] = now]
  /\ nd2 = Classified(IF new THEN InitClass(nd1, i, c) ELSE nd1, i, p)
  /\ nd3 = Accumulate(nd2, i, p)

\* What find_flow() and create_flow() leave of the node a packet falls into: the other
\* direction of the flow keeps its time and its bytes.
LEMMA TakenNode ==
  ASSUME NEW nd \in FlowNodeRec, FlagsOK(nd), NEW p \in PacketRec, NEW i \in Dirs,
         NEW c \in Nat, NEW new, now \in Nat,
         NEW nd0, NEW nd1, NEW nd2, NEW nd3, Taken(nd, p, i, c, new, nd0, nd1, nd2, nd3)
  PROVE  /\ nd3 \in FlowNodeRec /\ nd3.key = nd.key /\ FlagsOK(nd3) /\ nd3.class = nd2.class
         /\ nd3.last[i] = now /\ nd3.last[Rev(i)] = nd.last[Rev(i)]
         /\ nd3.ba[Rev(i)] = nd.ba[Rev(i)]
         /\ nd2.ba[i] = IF new THEN 0 ELSE nd.ba[i]
         /\ nd3.ba[i] = IF Gathers(nd2, i) THEN nd2.ba[i] + p.len + p.extra ELSE 0
         /\ (/\ new /\ c = 0 /\ p.reveals = 0
             /\ \A l \in FlowLifetimes : now > nd.last[Rev(i)] + l) => nd3.class[i] = 0
PROOF
  <1>t. /\ nd0 = IF new THEN ClearDirection(nd, i) ELSE nd
        /\ nd1 = [EvaluateTcpFlags(nd0, i, p) EXCEPT !.last[i] = now]
        /\ nd2 = Classified(IF new THEN InitClass(nd1, i, c) ELSE nd1, i, p)
        /\ nd3 = Accumulate(nd2, i, p)
    BY DEF Taken
  <1>0. Rev(i) \in Dirs /\ Rev(i) # i
    BY DEF Rev, Dirs
  <1>1. /\ nd0 \in FlowNodeRec /\ nd0.key = nd.key /\ FlagsOK(nd0)
        /\ nd0.last[Rev(i)] = nd.last[Rev(i)] /\ nd0.ba[Rev(i)] = nd.ba[Rev(i)]
        /\ nd0.ba[i] = IF new THEN 0 ELSE nd.ba[i]
    <2>1. CASE new
      BY <1>t, <2>1, Cleared DEF SameElse
    <2>2. CASE ~new
      BY <1>t, <2>2
    <2> QED
      BY <2>1, <2>2
  <1> DEFINE e == EvaluateTcpFlags(nd0, i, p)
  <1>2. /\ e \in FlowNodeRec /\ e.key = nd0.key /\ FlagsOK(e) /\ e.last = nd0.last
        /\ e.ba = nd0.ba
    BY <1>1, Evaluated
  <1> HIDE DEF e
  <1>3. nd1 = [e EXCEPT !.last[i] = now]
    BY <1>t DEF e
  <1>4. /\ nd1 \in FlowNodeRec /\ nd1.key = e.key /\ FlagsOK(nd1) /\ nd1.ba = e.ba
        /\ nd1.last[i] = now /\ nd1.last[Rev(i)] = e.last[Rev(i)]
    <2> DEFINE s == [e EXCEPT !.last[i] = now]
    <2>1. /\ SameElse(s, e, i) /\ s.last[i] = now /\ s.ba = e.ba /\ FlagsOK(s)
      BY <1>2, Stamped
    <2> HIDE DEF s
    <2> QED
      BY <1>3, <2>1 DEF SameElse, s
  <1> DEFINE m == IF new THEN InitClass(nd1, i, c) ELSE nd1
  <1>5. /\ m \in FlowNodeRec /\ m.key = nd1.key /\ FlagsOK(m) /\ m.last = nd1.last
        /\ m.ba[Rev(i)] = nd1.ba[Rev(i)] /\ m.ba[i] = IF new THEN 0 ELSE nd1.ba[i]
        /\ new /\ c = 0 => m.class[i] = Inherited(nd1, i)
    <2>1. CASE new
      <3> DEFINE x == InitClass(nd1, i, c)
      <3>1. /\ x \in FlowNodeRec /\ x.key = nd1.key /\ x.last = nd1.last /\ FlagsOK(x)
            /\ x.ba[i] = 0 /\ x.ba[Rev(i)] = nd1.ba[Rev(i)]
            /\ c = 0 => x.class[i] = Inherited(nd1, i)
        BY <1>4, ClassInitialised
      <3>2. m = x
        BY <2>1
      <3> HIDE DEF x, m
      <3> QED
        BY <2>1, <3>1, <3>2
    <2>2. CASE ~new
      BY <1>4, <2>2
    <2> QED
      BY <2>1, <2>2
  <1> HIDE DEF m
  <1>6. /\ nd2 \in FlowNodeRec /\ nd2.key = m.key /\ FlagsOK(nd2) /\ nd2.last = m.last
        /\ nd2.ba = m.ba
        /\ p.reveals = 0 => nd2 = m
    <2>1. nd2 = Classified(m, i, p)
      BY <1>t DEF m
    <2> QED
      BY <1>5, <2>1, ClassRevealed
  <1>7. /\ nd3 \in FlowNodeRec /\ nd3.key = nd2.key /\ FlagsOK(nd3) /\ nd3.last = nd2.last
        /\ nd3.class = nd2.class /\ nd3.ba[Rev(i)] = nd2.ba[Rev(i)]
        /\ nd3.ba[i] = IF Gathers(nd2, i) THEN nd2.ba[i] + p.len + p.extra ELSE 0
    BY <1>t, <1>6, Gathered
  <1>8. ASSUME new, c = 0, p.reveals = 0, \A l \in FlowLifetimes : now > nd.last[Rev(i)] + l
        PROVE  nd3.class[i] = 0
    <2>1. nd1.last[Rev(i)] = nd.last[Rev(i)]
      BY <1>1, <1>2, <1>4
    <2>2. PICK L \in SUBSET FlowLifetimes :
            /\ L # {}
            /\ \A t \in Int : IsExpiredUni(t, nd1, Rev(i)) <=> \E l \in L : t > nd1.last[Rev(i)] + l
      BY <1>0, <1>4, ExpiredByLife
    <2>3. IsExpiredUni(nd1.last[i], nd1, Rev(i))
      BY <1>4, <1>8, <2>1, <2>2
    <2>4. Inherited(nd1, i) = 0
      BY <2>3 DEF Inherited
    <2> QED
      BY <1>5, <1>6, <1>7, <1>8, <2>4
  <1>9. nd2.ba[i] = IF new THEN 0 ELSE nd.ba[i]
    BY <1>1, <1>2, <1>4, <1>5, <1>6
  <1>10. /\ nd3.key = nd.key /\ nd3.last[i] = now /\ nd3.last[Rev(i)] = nd.last[Rev(i)]
         /\ nd3.ba[Rev(i)] = nd.ba[Rev(i)]
    <2>1. nd3.key = nd.key
      <3>1. nd1.key = nd.key
        BY <1>1, <1>2, <1>4, Zenon
      <3> QED
        BY <1>5, <1>6, <1>7, <3>1, Zenon
    <2>2. nd3.last = nd1.last
      BY <1>5, <1>6, <1>7, Zenon
    <2>3. nd1.last[i] = now /\ nd1.last[Rev(i)] = nd.last[Rev(i)]
      BY <1>1, <1>2, <1>4, Zenon
    <2>4. nd3.ba[Rev(i)] = nd.ba[Rev(i)]
      <3>1. nd1.ba[Rev(i)] = nd.ba[Rev(i)]
        BY <1>1, <1>2, <1>4, Zenon
      <3> QED
        BY <1>5, <1>6, <1>7, <3>1, Zenon
    <2> QED
      BY <2>1, <2>2, <2>3, <2>4
  <1> QED
    BY <1>7, <1>8, <1>9, <1>10

-----------------------------------------------------------------------------
(* What the flow table knows of the packets so far *)

Dir(k, i) == IF i = 0 THEN k ELSE Opposite(k)
\* the second direction of a flow between the same two ends, which no packet has
Mirrored(k, i) == i = 1 /\ Opposite(k) = k

History(f) == \A d \in DOMAIN f : d \in Tuples /\ f[d] \in Nat
Gone(ls, clock, d) == \E l \in FlowLifetimes : clock > Get(ls, d) + l
Owed(un, pu, mo, d) == Get(un, d) + Get(pu, d) - Get(mo, d)

\* the time of a direction is that of its last packet, unless it has been forgotten
NodeTrue(nd, ls, clock) ==
  \A i \in Dirs :
    IF Mirrored(nd.key, i) THEN nd.last[i] = 0
    ELSE \/ nd.last[i] = Get(ls, Dir(nd.key, i))
         \/ nd.last[i] = 0 /\ Gone(ls, clock, Dir(nd.key, i))

\* what is gathered has been accounted to class zero and not been handed over
NodeOwes(nd, un, pu, mo) ==
  \A i \in Dirs : IF Mirrored(nd.key, i) THEN nd.ba[i] = 0
                  ELSE nd.ba[i] <= Owed(un, pu, mo, Dir(nd.key, i))

\* a direction without a node has been idle for longer than a lifetime
TableTrue(t, ls, clock) ==
  /\ \A n \in FlowsIn(t) : FlagsOK(t.node[n]) /\ NodeTrue(t.node[n], ls, clock)
  /\ \A d \in Tuples : \/ Gone(ls, clock, d)
                       \/ \E n \in FlowsIn(t), i \in Dirs : d = Dir(t.node[n].key, i)
TableOwes(t, un, pu, mo) ==
  /\ \A n \in FlowsIn(t) : NodeOwes(t.node[n], un, pu, mo)
  /\ \A d \in Tuples : Owed(un, pu, mo, d) >= 0
TableBusy(t, e) == \A n \in FlowsIn(t) : ~IsExpired(e, t.node[n])

\* What is put into a history is found there, and nothing else has changed.
LEMMA PutFacts ==
  ASSUME NEW f, History(f), NEW d \in Tuples, NEW v \in Nat
  PROVE  /\ History(Put(f, d, v)) /\ DOMAIN Put(f, d, v) = DOMAIN f \cup {d}
         /\ Get(Put(f, d, v), d) = v
         /\ \A x : x # d => Get(Put(f, d, v), x) = Get(f, x)
         /\ \A x : Get(f, x) \in Nat
PROOF
  BY DEF Put, Get, History

\* The directions of the flows of a table are told apart by their tuples.
LEMMA DirFacts ==
  ASSUME NEW k \in Normal, NEW l \in Normal, NEW i \in Dirs, NEW j \in Dirs
  PROVE  /\ Dir(k, i) \in Tuples
         /\ Mirrored(k, i) => Dir(k, i) = Dir(k, 0)
         /\ Dir(k, i) = Dir(l, j) => k = l /\ (i = j \/ Opposite(k) = k)
PROOF
  <1>1. k \in Tuples /\ l \in Tuples
    BY DEF Normal
  <1>2. Opposite(k) \in Tuples /\ Opposite(Opposite(k)) = k /\ Opposite(Opposite(l)) = l
    BY <1>1, TupleFacts
  <1>3. (k = Opposite(l) \/ l = Opposite(k)) => k = l
    BY TupleFacts
  <1> QED
    BY <1>1, <1>2, <1>3 DEF Dir, Mirrored, Dirs

\* An expired direction has been idle for longer than a lifetime.
LEMMA ExpiredGone ==
  ASSUME NEW nd \in FlowNodeRec, FlagsOK(nd), NEW ls, History(ls), NEW clock \in Nat,
         NodeTrue(nd, ls, clock), NEW i \in Dirs, ~Mirrored(nd.key, i),
         IsExpiredUni(clock, nd, i)
  PROVE  Gone(ls, clock, Dir(nd.key, i))
PROOF
  <1>1. PICK L \in SUBSET FlowLifetimes :
          \A t \in Int : IsExpiredUni(t, nd, i) <=> \E l \in L : t > nd.last[i] + l
    BY ExpiredByLife
  <1>2. PICK l \in FlowLifetimes : clock > nd.last[i] + l
    BY <1>1
  <1> QED
    BY <1>2 DEF NodeTrue, Gone

\* An expired node is that of a flow idle in both directions.
LEMMA ExpiredBoth ==
  ASSUME NEW nd \in FlowNodeRec, FlagsOK(nd), nd.key \in Normal, NEW ls, History(ls),
         NEW clock \in Nat, NodeTrue(nd, ls, clock), IsExpired(clock, nd), NEW i \in Dirs
  PROVE  Gone(ls, clock, Dir(nd.key, i))
PROOF
  <1>1. CASE ~Mirrored(nd.key, i)
    BY <1>1, ExpiredGone DEF IsExpired
  <1>2. CASE Mirrored(nd.key, i)
    <2>1. 0 \in Dirs /\ ~Mirrored(nd.key, 0)
      BY DEF Dirs, Mirrored
    <2>2. Gone(ls, clock, Dir(nd.key, 0))
      BY <2>1, ExpiredGone DEF IsExpired
    <2> QED
      BY <1>2, <2>2, DirFacts
  <1> QED
    BY <1>1, <1>2

\* A live direction has been idle for no longer than a lifetime.
LEMMA LiveSeen ==
  ASSUME NEW nd \in FlowNodeRec, FlagsOK(nd), NEW ls, History(ls), NEW clock \in Nat,
         StartTime <= clock, NodeTrue(nd, ls, clock), NEW i \in Dirs,
         ~Mirrored(nd.key, i), ~IsExpiredUni(clock, nd, i)
  PROVE  \E l \in FlowLifetimes : clock - Get(ls, Dir(nd.key, i)) <= l
PROOF
  <1>1. PICK L \in SUBSET FlowLifetimes :
          /\ L # {}
          /\ \A t \in Int : IsExpiredUni(t, nd, i) <=> \E l \in L : t > nd.last[i] + l
    BY ExpiredByLife
  <1>2. PICK l \in L : ~(clock > nd.last[i] + l)
    BY <1>1
  <1>3. l \in Nat /\ l < StartTime /\ StartTime \in Nat /\ l \in FlowLifetimes
    BY <1>2, FlowAssumption, CaptureAssumption
  <1>4. nd.last[i] # 0
    BY <1>2, <1>3
  <1>5. nd.last[i] = Get(ls, Dir(nd.key, i)) /\ nd.last[i] \in Nat
    BY <1>4 DEF NodeTrue, FlowNodeRec
  <1> QED
    BY <1>2, <1>3, <1>5

\* prune_old_flows() forgets no flow that it should know of, and leaves none that is
\* expired.
LEMMA PrunedTrue ==
  ASSUME NEW t, FlowOK(t), NEW ls, History(ls), now \in Nat, TableTrue(t, ls, now)
  PROVE  /\ TableTrue(PruneFlows(t), ls, now)
         /\ TableBusy(PruneFlows(t), now)
         /\ \A e : TableBusy(t, e) => TableBusy(PruneFlows(t), e)
         /\ \A un, pu, mo : TableOwes(t, un, pu, mo) => TableOwes(PruneFlows(t), un, pu, mo)
PROOF
  <1> DEFINE u == PruneFlows(t)
  <1>1. /\ FlowOK(u)
        /\ FlowsIn(u) = {n \in FlowsIn(t) : ~IsExpired(now, t.node[n])}
        /\ \A n \in FlowsIn(u) : u.node[n] = t.node[n]
    BY PruneFlowsKeeps
  <1>2. /\ t.node \in [FlowIds -> FlowNodeRec] /\ FlowsIn(t) \subseteq FlowIds
        /\ \A n \in FlowsIn(t) : t.node[n].key \in Normal
    BY FlowRoom DEF FlowOK, FlowRec
  <1> HIDE DEF u
  <1>3. \A n \in FlowsIn(u) : n \in FlowsIn(t) /\ u.node[n] = t.node[n]
    BY <1>1
  <1>4. TableBusy(u, now)
    BY <1>1 DEF TableBusy
  <1>5. \A e : TableBusy(t, e) => TableBusy(u, e)
    BY <1>3 DEF TableBusy
  <1>6. \A un, pu, mo : TableOwes(t, un, pu, mo) => TableOwes(u, un, pu, mo)
    BY <1>3 DEF TableOwes
  <1>7. TableTrue(u, ls, now)
    <2>1. \A n \in FlowsIn(u) : FlagsOK(u.node[n]) /\ NodeTrue(u.node[n], ls, now)
      BY <1>3 DEF TableTrue
    <2>2. ASSUME NEW d \in Tuples, ~Gone(ls, now, d)
          PROVE  \E n \in FlowsIn(u), i \in Dirs : d = Dir(u.node[n].key, i)
      <3>1. PICK n \in FlowsIn(t), i \in Dirs : d = Dir(t.node[n].key, i)
        BY <2>2 DEF TableTrue
      <3>2. /\ t.node[n] \in FlowNodeRec /\ FlagsOK(t.node[n]) /\ t.node[n].key \in Normal
            /\ NodeTrue(t.node[n], ls, now)
        BY <1>2 DEF TableTrue
      <3>3. ~IsExpired(now, t.node[n])
        BY <2>2, <3>1, <3>2, ExpiredBoth
      <3>4. n \in FlowsIn(u)
        BY <1>1, <3>3
      <3> QED
        BY <1>3, <3>1, <3>4
    <2> QED
      BY <2>1, <2>2 DEF TableTrue
  <1> QED
    BY <1>4, <1>5, <1>6, <1>7 DEF u

\* A tuple without a node belongs to a flow idle in both directions, so that the new
\* node knows of no packet and is right about it.
LEMMA PlacedTrue ==
  ASSUME NEW t, FlowOK(t), NEW p \in PacketRec, HashFlow(FlowKey(p)) \in FlowBuckets,
         FlowHits(t, p) = {}, t.left > 0, now \in Nat, NEW ls, History(ls),
         TableTrue(t, ls, now)
  PROVE  LET u == FlowPlaced(t, p).tab
             n == FlowPlaced(t, p).id
         IN /\ FlowOK(u) /\ n \in FlowsIn(u) /\ u.node[n] = NewFlowNode(FlowKey(p))
            /\ TableTrue(u, ls, now)
            /\ \A i \in Dirs : Gone(ls, now, Dir(FlowKey(p), i))
            /\ \A e : TableBusy(t, e) =>
                        \A m \in FlowsIn(u) \ {n} : ~IsExpired(e, u.node[m])
            /\ \A un, pu, mo : TableOwes(t, un, pu, mo) => TableOwes(u, un, pu, mo)
PROOF
  <1> DEFINE key == FlowKey(p)
             u == FlowPlaced(t, p).tab
             n == FlowPlaced(t, p).id
             nd == NewFlowNode(key)
  <1>0. key \in Normal /\ key \in Tuples
    BY TupleFacts DEF Normal
  <1>1. /\ FlowOK(u) /\ n \in FlowsIn(u) /\ FlowsIn(u) = FlowsIn(t) \cup {n}
        /\ u.node[n] = nd
        /\ \A m \in FlowsIn(t) : m # n => u.node[m] = t.node[m]
        /\ n \in FlowsIn(t) => IsExpired(now, t.node[n])
    BY <1>0, FlowPlacedKeeps
  <1>2. /\ t.node \in [FlowIds -> FlowNodeRec] /\ FlowsIn(t) \subseteq FlowIds
        /\ \A m \in FlowsIn(t) : t.node[m].key \in Normal /\ t.node[m].key # key
    BY FlowRoom DEF FlowOK, FlowRec, FlowHits
  <1>3. /\ nd.key = key /\ \A i \in Dirs : nd.last[i] = 0 /\ nd.ba[i] = 0 /\ nd.tcp_flags[i] = {}
    BY DEF NewFlowNode
  <1> HIDE DEF u, n, nd, key
  <1>4. ASSUME NEW i \in Dirs PROVE Gone(ls, now, Dir(key, i))
    <2>1. Dir(key, i) \in Tuples
      BY <1>0, DirFacts
    <2>2. SUFFICES ASSUME NEW m \in FlowsIn(t), NEW j \in Dirs,
                          Dir(key, i) = Dir(t.node[m].key, j)
                   PROVE  FALSE
      BY <2>1 DEF TableTrue
    <2>3. key = t.node[m].key
      BY <1>0, <1>2, <2>2, DirFacts
    <2> QED
      BY <1>2, <2>3
  <1>5. FlagsOK(nd) /\ NodeTrue(nd, ls, now)
    BY <1>3, <1>4 DEF FlagsOK, NodeTrue
  <1>6. TableTrue(u, ls, now)
    <2>1. \A m \in FlowsIn(u) : FlagsOK(u.node[m]) /\ NodeTrue(u.node[m], ls, now)
      BY <1>1, <1>5 DEF TableTrue
    <2>2. ASSUME NEW d \in Tuples, ~Gone(ls, now, d)
          PROVE  \E m \in FlowsIn(u), i \in Dirs : d = Dir(u.node[m].key, i)
      <3>1. PICK m \in FlowsIn(t), i \in Dirs : d = Dir(t.node[m].key, i)
        BY <2>2 DEF TableTrue
      <3>2. /\ t.node[m] \in FlowNodeRec /\ FlagsOK(t.node[m]) /\ t.node[m].key \in Normal
            /\ NodeTrue(t.node[m], ls, now)
        BY <1>2 DEF TableTrue
      <3>3. ~IsExpired(now, t.node[m])
        BY <2>2, <3>1, <3>2, ExpiredBoth
      <3> QED
        BY <1>1, <3>1, <3>3
    <2> QED
      BY <2>1, <2>2 DEF TableTrue
  <1>7. \A e : TableBusy(t, e) => \A m \in FlowsIn(u) \ {n} : ~IsExpired(e, u.node[m])
    BY <1>1 DEF TableBusy
  <1>8. ASSUME NEW un, NEW pu, NEW mo, TableOwes(t, un, pu, mo)
        PROVE  TableOwes(u, un, pu, mo)
    <2>1. NodeOwes(nd, un, pu, mo)
      <3> SUFFICES ASSUME NEW i \in Dirs, ~Mirrored(nd.key, i)
                   PROVE  nd.ba[i] <= Owed(un, pu, mo, Dir(nd.key, i))
        BY <1>3 DEF NodeOwes
      <3>1. Dir(nd.key, i) \in Tuples
        BY <1>0, <1>3, DirFacts
      <3>2. Owed(un, pu, mo, Dir(nd.key, i)) >= 0
        BY <1>8, <3>1 DEF TableOwes
      <3> QED
        BY <1>3, <3>2
    <2> QED
      BY <1>1, <1>8, <2>1 DEF TableOwes
  <1> QED
    BY <1>1, <1>4, <1>6, <1>7, <1>8 DEF u, n, nd, key

FlowTimes == now \in Nat /\ StartTime <= now /\ flowEmergency \in Nat /\ flowEmergency <= now

Histories ==
  /\ History(lastSeen) /\ History(unknown) /\ History(putby) /\ History(moved)
  /\ DOMAIN unknown = DOMAIN moved /\ DOMAIN putby = DOMAIN moved

FlowVerdicts ==
  verdict.class \in Nat /\ CountedOnce /\ ClassForgotten /\ RefusedOnlyBusy

FlowInv ==
  /\ FlowOK(flow) /\ FlowTimes /\ Histories
  /\ TableTrue(flow, lastSeen, now) /\ TableOwes(flow, unknown, putby, moved)
  /\ TableBusy(flow, flowEmergency)
  /\ FlowVerdicts

\* table u has nd for node n, and is otherwise table t
Replaced(t, n, nd, u) ==
  /\ FlowsIn(u) = FlowsIn(t) /\ u.node[n] = nd
  /\ \A m \in FlowsIn(t) : m # n => u.node[m] = t.node[m]

\* no other direction of a flow of table t than direction i of node n has tuple d
OnlyDir(t, n, i, d) ==
  \A m \in FlowsIn(t), j \in Dirs :
    ~Mirrored(t.node[m].key, j) /\ Dir(t.node[m].key, j) = d => m = n /\ j = i

\* The node of a packet is right about the packets so far once the packet has been
\* written into it, and so are the others.
LEMMA AcceptTrue ==
  ASSUME NEW t, FlowOK(t), NEW n \in FlowsIn(t), NEW i \in Dirs, NEW d \in Tuples,
         d = Dir(t.node[n].key, i), ~Mirrored(t.node[n].key, i),
         NEW ls, History(ls), NEW clock \in Nat, TableTrue(t, ls, clock),
         NEW nd \in FlowNodeRec, nd.key = t.node[n].key, FlagsOK(nd), nd.last[i] = clock,
         nd.last[Rev(i)] = t.node[n].last[Rev(i)],
         NEW u, Replaced(t, n, nd, u)
  PROVE  /\ TableTrue(u, Put(ls, d, clock), clock)
         /\ OnlyDir(t, n, i, d)
PROOF
  <1> USE DEF Replaced
  <1> DEFINE key == t.node[n].key
             lt == Put(ls, d, clock)
  <1>0. /\ \A m \in FlowsIn(t) : t.node[m].key \in Normal
        /\ \A m \in FlowsIn(t) : t.node[m].key = key => m = n
    BY DEF FlowOK
  <1>1. /\ Get(lt, d) = clock
        /\ \A x : x # d => Get(lt, x) = Get(ls, x)
    BY DEF Put, Get
  <1>2. \A x : x # d /\ Gone(ls, clock, x) => Gone(lt, clock, x)
    BY <1>1 DEF Gone
  <1> HIDE DEF lt
  <1>3. ASSUME NEW m \in FlowsIn(t), NEW j \in Dirs, ~Mirrored(t.node[m].key, j),
               Dir(t.node[m].key, j) = d
        PROVE  m = n /\ j = i
    <2>1. t.node[m].key = key /\ (j = i \/ Opposite(key) = key)
      BY <1>0, <1>3, DirFacts
    <2> QED
      BY <1>0, <1>3, <2>1 DEF Mirrored, Dirs
  <1>4. ASSUME NEW m \in FlowsIn(u), m # n
        PROVE  FlagsOK(u.node[m]) /\ NodeTrue(u.node[m], lt, clock)
    <2>1. u.node[m] = t.node[m] /\ m \in FlowsIn(t)
      BY <1>4
    <2>2. FlagsOK(t.node[m]) /\ NodeTrue(t.node[m], ls, clock)
      BY <2>1 DEF TableTrue
    <2>3. \A j \in Dirs : ~Mirrored(t.node[m].key, j) => Dir(t.node[m].key, j) # d
      BY <1>3, <1>4, <2>1
    <2>4. NodeTrue(t.node[m], lt, clock)
      BY <1>1, <1>2, <2>2, <2>3 DEF NodeTrue
    <2> QED
      BY <2>1, <2>2, <2>4
  <1>5. NodeTrue(nd, lt, clock)
    <2> SUFFICES ASSUME NEW j \in Dirs
                 PROVE  IF Mirrored(key, j) THEN nd.last[j] = 0
                        ELSE \/ nd.last[j] = Get(lt, Dir(key, j))
                             \/ nd.last[j] = 0 /\ Gone(lt, clock, Dir(key, j))
      BY DEF NodeTrue
    <2>1. CASE j = i
      BY <1>1, <2>1
    <2>2. CASE j # i
      <3>1. j = Rev(i)
        BY <2>2 DEF Rev, Dirs
      <3>2. NodeTrue(t.node[n], ls, clock) /\ nd.last[j] = t.node[n].last[j]
        BY <3>1 DEF TableTrue
      <3>3. ~Mirrored(key, j) => Dir(key, j) # d
        BY <1>3, <2>2
      <3> QED
        BY <1>1, <1>2, <3>2, <3>3 DEF NodeTrue
    <2> QED
      BY <2>1, <2>2
  <1>6. ASSUME NEW x \in Tuples, ~Gone(lt, clock, x)
        PROVE  \E m \in FlowsIn(u), j \in Dirs : x = Dir(u.node[m].key, j)
    <2>1. CASE x = d
      BY <2>1
    <2>2. CASE x # d
      <3>1. ~Gone(ls, clock, x)
        BY <1>2, <1>6, <2>2
      <3>2. PICK m \in FlowsIn(t), j \in Dirs : x = Dir(t.node[m].key, j)
        BY <3>1 DEF TableTrue
      <3>3. u.node[m].key = t.node[m].key
        OBVIOUS
      <3> QED
        BY <3>2, <3>3
    <2> QED
      BY <2>1, <2>2
  <1>7. TableTrue(u, lt, clock)
    BY <1>4, <1>5, <1>6 DEF TableTrue
  <1> QED
    BY <1>3, <1>7 DEF lt, OnlyDir

\* What a direction owes changes by what its packet adds to class zero, puts by and
\* hands over; that of the other directions stays.
LEMMA AcceptOwes ==
  ASSUME NEW t, FlowOK(t), NEW n \in FlowsIn(t), NEW i \in Dirs, NEW d \in Tuples,
         OnlyDir(t, n, i, d),
         NEW un, NEW pu, NEW mo, History(un), History(pu), History(mo),
         TableOwes(t, un, pu, mo),
         NEW nd, nd.key = t.node[n].key, nd.ba[Rev(i)] = t.node[n].ba[Rev(i)],
         ~Mirrored(nd.key, i), Dir(nd.key, i) = d,
         NEW a \in Nat, NEW b \in Nat, NEW c \in Nat,
         nd.ba[i] <= Owed(un, pu, mo, d) + a + b - c, Owed(un, pu, mo, d) + a + b - c >= 0,
         NEW u, Replaced(t, n, nd, u)
  PROVE  TableOwes(u, Put(un, d, Get(un, d) + a), Put(pu, d, Get(pu, d) + b),
                   Put(mo, d, Get(mo, d) + c))
PROOF
  <1> USE DEF Replaced, OnlyDir
  <1> DEFINE vn == Put(un, d, Get(un, d) + a)
             vu == Put(pu, d, Get(pu, d) + b)
             vo == Put(mo, d, Get(mo, d) + c)
  <1>1. \A x : Get(un, x) \in Nat /\ Get(pu, x) \in Nat /\ Get(mo, x) \in Nat
    BY DEF Get, History
  <1>2. /\ Get(vn, d) = Get(un, d) + a /\ Get(vu, d) = Get(pu, d) + b
        /\ Get(vo, d) = Get(mo, d) + c
        /\ \A x : x # d => /\ Get(vn, x) = Get(un, x) /\ Get(vu, x) = Get(pu, x)
                           /\ Get(vo, x) = Get(mo, x)
    BY DEF Put, Get
  <1> HIDE DEF vn, vu, vo
  <1>3. Owed(vn, vu, vo, d) = Owed(un, pu, mo, d) + a + b - c
    <2>1. /\ Get(un, d) \in Nat /\ Get(pu, d) \in Nat /\ Get(mo, d) \in Nat
      BY <1>1
    <2> QED
      BY <1>2, <2>1 DEF Owed
  <1>4. \A x : x # d => Owed(vn, vu, vo, x) = Owed(un, pu, mo, x)
    BY <1>2 DEF Owed
  <1>5. \A x \in Tuples : Owed(vn, vu, vo, x) >= 0
    BY <1>3, <1>4 DEF TableOwes
  <1>6. ASSUME NEW m \in FlowsIn(u), m # n PROVE NodeOwes(u.node[m], vn, vu, vo)
    <2>1. u.node[m] = t.node[m] /\ NodeOwes(t.node[m], un, pu, mo)
      BY <1>6 DEF TableOwes
    <2>2. \A j \in Dirs : ~Mirrored(t.node[m].key, j) => Dir(t.node[m].key, j) # d
      BY <1>6
    <2> QED
      BY <1>4, <2>1, <2>2 DEF NodeOwes
  <1>7. NodeOwes(nd, vn, vu, vo)
    <2> SUFFICES ASSUME NEW j \in Dirs
                 PROVE  IF Mirrored(nd.key, j) THEN nd.ba[j] = 0
                        ELSE nd.ba[j] <= Owed(vn, vu, vo, Dir(nd.key, j))
      BY DEF NodeOwes
    <2>1. CASE j = i
      BY <1>3, <2>1
    <2>2. CASE j # i
      <3>1. j = Rev(i)
        BY <2>2 DEF Rev, Dirs
      <3>2. NodeOwes(t.node[n], un, pu, mo) /\ nd.ba[j] = t.node[n].ba[j]
        BY <3>1 DEF TableOwes
      <3>3. ~Mirrored(nd.key, j) => Dir(nd.key, j) # d
        BY <2>2
      <3> QED
        BY <1>4, <3>2, <3>3 DEF NodeOwes
    <2> QED
      BY <2>1, <2>2
  <1> QED
    BY <1>5, <1>6, <1>7 DEF TableOwes, vn, vu, vo

\* The four states of a node that a packet goes through.
LEMMA AcceptGives ==
  ASSUME NEW t, NEW n, NEW p, NEW new, Accept(t, n, p, new)
  PROVE  \E nd0, hit, nd1, nd2, nd3 :
           /\ hit = IF new THEN SearchConntrack(p) ELSE [class |-> 0, ct |-> ct]
           /\ Taken(t.node[n], p, Idx(p), hit.class, new, nd0, nd1, nd2, nd3)
           /\ Entered(t, n, p, new, hit, nd2, nd3) /\ Expected(p, hit, nd3)
PROOF
  <1> DEFINE A == IF new THEN ClearDirection(t.node[n], Idx(p)) ELSE t.node[n]
             B == IF new THEN SearchConntrack(p) ELSE [class |-> 0, ct |-> ct]
             C(nd0) == [EvaluateTcpFlags(nd0, Idx(p), p) EXCEPT !.last[Idx(p)] = now]
             D(nd1, hit) == Classified(IF new THEN InitClass(nd1, Idx(p), hit.class) ELSE nd1,
                                       Idx(p), p)
             E(nd2) == Accumulate(nd2, Idx(p), p)
             Rest(hit, nd2, nd3) == Entered(t, n, p, new, hit, nd2, nd3) /\ Expected(p, hit, nd3)
  <1>1. \E nd0 \in {A}, hit \in {B} : \E nd1 \in {C(nd0)} : \E nd2 \in {D(nd1, hit)} :
          \E nd3 \in {E(nd2)} : Rest(hit, nd2, nd3)
    BY DEF Accept
  <1> HIDE DEF A, B, C, D, E, Rest
  <1>2. \E nd0, hit, nd1, nd2, nd3 :
          /\ nd0 = A /\ hit = B /\ nd1 = C(nd0) /\ nd2 = D(nd1, hit) /\ nd3 = E(nd2)
          /\ Rest(hit, nd2, nd3)
    BY <1>1, Zenon
  <1> QED
    BY <1>2 DEF A, B, C, D, E, Rest, Taken

\* find_flow() and create_flow() count a flow, forget a class and move bytes when they
\* are due, and leave a table that is right about the packets so far.
LEMMA AcceptKeeps ==
  ASSUME NEW t, FlowOK(t), NEW n \in FlowsIn(t), NEW p \in PacketRec,
         t.node[n].key = FlowKey(p), NEW new,
         FlowTimes, Histories, TableTrue(t, lastSeen, now),
         TableOwes(t, unknown, putby, moved),
         \A m \in FlowsIn(t) \ {n} : ~IsExpired(flowEmergency, t.node[m]),
         new => Gone(lastSeen, now, Direction(p)),
         ~new => \E l \in FlowLifetimes : now - Get(lastSeen, Direction(p)) <= l,
         SearchConntrack(p).class \in Nat,
         NEW hit, hit = IF new THEN SearchConntrack(p) ELSE [class |-> 0, ct |-> ct],
         NEW nd0, NEW nd1, NEW nd2, NEW nd3,
         Taken(t.node[n], p, Idx(p), hit.class, new, nd0, nd1, nd2, nd3),
         Entered(t, n, p, new, hit, nd2, nd3), now' = now, flowEmergency' = flowEmergency
  PROVE  FlowInv'
PROOF
  <1> DEFINE i == Idx(p)
             d == Direction(p)
             nd == t.node[n]
             c == hit.class
             u == [t EXCEPT !.node = [t.node EXCEPT ![n] = nd3]]
             due == \A l \in FlowLifetimes : now - Get(lastSeen, d) > l
             early == \A l \in FlowLifetimes : now - Get(lastSeen, d) <= l
             over == /\ c = 0 /\ p.reveals = 0
                     /\ \A l \in FlowLifetimes, q \in {d, Opposite(d)} : now - Get(lastSeen, q) > l
             a == IF nd3.class[i] # 0 THEN 0 ELSE p.len + IF Gathers(nd2, i) THEN 0 ELSE p.extra
             b == IF Gathers(nd2, i) THEN p.extra ELSE 0
             h == HandedOver(nd2, i)
  <1>0. /\ nd \in FlowNodeRec /\ FlagsOK(nd) /\ NodeTrue(nd, lastSeen, now)
        /\ NodeOwes(nd, unknown, putby, moved) /\ nd.key \in Normal
    <2>1. t.node \in [FlowIds -> FlowNodeRec] /\ FlowsIn(t) \subseteq FlowIds
      BY FlowRoom DEF FlowOK, FlowRec
    <2> QED
      BY <2>1 DEF FlowOK, TableTrue, TableOwes
  <1>1. /\ i \in Dirs /\ d \in Tuples /\ d = Dir(nd.key, i) /\ ~Mirrored(nd.key, i)
        /\ Opposite(d) = Dir(nd.key, Rev(i)) /\ Rev(i) \in Dirs /\ Rev(i) # i
    <2>1. /\ Idx(p) \in Dirs /\ Direction(p) \in Tuples /\ FlowKey(p) \in Tuples
          /\ Idx(p) = 0 => Direction(p) = FlowKey(p)
          /\ Idx(p) = 1 => Direction(p) = Opposite(FlowKey(p)) /\ Direction(p) # FlowKey(p)
      BY TupleFacts DEF Normal
    <2>2. Opposite(Opposite(FlowKey(p))) = FlowKey(p)
      BY <2>1, TupleFacts
    <2>3. Idx(p) = 0 \/ Idx(p) = 1
      BY <2>1 DEF Dirs
    <2> QED
      BY <2>1, <2>2, <2>3 DEF Dir, Mirrored, Rev, Dirs
  <1>2. c \in Nat
    BY DEF c
  <1>3. /\ now \in Nat /\ p.len \in Nat /\ p.extra \in Nat
    BY DEF FlowTimes, PacketRec
  <1> HIDE DEF i, d, nd, c
  <1>4. /\ nd3 \in FlowNodeRec /\ nd3.key = nd.key /\ FlagsOK(nd3) /\ nd3.class = nd2.class
        /\ nd3.last[i] = now /\ nd3.last[Rev(i)] = nd.last[Rev(i)]
        /\ nd3.ba[Rev(i)] = nd.ba[Rev(i)]
        /\ nd2.ba[i] = IF new THEN 0 ELSE nd.ba[i]
        /\ nd3.ba[i] = IF Gathers(nd2, i) THEN nd2.ba[i] + p.len + p.extra ELSE 0
        /\ (/\ new /\ c = 0 /\ p.reveals = 0
            /\ \A l \in FlowLifetimes : now > nd.last[Rev(i)] + l) => nd3.class[i] = 0
    <2>1. Taken(nd, p, i, c, new, nd0, nd1, nd2, nd3)
      BY DEF nd, i, c
    <2>2. /\ nd \in FlowNodeRec /\ FlagsOK(nd) /\ i \in Dirs /\ c \in Nat /\ now \in Nat
      BY <1>0, <1>1, <1>2, <1>3
    <2> QED
      BY <2>1, <2>2, TakenNode
  <1>5. /\ flow' = u
        /\ verdict' = [new_flow |-> new, refused |-> FALSE, class |-> nd3.class[i],
                       ba |-> h, at |-> now, due |-> due, early |-> early, over |-> over]
        /\ lastSeen' = Put(lastSeen, d, now)
        /\ unknown' = Put(unknown, d, Get(unknown, d) + a)
        /\ putby' = Put(putby, d, Get(putby, d) + b)
        /\ moved' = Put(moved, d, Get(moved, d) + h)
    <2>1. flow' = [t EXCEPT !.node[n] = nd3]
      BY DEF Entered
    <2>2. flow' = u
      BY <2>1 DEF FlowOK, FlowRec
    <2> QED
      BY <2>2 DEF Entered, i, d, c
  <1>6. FlowOK(u) /\ Replaced(t, n, nd3, u)
    <2>1. nd3.key = t.node[n].key
      BY <1>4 DEF nd
    <2> QED
      BY <1>4, <2>1, TouchFlowKeeps, Zenon DEF Replaced
  <1> HIDE DEF u, a, b, h, due, early, over
  <1>7. /\ TableTrue(u, Put(lastSeen, d, now), now)
        /\ OnlyDir(t, n, i, d)
    <2>1. History(lastSeen)
      BY DEF Histories
    <2> QED
      BY <1>1, <1>3, <1>4, <1>6, <2>1, AcceptTrue, Zenon DEF nd
  <1>8. a \in Nat /\ b \in Nat
    BY <1>3 DEF a, b
  <1>9. /\ h \in Nat /\ nd3.ba[i] <= Owed(unknown, putby, moved, d) + a + b - h
        /\ Owed(unknown, putby, moved, d) + a + b - h >= 0
    <2> DEFINE w == Owed(unknown, putby, moved, d)
    <2>1. w \in Int /\ w >= 0
      <3>1. Get(unknown, d) \in Nat /\ Get(putby, d) \in Nat /\ Get(moved, d) \in Nat
        BY DEF Histories, History, Get
      <3> QED
        BY <1>1, <3>1 DEF Owed, TableOwes
    <2>2. nd.ba[i] \in Nat /\ nd.ba[i] <= w
      BY <1>0, <1>1 DEF NodeOwes, FlowNodeRec
    <2> HIDE DEF w
    <2>3. nd2.ba[i] \in Nat /\ nd2.ba[i] <= w
      <3>1. nd2.ba[i] = IF new THEN 0 ELSE nd.ba[i]
        BY <1>4, Zenon
      <3> QED
        BY <2>1, <2>2, <3>1
    <2>4. CASE Gathers(nd2, i)
      <3>1. nd3.class[i] = 0 /\ nd2.class[i] = 0
        BY <1>4, <2>4 DEF Gathers
      <3>2. a = p.len /\ b = p.extra /\ h = 0
        BY <1>3, <2>4, <3>1 DEF a, b, h, HandedOver
      <3>3. nd3.ba[i] = nd2.ba[i] + p.len + p.extra
        BY <1>4, <2>4
      <3> QED
        BY <1>3, <2>1, <2>3, <3>2, <3>3 DEF w
    <2>5. CASE ~Gathers(nd2, i) /\ nd2.class[i] = 0
      <3>1. a = p.len + p.extra /\ b = 0 /\ h = 0 /\ nd3.ba[i] = 0
        BY <1>3, <1>4, <2>5 DEF a, b, h, HandedOver
      <3> QED
        BY <1>3, <2>1, <3>1 DEF w
    <2>6. CASE ~Gathers(nd2, i) /\ nd2.class[i] # 0
      <3>1. a = 0 /\ b = 0 /\ h = nd2.ba[i] /\ nd3.ba[i] = 0
        BY <1>4, <2>6 DEF a, b, h, HandedOver
      <3> QED
        BY <2>1, <2>3, <3>1 DEF w
    <2> QED
      BY <2>4, <2>5, <2>6
  <1>10. TableOwes(u, Put(unknown, d, Get(unknown, d) + a), Put(putby, d, Get(putby, d) + b),
                   Put(moved, d, Get(moved, d) + h))
    <2>1. History(unknown) /\ History(putby) /\ History(moved)
      BY DEF Histories
    <2>2. nd3.key = t.node[n].key /\ nd3.ba[Rev(i)] = t.node[n].ba[Rev(i)]
      BY <1>4 DEF nd
    <2>3. ~Mirrored(nd3.key, i) /\ Dir(nd3.key, i) = d
      BY <1>1, <1>4
    <2> QED
      BY <1>1, <1>6, <1>7, <1>8, <1>9, <2>1, <2>2, <2>3, AcceptOwes, Zenon
  <1>11. TableBusy(u, flowEmergency)
    <2>1. PICK L \in SUBSET FlowLifetimes :
            \A s \in Int : IsExpiredUni(s, nd3, i) <=> \E l \in L : s > nd3.last[i] + l
      BY <1>1, <1>4, ExpiredByLife
    <2>2. flowEmergency \in Nat /\ flowEmergency <= now /\ FlowLifetimes \subseteq Nat
      BY FlowAssumption DEF FlowTimes
    <2>3. ~IsExpiredUni(flowEmergency, nd3, i)
      <3>1. \A l \in L : ~(flowEmergency > now + l)
        BY <1>3, <2>2
      <3>2. nd3.last[i] = now
        BY <1>4, Zenon
      <3> QED
        BY <2>1, <2>2, <3>1, <3>2
    <2>4. ~IsExpired(flowEmergency, nd3)
      BY <1>1, <2>3 DEF IsExpired
    <2> QED
      BY <1>6, <2>4 DEF TableBusy, Replaced
  <1>12. Histories'
    <2>1. /\ History(lastSeen) /\ History(unknown) /\ History(putby) /\ History(moved)
          /\ DOMAIN unknown = DOMAIN moved /\ DOMAIN putby = DOMAIN moved
          /\ Get(unknown, d) \in Nat /\ Get(putby, d) \in Nat /\ Get(moved, d) \in Nat
      BY DEF Histories, History, Get
    <2>2. /\ Get(unknown, d) + a \in Nat /\ Get(putby, d) + b \in Nat
          /\ Get(moved, d) + h \in Nat
      BY <1>8, <1>9, <2>1
    <2>3. /\ History(lastSeen') /\ History(unknown') /\ History(putby') /\ History(moved')
          /\ DOMAIN unknown' = DOMAIN unknown \cup {d} /\ DOMAIN putby' = DOMAIN putby \cup {d}
          /\ DOMAIN moved' = DOMAIN moved \cup {d}
      BY <1>1, <1>3, <1>5, <2>1, <2>2, PutFacts, ZenonT(30)
    <2> QED
      BY <2>1, <2>3 DEF Histories
  <1>g. /\ Get(lastSeen, d) \in Nat /\ Get(lastSeen, Opposite(d)) \in Nat
        /\ FlowLifetimes \subseteq Nat
        /\ \A l \in FlowLifetimes : l < StartTime
        /\ StartTime \in Nat /\ StartTime <= now
    BY FlowAssumption, CaptureAssumption DEF FlowTimes, Histories, History, Get
  <1>s. ASSUME ~new PROVE \E l \in FlowLifetimes : now - Get(lastSeen, d) <= l
    BY <1>s DEF d
  <1>13. CountedOnce'
    <2>1. due => new
      <3> SUFFICES ASSUME due, ~new PROVE FALSE
        OBVIOUS
      <3>1. PICK l \in FlowLifetimes : now - Get(lastSeen, d) <= l
        BY <1>s
      <3>2. now - Get(lastSeen, d) > l
        BY DEF due
      <3> QED
        BY <1>3, <1>g, <3>1, <3>2
    <2>2. early => ~new
      <3> SUFFICES ASSUME early, new PROVE FALSE
        OBVIOUS
      <3>1. PICK l \in FlowLifetimes : now > Get(lastSeen, d) + l
        BY DEF d, Gone
      <3>2. now - Get(lastSeen, d) <= l
        BY DEF early
      <3> QED
        BY <1>3, <1>g, <3>1, <3>2
    <2> QED
      BY <1>5, <2>1, <2>2 DEF CountedOnce
  <1>14. ClassForgotten'
    <2>1. ASSUME over PROVE nd3.class[i] = 0
      <3>1. /\ c = 0 /\ p.reveals = 0
            /\ \A l \in FlowLifetimes : now - Get(lastSeen, d) > l
            /\ \A l \in FlowLifetimes : now - Get(lastSeen, Opposite(d)) > l
        BY <2>1 DEF over
      <3>2. new
        <4>1. SUFFICES ASSUME ~new PROVE FALSE
          OBVIOUS
        <4>2. PICK l \in FlowLifetimes : now - Get(lastSeen, d) <= l
          BY <1>s, <4>1
        <4>3. now - Get(lastSeen, d) > l
          BY <3>1
        <4> QED
          BY <1>3, <1>g, <4>2, <4>3
      <3>3. ASSUME NEW l \in FlowLifetimes PROVE now > nd.last[Rev(i)] + l
        <4>2. nd.last[Rev(i)] = 0 \/ nd.last[Rev(i)] = Get(lastSeen, Opposite(d))
          BY <1>0, <1>1 DEF NodeTrue
        <4> QED
          BY <1>3, <1>g, <3>1, <4>2
      <3> QED
        BY <1>4, <3>1, <3>2, <3>3
    <2> QED
      BY <1>5, <2>1 DEF ClassForgotten
  <1>15. RefusedOnlyBusy'
    BY <1>5 DEF RefusedOnlyBusy
  <1>16. FlowTimes' /\ verdict'.class \in Nat
    <2>1. nd3.class[i] \in Nat
      BY <1>1, <1>4 DEF FlowNodeRec
    <2> QED
      BY <1>5, <2>1 DEF FlowTimes
  <1> QED
    BY <1>5, <1>6, <1>7, <1>10, <1>11, <1>12, <1>13, <1>14, <1>15, <1>16
       DEF FlowInv, FlowVerdicts

\* The direction of a packet is one of its flow, and not one that no packet has.
LEMMA DirectionOf ==
  ASSUME NEW p \in PacketRec
  PROVE  /\ Idx(p) \in Dirs /\ Direction(p) = Dir(FlowKey(p), Idx(p))
         /\ ~Mirrored(FlowKey(p), Idx(p)) /\ FlowKey(p) \in Normal
PROOF
  <1>1. /\ Idx(p) \in Dirs /\ FlowKey(p) \in Normal
        /\ Idx(p) = 0 => Direction(p) = FlowKey(p)
        /\ Idx(p) = 1 => Direction(p) = Opposite(FlowKey(p)) /\ Direction(p) # FlowKey(p)
    BY TupleFacts
  <1>2. Idx(p) = 0 \/ Idx(p) = 1
    BY <1>1 DEF Dirs
  <1> QED
    BY <1>1, <1>2 DEF Dir, Mirrored

\* The table is as right after the prune that a packet may start with.
LEMMA SweptTrue ==
  ASSUME FlowInv
  PROVE  /\ FlowOK(FlowSwept) /\ TableTrue(FlowSwept, lastSeen, now)
         /\ TableOwes(FlowSwept, unknown, putby, moved)
         /\ TableBusy(FlowSwept, flowEmergency)
         /\ \A n \in FlowsIn(FlowSwept) : /\ FlowSwept.node[n] \in FlowNodeRec
                                          /\ FlagsOK(FlowSwept.node[n])
                                          /\ FlowSwept.node[n].key \in Normal
                                          /\ NodeTrue(FlowSwept.node[n], lastSeen, now)
PROOF
  <1>1. /\ FlowOK(flow) /\ TableTrue(flow, lastSeen, now) /\ now \in Nat /\ History(lastSeen)
        /\ TableOwes(flow, unknown, putby, moved) /\ TableBusy(flow, flowEmergency)
    BY DEF FlowInv, FlowTimes, Histories
  <1>2. FlowSwept = flow \/ FlowSwept = PruneFlows(flow)
    BY DEF FlowSwept
  <1>3. FlowOK(PruneFlows(flow))
    BY <1>1, PruneFlowsKeeps
  <1>4. /\ FlowOK(FlowSwept) /\ TableTrue(FlowSwept, lastSeen, now)
        /\ TableOwes(FlowSwept, unknown, putby, moved)
        /\ TableBusy(FlowSwept, flowEmergency)
    BY <1>1, <1>2, <1>3, PrunedTrue
  <1>5. /\ FlowSwept.node \in [FlowIds -> FlowNodeRec] /\ FlowsIn(FlowSwept) \subseteq FlowIds
        /\ \A n \in FlowsIn(FlowSwept) : FlowSwept.node[n].key \in Normal
    BY <1>4, FlowRoom DEF FlowOK, FlowRec
  <1> QED
    BY <1>4, <1>5 DEF TableTrue

\* A packet of a known flow: find_flow() takes its direction for new when it has
\* expired.
LEMMA FlowFoundKeeps ==
  ASSUME FlowInv, NEW p \in PacketRec, SearchConntrack(p).class \in Nat, FlowFound(p),
         now' = now
  PROVE  FlowInv'
PROOF
  <1>1. PICK n \in FlowHits(FlowSwept, p) :
          \E new \in {IsExpiredUni(now, FlowSwept.node[n], Idx(p))} :
            Accept(FlowSwept, n, p, new)
    BY DEF FlowFound
  <1> DEFINE t == FlowSwept
             nd == t.node[n]
             i == Idx(p)
             new == IsExpiredUni(now, nd, i)
  <1>2. Accept(t, n, p, new)
    BY <1>1
  <1>3. /\ FlowOK(t) /\ TableTrue(t, lastSeen, now) /\ TableOwes(t, unknown, putby, moved)
        /\ TableBusy(t, flowEmergency)
        /\ n \in FlowsIn(t) /\ nd.key = FlowKey(p)
        /\ nd \in FlowNodeRec /\ FlagsOK(nd) /\ NodeTrue(nd, lastSeen, now)
    BY <1>1, SweptTrue DEF FlowHits
  <1>4. /\ History(lastSeen) /\ Histories /\ FlowTimes /\ now \in Nat /\ StartTime <= now
    BY DEF FlowInv, Histories, FlowTimes
  <1>5. /\ i \in Dirs /\ Direction(p) = Dir(nd.key, i) /\ ~Mirrored(nd.key, i)
    BY <1>3, DirectionOf
  <1> HIDE DEF t, nd, i
  <1>6. new => Gone(lastSeen, now, Direction(p))
    BY <1>3, <1>4, <1>5, ExpiredGone
  <1>7. ~new => \E l \in FlowLifetimes : now - Get(lastSeen, Direction(p)) <= l
    BY <1>3, <1>4, <1>5, LiveSeen
  <1> HIDE DEF new
  <1>9. PICK nd0, hit, nd1, nd2, nd3 :
          /\ hit = IF new THEN SearchConntrack(p) ELSE [class |-> 0, ct |-> ct]
          /\ Taken(t.node[n], p, Idx(p), hit.class, new, nd0, nd1, nd2, nd3)
          /\ Entered(t, n, p, new, hit, nd2, nd3)
    BY <1>2, AcceptGives
  <1>10. flowEmergency' = flowEmergency
    BY DEF FlowFound
  <1>11. /\ t.node[n].key = FlowKey(p)
         /\ \A m \in FlowsIn(t) \ {n} : ~IsExpired(flowEmergency, t.node[m])
    BY <1>3 DEF nd, TableBusy
  <1> QED
    BY <1>3, <1>4, <1>6, <1>7, <1>9, <1>10, <1>11, AcceptKeeps

\* A packet of a flow without a node: create_flow() makes one.
LEMMA FlowCreateKeeps ==
  ASSUME FlowInv, NEW p \in PacketRec, HashFlow(FlowKey(p)) \in FlowBuckets,
         SearchConntrack(p).class \in Nat, FlowCreate(p), now' = now
  PROVE  FlowInv'
PROOF
  <1> DEFINE t == FlowPlaced(FlowSwept, p).tab
             n == FlowPlaced(FlowSwept, p).id
  <1>1. /\ FlowHits(FlowSwept, p) = {} /\ FlowSwept.left > 0
        /\ Accept(t, n, p, TRUE) /\ flowEmergency' = flowEmergency
    BY DEF FlowCreate
  <1>2. /\ FlowOK(FlowSwept) /\ TableTrue(FlowSwept, lastSeen, now)
        /\ TableOwes(FlowSwept, unknown, putby, moved) /\ TableBusy(FlowSwept, flowEmergency)
    BY SweptTrue
  <1>3. /\ History(lastSeen) /\ Histories /\ FlowTimes /\ now \in Nat /\ StartTime <= now
    BY DEF FlowInv, Histories, FlowTimes
  <1>4. /\ FlowOK(t) /\ n \in FlowsIn(t) /\ t.node[n] = NewFlowNode(FlowKey(p))
        /\ TableTrue(t, lastSeen, now)
        /\ \A i \in Dirs : Gone(lastSeen, now, Dir(FlowKey(p), i))
        /\ \A m \in FlowsIn(t) \ {n} : ~IsExpired(flowEmergency, t.node[m])
        /\ TableOwes(t, unknown, putby, moved)
    BY <1>1, <1>2, <1>3, PlacedTrue
  <1>5. t.node[n].key = FlowKey(p)
    BY <1>4 DEF NewFlowNode
  <1>6. Gone(lastSeen, now, Direction(p))
    BY <1>4, DirectionOf
  <1> HIDE DEF t, n
  <1>7. PICK nd0, hit, nd1, nd2, nd3 :
          /\ hit = IF TRUE THEN SearchConntrack(p) ELSE [class |-> 0, ct |-> ct]
          /\ Taken(t.node[n], p, Idx(p), hit.class, TRUE, nd0, nd1, nd2, nd3)
          /\ Entered(t, n, p, TRUE, hit, nd2, nd3)
    BY <1>1, AcceptGives
  <1> QED
    BY <1>1, <1>3, <1>4, <1>5, <1>6, <1>7, AcceptKeeps

\* A packet of a flow without room: the emergency prune leaves live nodes only, or
\* was a while ago and did so then.
LEMMA FlowRefuseKeeps ==
  ASSUME FlowInv, NEW p \in PacketRec, FlowRefuse(p), now' = now
  PROVE  FlowInv'
PROOF
  <1> DEFINE must == now > flowEmergency + FLOW_TABLE_EMER_PRUNE_INTERVAL
             t == FlowSwept
             last == now - FLOW_TABLE_EMER_PRUNE_INTERVAL - 1
  <1>1. /\ flow' = IF must THEN PruneFlows(t) ELSE t
        /\ flowEmergency' = IF must THEN now ELSE flowEmergency
        /\ verdict' = [NoVerdict EXCEPT !.refused = TRUE, !.at = now]
        /\ UNCHANGED <<lastSeen, unknown, putby, moved>>
    BY DEF FlowRefuse
  <1>2. /\ FlowOK(t) /\ TableTrue(t, lastSeen, now) /\ TableOwes(t, unknown, putby, moved)
        /\ TableBusy(t, flowEmergency)
    BY SweptTrue
  <1>3. /\ History(lastSeen) /\ Histories /\ FlowTimes /\ now \in Nat /\ StartTime <= now
        /\ flowEmergency \in Nat /\ flowEmergency <= now
        /\ FLOW_TABLE_EMER_PRUNE_INTERVAL \in Nat
    BY FlowAssumption DEF FlowInv, Histories, FlowTimes
  <1>4. FlowOK(PruneFlows(t))
    BY <1>2, PruneFlowsKeeps
  <1> HIDE DEF t
  <1>5. /\ TableTrue(PruneFlows(t), lastSeen, now) /\ TableBusy(PruneFlows(t), now)
        /\ TableOwes(PruneFlows(t), unknown, putby, moved)
    BY <1>2, <1>3, PrunedTrue
  <1> DEFINE u == IF must THEN PruneFlows(t) ELSE t
             e == IF must THEN now ELSE flowEmergency
  <1>6. /\ FlowOK(u) /\ TableTrue(u, lastSeen, now) /\ TableOwes(u, unknown, putby, moved)
        /\ TableBusy(u, e)
    BY <1>2, <1>4, <1>5
  <1>7. last \in Int /\ last <= e /\ e \in Nat /\ e <= now
    BY <1>3
  <1> HIDE DEF u, e, last
  <1>8. \A n \in FlowsIn(u) : ~IsExpired(last, u.node[n])
    <2> SUFFICES ASSUME NEW n \in FlowsIn(u), IsExpired(last, u.node[n]) PROVE FALSE
      OBVIOUS
    <2>1. u.node[n] \in FlowNodeRec /\ FlagsOK(u.node[n])
      <3>1. u.node \in [FlowIds -> FlowNodeRec] /\ FlowsIn(u) \subseteq FlowIds
        BY <1>6, FlowRoom DEF FlowOK, FlowRec
      <3> QED
        BY <1>6, <3>1 DEF TableTrue
    <2>2. IsExpired(e, u.node[n])
      BY <1>7, <2>1, ExpiredLater
    <2> QED
      BY <1>6, <2>2 DEF TableBusy
  <1>9. flow' = u /\ flowEmergency' = e
    BY <1>1 DEF u, e
  <1>10. CountedOnce' /\ ClassForgotten' /\ verdict'.class \in Nat
    BY <1>1 DEF CountedOnce, ClassForgotten, NoVerdict
  <1>11. RefusedOnlyBusy'
    <2>1. now' - FLOW_TABLE_EMER_PRUNE_INTERVAL - 1 = last
      BY DEF last
    <2> QED
      BY <1>8, <1>9, <2>1 DEF RefusedOnlyBusy
  <1>12. FlowTimes' /\ Histories'
    BY <1>1, <1>3, <1>7, <1>9 DEF FlowTimes, Histories
  <1> QED
    BY <1>1, <1>6, <1>9, <1>10, <1>11, <1>12 DEF FlowInv, FlowVerdicts

\* ip_flow_handler(), whatever it does with a packet.
LEMMA FlowHandlerKeeps ==
  ASSUME FlowInv, NEW p \in PacketRec, HashFlow(FlowKey(p)) \in FlowBuckets,
         SearchConntrack(p).class \in Nat, FlowHandler(p), now' = now
  PROVE  FlowInv'
PROOF
  <1>1. FlowFound(p) \/ FlowCreate(p) \/ FlowRefuse(p)
    BY DEF FlowHandler
  <1> QED
    BY <1>1, FlowFoundKeeps, FlowCreateKeeps, FlowRefuseKeeps

\* A packet that flows are not told about, or a second that passes, does not harm it.
LEMMA NoFlowKeeps ==
  ASSUME FlowInv, NoFlow, now' \in {now, now + 1}
  PROVE  FlowInv'
PROOF
  <1>1. /\ flow' = flow /\ flowEmergency' = flowEmergency /\ lastSeen' = lastSeen
        /\ unknown' = unknown /\ putby' = putby /\ moved' = moved /\ verdict' = NoVerdict
    BY DEF NoFlow
  <1>2. /\ now \in Nat /\ StartTime <= now /\ flowEmergency \in Nat /\ flowEmergency <= now
        /\ StartTime \in Nat /\ FlowLifetimes \subseteq Nat
        /\ \A d : Get(lastSeen, d) \in Nat
    BY FlowAssumption, CaptureAssumption DEF FlowInv, FlowTimes, Histories, History, Get
  <1>3. now' \in Nat /\ now <= now' /\ StartTime <= now' /\ flowEmergency <= now'
    BY <1>2
  <1>4. \A d : Gone(lastSeen, now, d) => Gone(lastSeen, now', d)
    <2> SUFFICES ASSUME NEW d, NEW l \in FlowLifetimes, now > Get(lastSeen, d) + l
                 PROVE  now' > Get(lastSeen, d) + l
      BY DEF Gone
    <2>1. Get(lastSeen, d) \in Nat /\ l \in Nat
      BY <1>2
    <2> QED
      BY <1>2, <1>3, <2>1
  <1>5. TableTrue(flow, lastSeen, now')
    <2>1. \A n \in FlowsIn(flow) : NodeTrue(flow.node[n], lastSeen, now')
      BY <1>4 DEF FlowInv, TableTrue, NodeTrue
    <2> QED
      BY <1>4, <2>1 DEF FlowInv, TableTrue
  <1>6. FlowVerdicts'
    BY <1>1 DEF FlowVerdicts, CountedOnce, ClassForgotten, RefusedOnlyBusy, NoVerdict
  <1>7. FlowTimes' /\ Histories'
    BY <1>1, <1>2, <1>3 DEF FlowTimes, FlowInv, Histories
  <1> QED
    BY <1>1, <1>5, <1>6, <1>7 DEF FlowInv

\* init_ip_flow_handler().
LEMMA FlowStarts ==
  ASSUME ClockInit, FlowInit
  PROVE  FlowInv
PROOF
  <1> DEFINE e == << >>
  <1>1. e \in Seq(FlowIds) /\ Len(e) = 0 /\ Range(e) = {} /\ Once(e) /\ DOMAIN e = {}
    <2>1. e \in Seq(FlowIds) /\ Len(e) = 0 /\ DOMAIN e = {}
      BY EmptySeq
    <2> QED
      BY <2>1 DEF Range, Once
  <1>2. FreeFlow \in FlowNodeRec
    BY NewFlowType DEF FreeFlow
  <1>3. now \in Nat /\ now = StartTime /\ FlowNodes \in Nat
    BY CaptureAssumption, FlowAssumption DEF ClockInit
  <1>4. /\ flow.chain = [b \in FlowBuckets |-> e] /\ flow.lru = e
        /\ flow.node = [n \in FlowIds |-> FreeFlow] /\ flow.left = FlowNodes
        /\ flow = [chain |-> flow.chain, lru |-> flow.lru, node |-> flow.node,
                   left |-> flow.left]
        /\ lastSeen = e /\ unknown = e /\ putby = e /\ moved = e
        /\ flowEmergency = 0 /\ verdict = NoVerdict
    BY DEF FlowInit, EmptyFlows
  <1> HIDE DEF e
  <1>5. flow \in FlowRec
    BY <1>1, <1>2, <1>3, <1>4 DEF FlowRec
  <1>6. FlowsIn(flow) = {}
    BY <1>1, <1>4 DEF FlowsIn
  <1>7. Filed(flow.chain, flow.lru, FlowHomes(flow.node), FlowBuckets, FlowIds)
    BY <1>1, <1>4, <1>5 DEF Filed
  <1>8. FlowOK(flow)
    BY <1>1, <1>3, <1>4, <1>5, <1>6, <1>7 DEF FlowOK
  <1>9. \A d : Get(e, d) = 0
    BY <1>1 DEF Get
  <1>10. Histories /\ FlowTimes
    BY <1>1, <1>3, <1>4 DEF Histories, History, FlowTimes
  <1>11. TableTrue(flow, lastSeen, now)
    <2>1. /\ FLOW_GENERIC_LIFETIME \in FlowLifetimes /\ FLOW_GENERIC_LIFETIME \in Nat
          /\ now > FLOW_GENERIC_LIFETIME
      BY <1>3, FlowAssumption DEF FlowLifetimes
    <2>2. \A d : Gone(e, now, d)
      BY <1>9, <2>1 DEF Gone
    <2> QED
      BY <1>4, <1>6, <2>2 DEF TableTrue
  <1>12. TableOwes(flow, unknown, putby, moved) /\ TableBusy(flow, flowEmergency)
    <2>1. \A d : Owed(e, e, e, d) >= 0
      BY <1>9 DEF Owed
    <2> QED
      BY <1>4, <1>6, <2>1 DEF TableOwes, TableBusy
  <1>13. FlowVerdicts
    BY <1>4 DEF FlowVerdicts, CountedOnce, ClassForgotten, RefusedOnlyBusy, NoVerdict
  <1> QED
    BY <1>8, <1>10, <1>11, <1>12, <1>13 DEF FlowInv

\* What the invariant says in the words of the properties.
LEMMA FlowSound ==
  ASSUME FlowInv
  PROVE  FlowAccounted /\ FlowsExact /\ RefusedOnlyBusy /\ ClassForgotten
PROOF
  <1>1. \A i, j \in DOMAIN flow.lru : flow.lru[i] = flow.lru[j] => i = j
    BY DEF FlowInv, FlowOK, Filed, Once
  <1>2. FlowsIn(flow) = UNION {Range(flow.chain[b]) : b \in FlowBuckets}
    <2> DEFINE f == FlowHomes(flow.node)
    <2>1. /\ \A n \in Range(flow.lru) : f[n] \in FlowBuckets
          /\ \A b \in FlowBuckets :
               Range(flow.chain[b]) = {n \in Range(flow.lru) : f[n] = b}
      BY DEF FlowInv, FlowOK, Filed
    <2> HIDE DEF f
    <2> QED
      BY <2>1 DEF FlowsIn
  <1>3. ASSUME NEW m \in FlowsIn(flow), NEW n \in FlowsIn(flow),
               flow.node[m].key \in {flow.node[n].key, Opposite(flow.node[n].key)}
        PROVE  m = n
    <2>1. flow.node[m].key = flow.node[n].key
      BY <1>3, TupleFacts DEF FlowInv, FlowOK
    <2> QED
      BY <2>1 DEF FlowInv, FlowOK
  <1>4. FlowAccounted
    BY <1>1, <1>2, <1>3 DEF FlowAccounted, FlowInv, FlowOK
  <1>5. MovedOnce
    <2> SUFFICES ASSUME NEW d \in DOMAIN moved PROVE moved[d] <= unknown[d] + putby[d]
      BY DEF MovedOnce
    <2>1. /\ d \in Tuples /\ d \in DOMAIN unknown /\ d \in DOMAIN putby
          /\ unknown[d] \in Nat /\ putby[d] \in Nat /\ moved[d] \in Nat
      BY DEF FlowInv, Histories, History
    <2>2. Owed(unknown, putby, moved, d) >= 0
      BY <2>1 DEF FlowInv, TableOwes
    <2> QED
      BY <2>1, <2>2 DEF Owed, Get
  <1> QED
    BY <1>4, <1>5 DEF FlowInv, FlowVerdicts, FlowsExact

-----------------------------------------------------------------------------
(* Expectations *)

Expectation == [src : Nat, dst : Nat, proto : {"tcp"}, sport : Nat, class : Nat \ {0},
                stamp : Nat]
Grant == [src : Nat, dst : Nat, proto : STRING, sport : Nat, class : Nat, at : Nat]

Honoured(e, g) ==
  /\ Expects(e, g) /\ e.class = g.class
  /\ e.stamp <= g.at /\ g.at < e.stamp + CONNTRACK_GENERIC_LIFETIME

\* f and g tell which announcement a grant used and an entry of the table is: each
\* announcement is either at most once
Backs(gr, ex, asks, f, g) ==
  /\ f \in [1 .. Len(gr) -> 1 .. Len(asks)] /\ g \in [1 .. Len(ex) -> 1 .. Len(asks)]
  /\ \A i, j \in 1 .. Len(gr) : f[i] = f[j] => i = j
  /\ \A i, j \in 1 .. Len(ex) : g[i] = g[j] => i = j
  /\ \A i \in 1 .. Len(gr), j \in 1 .. Len(ex) : f[i] # g[j]
  /\ \A j \in 1 .. Len(ex) : asks[g[j]] = ex[j]
  /\ \A i \in 1 .. Len(gr) : Honoured(asks[f[i]], gr[i])

Backed(gr, ex, asks) == \E f, g : Backs(gr, ex, asks, f, g)

CtInv ==
  /\ ct \in Seq(Expectation) /\ asked \in Seq(Expectation) /\ granted \in Seq(Grant)
  /\ \A j \in 1 .. Len(ct) : ct[j].stamp <= now
  /\ ctLeft \in Nat /\ ctLeft <= CtNodes /\ Len(ct) + ctLeft <= CtNodes + 1
  /\ Backed(granted, ct, asked)

\* An element taken out of the list.
LEMMA TakenOut ==
  ASSUME ct \in Seq(Expectation), NEW h \in 1 .. Len(ct)
  PROVE  /\ CtWithout(h) \in Seq(Expectation) /\ Len(CtWithout(h)) = Len(ct) - 1
         /\ \A j \in 1 .. Len(ct) - 1 : CtWithout(h)[j] = ct[IF j < h THEN j ELSE j + 1]
PROOF
  <1> DEFINE a == SubSeq(ct, 1, h - 1)
             b == SubSeq(ct, h + 1, Len(ct))
             n == Len(ct)
  <1>1. n \in Nat /\ h \in Nat /\ 1 <= h /\ h <= n
    BY LenProperties
  <1>2. \A i \in 1 .. n : ct[i] \in Expectation
    BY ElementOfSeq
  <1>3. /\ a \in Seq(Expectation) /\ Len(a) = h - 1
        /\ \A i \in 1 .. h - 1 : a[i] = ct[i]
    <2>1. 1 \in Int /\ h - 1 \in Int /\ \A i \in 1 .. h - 1 : ct[i] \in Expectation
      BY <1>1, <1>2
    <2>2. /\ a \in Seq(Expectation) /\ Len(a) = IF 1 <= h - 1 THEN h - 1 - 1 + 1 ELSE 0
          /\ \A i \in 1 .. h - 1 - 1 + 1 : a[i] = ct[1 + i - 1]
      BY <2>1, SubSeqProperties
    <2> HIDE DEF a
    <2>3. Len(a) = h - 1
      BY <1>1, <2>2
    <2>4. ASSUME NEW i \in 1 .. h - 1 PROVE a[i] = ct[i]
      <3>1. i \in 1 .. h - 1 - 1 + 1 /\ 1 + i - 1 = i
        BY <1>1
      <3> QED
        BY <2>2, <3>1
    <2> QED
      BY <2>2, <2>3, <2>4
  <1>4. /\ b \in Seq(Expectation) /\ Len(b) = n - h
        /\ \A i \in 1 .. n - h : b[i] = ct[h + i]
    <2>1. h + 1 \in Int /\ n \in Int /\ \A i \in h + 1 .. n : ct[i] \in Expectation
      BY <1>1, <1>2
    <2>2. /\ b \in Seq(Expectation) /\ Len(b) = IF h + 1 <= n THEN n - (h + 1) + 1 ELSE 0
          /\ \A i \in 1 .. n - (h + 1) + 1 : b[i] = ct[(h + 1) + i - 1]
      BY <2>1, SubSeqProperties
    <2> HIDE DEF b
    <2>3. Len(b) = n - h
      <3>1. Len(b) = IF h + 1 <= n THEN n - (h + 1) + 1 ELSE 0
        BY <2>2
      <3>2. CASE h + 1 <= n
        BY <1>1, <3>1, <3>2
      <3>3. CASE ~(h + 1 <= n)
        <4>1. h = n
          BY <1>1, <3>3
        <4> QED
          BY <1>1, <3>1, <3>3, <4>1
      <3> QED
        BY <3>2, <3>3
    <2>4. ASSUME NEW i \in 1 .. n - h PROVE b[i] = ct[h + i]
      <3>1. i \in 1 .. n - (h + 1) + 1 /\ (h + 1) + i - 1 = h + i
        BY <1>1
      <3> QED
        BY <2>2, <3>1
    <2> QED
      BY <2>2, <2>3, <2>4
  <1> HIDE DEF a, b
  <1>5. /\ a \o b \in Seq(Expectation) /\ Len(a \o b) = Len(a) + Len(b)
        /\ \A i \in 1 .. Len(a) + Len(b) :
             (a \o b)[i] = IF i <= Len(a) THEN a[i] ELSE b[i - Len(a)]
    BY <1>3, <1>4, ConcatProperties
  <1>6. CtWithout(h) = a \o b
    BY DEF CtWithout, a, b
  <1>7. Len(a) + Len(b) = n - 1
    BY <1>1, <1>3, <1>4
  <1>8. ASSUME NEW j \in 1 .. n - 1
        PROVE  (a \o b)[j] = ct[IF j < h THEN j ELSE j + 1]
    <2>1. (a \o b)[j] = IF j <= h - 1 THEN a[j] ELSE b[j - (h - 1)]
      BY <1>3, <1>5, <1>7
    <2>2. CASE j < h
      <3>1. j \in 1 .. h - 1 /\ j <= h - 1
        BY <1>1, <2>2
      <3> QED
        BY <1>3, <2>1, <2>2, <3>1
    <2>3. CASE ~(j < h)
      <3>1. /\ j - (h - 1) \in 1 .. n - h /\ h + (j - (h - 1)) = j + 1 /\ ~(j <= h - 1)
        BY <1>1, <2>3
      <3> QED
        BY <1>4, <2>1, <2>3, <3>1
    <2> QED
      BY <2>2, <2>3
  <1> QED
    BY <1>5, <1>6, <1>7, <1>8

\* A sequence with one more element.
LEMMA OneMore ==
  ASSUME NEW S, NEW s \in Seq(S), NEW e \in S
  PROVE  /\ Append(s, e) \in Seq(S) /\ Len(s) \in Nat /\ Len(Append(s, e)) = Len(s) + 1
         /\ \A i \in 1 .. Len(s) : Append(s, e)[i] = s[i]
         /\ Append(s, e)[Len(s) + 1] = e
PROOF
  BY LenProperties

\* search_conntrack_ipv4() uses the announcement that the entry stands for, which no
\* entry stands for any more.
LEMMA GrantKeeps ==
  ASSUME CtInv, now \in Nat, NEW p \in PacketRec, CtHits(p) # {},
         NEW h, h = Min(CtHits(p)), ct' = CtWithout(h),
         granted' = Append(granted, [src |-> p.src, dst |-> p.dst, proto |-> p.proto,
                                     sport |-> p.sport, class |-> ct[h].class, at |-> now]),
         ctLeft' = ctLeft, asked' = asked, now' = now
  PROVE  CtInv'
PROOF
  <1> DEFINE r == [src |-> p.src, dst |-> p.dst, proto |-> p.proto, sport |-> p.sport,
                   class |-> ct[h].class, at |-> now]
             m == Len(granted)
             n == Len(ct)
  <1>0. /\ ct \in Seq(Expectation) /\ asked \in Seq(Expectation) /\ granted \in Seq(Grant)
        /\ DOMAIN ct = 1 .. n /\ n \in Nat
    BY LenProperties DEF CtInv
  <1>1. h \in 1 .. n /\ CtLive(ct[h]) /\ Expects(ct[h], p)
    <2>1. CtHits(p) \subseteq Nat
      BY <1>0 DEF CtHits
    <2>2. h \in CtHits(p)
      BY <2>1, MinOf
    <2> QED
      BY <1>0, <2>2 DEF CtHits
  <1>2. ct[h] \in Expectation /\ ct[h].stamp <= now
    BY <1>0, <1>1, ElementOfSeq DEF CtInv
  <1>3. r \in Grant /\ Honoured(ct[h], r)
    <2>1. /\ p.src \in Nat /\ p.dst \in Nat /\ p.proto \in STRING /\ p.sport \in Nat
          /\ ct[h].class \in Nat
      BY <1>2 DEF PacketRec, Expectation
    <2> QED
      BY <1>1, <1>2, <2>1 DEF Grant, Honoured, Expects, Fits, CtLive
  <1> HIDE DEF r
  <1>4. /\ granted' \in Seq(Grant) /\ m \in Nat /\ Len(granted') = m + 1
        /\ \A i \in 1 .. m : granted'[i] = granted[i]
        /\ granted'[m + 1] = r
    <2>1. granted' = Append(granted, r)
      BY DEF r
    <2> QED
      BY <1>0, <1>3, <2>1, OneMore
  <1>5. /\ ct' \in Seq(Expectation) /\ Len(ct') = n - 1
        /\ \A j \in 1 .. n - 1 : ct'[j] = ct[IF j < h THEN j ELSE j + 1]
    BY <1>0, <1>1, TakenOut, Zenon
  <1>6. PICK f, g : Backs(granted, ct, asked, f, g)
    BY DEF CtInv, Backed
  <1> DEFINE k == Len(asked)
             up(j) == IF j < h THEN j ELSE j + 1
             f2 == [i \in 1 .. m + 1 |-> IF i <= m THEN f[i] ELSE g[h]]
             g2 == [j \in 1 .. n - 1 |-> g[up(j)]]
  <1>7. /\ f \in [1 .. m -> 1 .. k] /\ g \in [1 .. n -> 1 .. k]
        /\ \A i, j \in 1 .. m : f[i] = f[j] => i = j
        /\ \A i, j \in 1 .. n : g[i] = g[j] => i = j
        /\ \A i \in 1 .. m, j \in 1 .. n : f[i] # g[j]
        /\ \A j \in 1 .. n : asked[g[j]] = ct[j]
        /\ \A i \in 1 .. m : Honoured(asked[f[i]], granted[i])
    BY <1>6 DEF Backs
  <1>8. \A j \in 1 .. n - 1 : up(j) \in 1 .. n /\ up(j) # h
    BY <1>0, <1>1
  <1>9. \A i, j \in 1 .. n - 1 : up(i) = up(j) => i = j
    BY <1>0, <1>1
  <1>10. \A i \in 1 .. m + 1 : i \in 1 .. m \/ (i = m + 1 /\ ~(i <= m))
    BY <1>4
  <1> HIDE DEF m, n, k, up
  <1>11. f2 \in [1 .. m + 1 -> 1 .. k] /\ g2 \in [1 .. n - 1 -> 1 .. k]
    BY <1>1, <1>7, <1>8, <1>10
  <1>12. /\ \A i \in 1 .. m : i \in 1 .. m + 1 /\ f2[i] = f[i]
         /\ f2[m + 1] = g[h]
         /\ \A j \in 1 .. n - 1 : g2[j] = g[up(j)]
    BY <1>4
  <1> HIDE DEF f2, g2
  <1>13. \A i, j \in 1 .. m + 1 : f2[i] = f2[j] => i = j
    BY <1>1, <1>7, <1>10, <1>12
  <1>14. \A i, j \in 1 .. n - 1 : g2[i] = g2[j] => i = j
    BY <1>7, <1>8, <1>9, <1>12
  <1>15. ASSUME NEW i \in 1 .. m + 1, NEW j \in 1 .. n - 1 PROVE f2[i] # g2[j]
    <2>1. g2[j] = g[up(j)] /\ up(j) \in 1 .. n /\ up(j) # h
      BY <1>8, <1>12
    <2>2. CASE i \in 1 .. m
      BY <1>7, <1>12, <2>1, <2>2
    <2>3. CASE i = m + 1
      BY <1>1, <1>7, <1>12, <2>1, <2>3
    <2> QED
      BY <1>10, <2>2, <2>3
  <1>16. \A j \in 1 .. n - 1 : asked[g2[j]] = ct'[j]
    BY <1>5, <1>7, <1>8, <1>12 DEF up
  <1>17. \A i \in 1 .. m + 1 : Honoured(asked[f2[i]], granted'[i])
    BY <1>1, <1>3, <1>4, <1>7, <1>10, <1>12
  <1>18. Backs(granted', ct', asked, f2, g2)
    BY <1>4, <1>5, <1>11, <1>13, <1>14, <1>15, <1>16, <1>17, SMTT(30) DEF Backs, k
  <1>19. Backed(granted', ct', asked)
    BY <1>18 DEF Backed
  <1>20. \A j \in 1 .. n - 1 : ct'[j].stamp <= now
    BY <1>5, <1>8 DEF CtInv, up, n
  <1>21. n - 1 + ctLeft <= CtNodes + 1
    BY <1>0, CtAssumption DEF CtInv, n
  <1> QED
    BY <1>0, <1>4, <1>5, <1>19, <1>20, <1>21 DEF CtInv

\* the entries ey are those of ex, but for the entry q (if there is a q), which is e
EntryPut(ex, ey, q, e) ==
  /\ \A j \in 1 .. Len(ey) : j # q => j \in 1 .. Len(ex) /\ ey[j] = ex[j]
  /\ q \in 1 .. Len(ey) => ey[q] = e
Longer(asks, more, e) ==
  /\ Len(more) = Len(asks) + 1 /\ more[Len(asks) + 1] = e
  /\ \A i \in 1 .. Len(asks) : more[i] = asks[i]

\* An announcement more, which the entry q of the table stands for from now on (if
\* there is a q in it).
LEMMA AskedMore ==
  ASSUME NEW gr \in Seq(Grant), NEW ex \in Seq(Expectation), NEW asks \in Seq(Expectation),
         Backed(gr, ex, asks), NEW e \in Expectation, NEW ey \in Seq(Expectation), NEW q,
         EntryPut(ex, ey, q, e), NEW more, Longer(asks, more, e)
  PROVE  Backed(gr, ey, more)
PROOF
  <1> DEFINE m == Len(gr)
             n == Len(ex)
             w == Len(ey)
             k == Len(asks)
  <1>1. m \in Nat /\ n \in Nat /\ w \in Nat /\ k \in Nat
    BY LenProperties
  <1>2. Len(more) = k + 1 /\ more[k + 1] = e /\ \A i \in 1 .. k : more[i] = asks[i]
    BY DEF Longer
  <1>3. PICK f, g : Backs(gr, ex, asks, f, g)
    BY DEF Backed
  <1>4. /\ f \in [1 .. m -> 1 .. k] /\ g \in [1 .. n -> 1 .. k]
        /\ \A i, j \in 1 .. m : f[i] = f[j] => i = j
        /\ \A i, j \in 1 .. n : g[i] = g[j] => i = j
        /\ \A i \in 1 .. m, j \in 1 .. n : f[i] # g[j]
        /\ \A j \in 1 .. n : asks[g[j]] = ex[j]
        /\ \A i \in 1 .. m : Honoured(asks[f[i]], gr[i])
    BY <1>3 DEF Backs
  <1> DEFINE h == [j \in 1 .. w |-> IF j = q THEN k + 1 ELSE g[j]]
  <1>5. /\ \A j \in 1 .. w : j # q => j \in 1 .. n /\ ey[j] = ex[j]
        /\ q \in 1 .. w => ey[q] = e
    BY DEF EntryPut
  <1> HIDE DEF m, n, w, k
  <1>6. \A x \in 1 .. k : x \in 1 .. k + 1 /\ x # k + 1
    BY <1>1
  <1>7. k + 1 \in 1 .. k + 1
    BY <1>1
  <1>8. h \in [1 .. w -> 1 .. k + 1] /\ f \in [1 .. m -> 1 .. k + 1]
    BY <1>4, <1>5, <1>6, <1>7
  <1>9. \A j \in 1 .. w : IF j = q THEN h[j] = k + 1 ELSE h[j] = g[j] /\ j \in 1 .. n
    BY <1>5
  <1> HIDE DEF h
  <1>10. ASSUME NEW i \in 1 .. w, NEW j \in 1 .. w, h[i] = h[j] PROVE i = j
    <2>1. \A x \in 1 .. w : x # q => h[x] # k + 1
      BY <1>4, <1>6, <1>9
    <2>2. CASE i = q \/ j = q
      BY <1>9, <1>10, <2>1, <2>2
    <2>3. CASE i # q /\ j # q
      BY <1>4, <1>9, <1>10, <2>3
    <2> QED
      BY <2>2, <2>3
  <1>11. ASSUME NEW i \in 1 .. m, NEW j \in 1 .. w PROVE f[i] # h[j]
    <2>1. f[i] \in 1 .. k /\ f[i] # k + 1
      BY <1>4, <1>6
    <2>2. CASE j = q
      BY <1>9, <2>1, <2>2
    <2>3. CASE j # q
      BY <1>4, <1>9, <2>3
    <2> QED
      BY <2>2, <2>3
  <1>12. ASSUME NEW j \in 1 .. w PROVE more[h[j]] = ey[j]
    <2>1. CASE j = q
      BY <1>2, <1>5, <1>9, <2>1
    <2>2. CASE j # q
      <3>1. h[j] = g[j] /\ j \in 1 .. n /\ ey[j] = ex[j]
        BY <1>5, <1>9, <2>2
      <3>2. g[j] \in 1 .. k /\ asks[g[j]] = ex[j]
        BY <1>4, <3>1
      <3> QED
        BY <1>2, <3>1, <3>2
    <2> QED
      BY <2>1, <2>2
  <1>13. \A i \in 1 .. m : Honoured(more[f[i]], gr[i])
    BY <1>2, <1>4
  <1>14. Backs(gr, ey, more, f, h)
    BY <1>2, <1>4, <1>8, <1>10, <1>11, <1>12, <1>13 DEF Backs, m, w
  <1> QED
    BY <1>14 DEF Backed

\* insert_conntrack_ipv4() keeps to its budget, wherever it puts the entry.
LEMMA InsertKeeps ==
  ASSUME CtInv, NEW e \in Expectation, e.stamp = now, now \in Nat, InsertConntrack(e),
         granted' = granted, now' = now
  PROVE  CtInv'
PROOF
  <1> DEFINE n == Len(ct)
  <1>0. /\ ct \in Seq(Expectation) /\ asked \in Seq(Expectation) /\ granted \in Seq(Grant)
        /\ DOMAIN ct = 1 .. n /\ n \in Nat /\ Backed(granted, ct, asked)
        /\ \A j \in 1 .. n : ct[j].stamp <= now
        /\ ctLeft \in Nat /\ ctLeft <= CtNodes /\ n + ctLeft <= CtNodes + 1
        /\ CtNodes \in Nat
    BY LenProperties, CtAssumption DEF CtInv
  <1>1. asked' = Append(asked, e)
    BY DEF InsertConntrack
  <1>2. asked' \in Seq(Expectation) /\ Longer(asked, asked', e)
    BY <1>0, <1>1, OneMore DEF Longer
  <1>3. SUFFICES \E q : /\ ct' \in Seq(Expectation) /\ EntryPut(ct, ct', q, e)
                        /\ ctLeft' \in Nat /\ ctLeft' <= CtNodes
                        /\ Len(ct') + ctLeft' <= CtNodes + 1
    <2>1. PICK q : /\ ct' \in Seq(Expectation) /\ EntryPut(ct, ct', q, e)
                   /\ ctLeft' \in Nat /\ ctLeft' <= CtNodes
                   /\ Len(ct') + ctLeft' <= CtNodes + 1
      BY <1>3
    <2>2. Backed(granted, ct', asked')
      BY <1>0, <1>2, <2>1, AskedMore
    <2>3. \A j \in 1 .. Len(ct') : ct'[j].stamp <= now
      BY <1>0, <2>1 DEF EntryPut
    <2> QED
      BY <1>0, <1>2, <2>1, <2>2, <2>3 DEF CtInv
  <1>4. CASE ct = << >> /\ ct' = <<e>> /\ ctLeft' = ctLeft
    <2>1. /\ ct' \in Seq(Expectation) /\ Len(ct') = 1 /\ ct'[1] = e
      BY <1>4
    <2>2. \A j \in 1 .. Len(ct') : j = 1
      BY <2>1
    <2>3. Len(ct') + ctLeft' <= CtNodes + 1
      BY <1>0, <1>4, <2>1
    <2> QED
      BY <1>0, <1>4, <2>1, <2>2, <2>3 DEF EntryPut
  <1>5. CASE CtExpired # {} /\ ct' = [ct EXCEPT ![Min(CtExpired)] = e] /\ ctLeft' = ctLeft
    <2>1. CtExpired \subseteq Nat /\ CtExpired \subseteq 1 .. n
      BY <1>0 DEF CtExpired
    <2>2. PICK q \in 1 .. n : q = Min(CtExpired)
      BY <1>5, <2>1, MinOf
    <2>3. ct' = [ct EXCEPT ![q] = e]
      BY <1>5, <2>2
    <2>4. /\ ct' \in Seq(Expectation) /\ Len(ct') = n
          /\ \A j \in 1 .. n : ct'[j] = IF j = q THEN e ELSE ct[j]
      BY <1>0, <2>3, ExceptSeq
    <2> QED
      BY <1>0, <1>5, <2>4 DEF EntryPut
  <1>6. CASE ctLeft > 0 /\ ct' = Append(ct, e) /\ ctLeft' = ctLeft - 1
    <2>1. /\ ct' \in Seq(Expectation) /\ Len(ct') = n + 1
          /\ \A j \in 1 .. n : ct'[j] = ct[j]
          /\ ct'[n + 1] = e
      BY <1>0, <1>6, OneMore
    <2>2. \A j \in 1 .. Len(ct') : j # n + 1 => j \in 1 .. n
      BY <1>0, <2>1
    <2>3. /\ ctLeft' \in Nat /\ ctLeft' <= CtNodes /\ Len(ct') + ctLeft' <= CtNodes + 1
      BY <1>0, <1>6, <2>1
    <2> QED
      BY <2>1, <2>2, <2>3 DEF EntryPut
  <1>7. CASE ct' = ct /\ ctLeft' = ctLeft
    <2>1. ~(0 \in 1 .. n)
      BY <1>0
    <2> QED
      BY <1>0, <1>7, <2>1 DEF EntryPut
  <1> QED
    BY <1>4, <1>5, <1>6, <1>7 DEF InsertConntrack

\* What search_conntrack_ipv4() returns is a class or none.
LEMMA SearchType ==
  ASSUME CtInv, NEW p
  PROVE  /\ SearchConntrack(p).class \in Nat
         /\ CtHits(p) = {} => SearchConntrack(p) = [class |-> 0, ct |-> ct]
         /\ CtHits(p) # {} => /\ SearchConntrack(p).class # 0
                              /\ SearchConntrack(p).class = ct[Min(CtHits(p))].class
                              /\ SearchConntrack(p).ct = CtWithout(Min(CtHits(p)))
PROOF
  <1>0. ct \in Seq(Expectation) /\ DOMAIN ct = 1 .. Len(ct)
    BY LenProperties DEF CtInv
  <1>1. CASE CtHits(p) = {}
    BY <1>1 DEF SearchConntrack
  <1>2. CASE CtHits(p) # {}
    <2>1. CtHits(p) \subseteq Nat /\ CtHits(p) \subseteq 1 .. Len(ct)
      BY <1>0 DEF CtHits
    <2>2. Min(CtHits(p)) \in 1 .. Len(ct)
      BY <1>2, <2>1, MinOf
    <2>3. ct[Min(CtHits(p))] \in Expectation
      BY <1>0, <2>2, ElementOfSeq
    <2>4. ct[Min(CtHits(p))].class \in Nat \ {0}
      BY <2>3 DEF Expectation
    <2> QED
      BY <1>2, <2>4 DEF SearchConntrack
  <1> QED
    BY <1>1, <1>2

\* What a packet does to the expectations, once it has been taken.
LEMMA ExpectedKeeps ==
  ASSUME CtInv, now \in Nat, NEW p \in PacketRec, NEW hit, NEW nd3,
         hit = SearchConntrack(p) \/ hit = [class |-> 0, ct |-> ct],
         nd3.class[Idx(p)] \in Nat, Expected(p, hit, nd3), now' = now
  PROVE  CtInv'
PROOF
  <1> DEFINE class == nd3.class[Idx(p)]
             e == [src |-> p.src, dst |-> p.dst, proto |-> "tcp", sport |-> p.announces,
                   class |-> class, stamp |-> now]
             r == [src |-> p.src, dst |-> p.dst, proto |-> p.proto, sport |-> p.sport,
                   class |-> hit.class, at |-> now]
  <1>1. /\ granted' = IF hit.class = 0 THEN granted ELSE Append(granted, r)
        /\ IF nd3.helper /\ class # 0 /\ p.payload /\ p.announces # NoPort /\ hit.class = 0
           THEN InsertConntrack(e) ELSE ct' = hit.ct /\ UNCHANGED <<ctLeft, asked>>
    BY DEF Expected
  <1>2. CASE hit.class # 0
    <2>1. CtHits(p) # {} /\ hit = SearchConntrack(p)
      BY <1>2, SearchType
    <2> DEFINE h == Min(CtHits(p))
    <2>2. hit.class = ct[h].class /\ hit.ct = CtWithout(h)
      BY <2>1, SearchType
    <2>3. /\ ct' = CtWithout(h) /\ ctLeft' = ctLeft /\ asked' = asked
          /\ granted' = Append(granted, [src |-> p.src, dst |-> p.dst, proto |-> p.proto,
                                         sport |-> p.sport, class |-> ct[h].class, at |-> now])
      BY <1>1, <1>2, <2>2
    <2> QED
      BY <2>1, <2>3, GrantKeeps
  <1>3. CASE hit.class = 0
    <2>1. hit.ct = ct /\ granted' = granted
      BY <1>1, <1>3, SearchType
    <2>2. CASE nd3.helper /\ class # 0 /\ p.payload /\ p.announces # NoPort
      <3>1. InsertConntrack(e)
        BY <1>1, <1>3, <2>2
      <3>2. e \in Expectation /\ e.stamp = now
        BY <2>2 DEF PacketRec, Expectation
      <3> HIDE DEF e
      <3> QED
        BY <2>1, <3>1, <3>2, InsertKeeps
    <2>3. CASE ~(nd3.helper /\ class # 0 /\ p.payload /\ p.announces # NoPort)
      <3>1. ct' = ct /\ ctLeft' = ctLeft /\ asked' = asked
        BY <1>1, <2>1, <2>3
      <3> QED
        BY <2>1, <3>1 DEF CtInv
    <2> QED
      BY <2>2, <2>3
  <1> QED
    BY <1>2, <1>3

\* ip_flow_handler() and the expectations.
LEMMA FlowHandlerExpects ==
  ASSUME CtInv, now \in Nat, NEW p \in PacketRec, FlowHandler(p), verdict'.class \in Nat,
         now' = now
  PROVE  CtInv'
PROOF
  <1>1. CASE FlowRefuse(p)
    <2>1. UNCHANGED <<ct, ctLeft, asked, granted>>
      BY <1>1 DEF FlowRefuse, ctVars
    <2> QED
      BY <2>1 DEF CtInv
  <1>2. CASE FlowFound(p) \/ FlowCreate(p)
    <2>1. PICK t, n, new : Accept(t, n, p, new)
      BY <1>2 DEF FlowFound, FlowCreate
    <2>2. PICK nd0, hit, nd1, nd2, nd3 :
            /\ hit = IF new THEN SearchConntrack(p) ELSE [class |-> 0, ct |-> ct]
            /\ Entered(t, n, p, new, hit, nd2, nd3) /\ Expected(p, hit, nd3)
      BY <2>1, AcceptGives
    <2>3. nd3.class[Idx(p)] = verdict'.class
      BY <2>2 DEF Entered
    <2>4. hit = SearchConntrack(p) \/ hit = [class |-> 0, ct |-> ct]
      BY <2>2
    <2> QED
      BY <2>2, <2>3, <2>4, ExpectedKeeps
  <1> QED
    BY <1>1, <1>2 DEF FlowHandler

\* What the invariant says in the words of the properties.
LEMMA CtSound ==
  ASSUME CtInv
  PROVE  CtBounded /\ GrantedByControl
PROOF
  <1>1. /\ DOMAIN granted = 1 .. Len(granted) /\ DOMAIN asked = 1 .. Len(asked)
    BY LenProperties DEF CtInv
  <1>2. PICK f, g : Backs(granted, ct, asked, f, g)
    BY DEF CtInv, Backed
  <1>3. f \in Injection(DOMAIN granted, DOMAIN asked)
    BY <1>1, <1>2 DEF Backs, Injection, IsInjective
  <1>4. \A i \in DOMAIN granted : Honoured(asked[f[i]], granted[i])
    BY <1>1, <1>2 DEF Backs
  <1> QED
    BY <1>3, <1>4 DEF CtInv, CtBounded, GrantedByControl, Honoured

-----------------------------------------------------------------------------
(* ip_handler() *)

PathInv == FragInv /\ FlowInv /\ CtInv

\* What is left of a fragment is a packet of the datagram whose header it was given.
LEMMA AsPacketType ==
  ASSUME NEW ans, ans \in AnswerRec, ans.tlhdr \in Keys \X Nat, NEW first \in BOOLEAN,
         NEW len \in Nat, NEW f \in FragBytes
  PROVE  /\ AsPacket(first, len, f, ans) \in PacketRec
         /\ HashFlow(FlowKey(AsPacket(first, len, f, ans))) \in FlowBuckets
PROOF
  <1> DEFINE k == ans.tlhdr[1]
             h == Header(k)
             p == AsPacket(first, len, f, ans)
  <1>1. k \in Keys /\ ans.sum_bytes \in Nat
    BY DEF AnswerRec
  <1>2. h \in HeaderRec /\ HashFlow(FlowKey(h)) \in FlowBuckets /\ f.seq \in Nat /\ f.flags \in SUBSET TcpFlags
    BY <1>1, PathAssumption
  <1> HIDE DEF k, h
  <1>3. /\ p = [src |-> h.src, dst |-> h.dst, sport |-> h.sport, dport |-> h.dport,
                proto |-> h.proto, seq |-> IF first THEN h.seq ELSE f.seq,
                flags |-> IF first THEN h.flags ELSE f.flags,
                len |-> len, extra |-> ans.sum_bytes, payload |-> TRUE, reveals |-> 0,
                announces |-> NoPort]
    BY DEF AsPacket, h, k
  <1>4. p \in PacketRec
    BY <1>1, <1>2, <1>3 DEF HeaderRec, PacketRec
  <1>5. FlowKey(p) = FlowKey(h)
    BY <1>3 DEF FlowKey, Reversed
  <1> QED
    BY <1>2, <1>4, <1>5

\* The invariant holds at start.
LEMMA PathStarts ==
  ASSUME PathInit
  PROVE  PathInv
PROOF
  <1>1. FragInv
    BY FragStarts DEF PathInit
  <1>2. FlowInv
    BY FlowStarts DEF PathInit
  <1>3. CtInv
    <2> DEFINE e == << >>
    <2>1. /\ ct = e /\ asked = e /\ granted = e /\ ctLeft = CtNodes /\ CtNodes \in Nat
      BY CtAssumption DEF PathInit, CtInit
    <2>2. e \in Seq(Expectation) /\ e \in Seq(Grant) /\ Len(e) = 0
      BY EmptySeq
    <2> HIDE DEF e
    <2>3. 1 .. Len(e) = {}
      BY <2>2
    <2>4. Backs(e, e, e, [i \in 1 .. Len(e) |-> 0], [i \in 1 .. Len(e) |-> 0])
      BY <2>3 DEF Backs
    <2>5. Backed(granted, ct, asked)
      BY <2>1, <2>4 DEF Backed
    <2> QED
      BY <2>1, <2>2, <2>3, <2>5 DEF CtInv
  <1> QED
    BY <1>1, <1>2, <1>3 DEF PathInv

\* A packet that is not a fragment.
LEMMA WholePacketKeeps ==
  ASSUME PathInv, NEW p \in Packets, WholePacket(p), now' = now
  PROVE  PathInv'
PROOF
  <1>1. /\ p \in PacketRec /\ HashFlow(FlowKey(p)) \in FlowBuckets
    BY PathAssumption
  <1>2. /\ FragInv /\ FlowInv /\ CtInv /\ FlowHandler(p) /\ NoFragment /\ now \in Nat
    BY DEF PathInv, WholePacket, FlowInv, FlowTimes
  <1>3. FragInv'
    BY <1>2, NoFragmentKeeps
  <1>4. SearchConntrack(p).class \in Nat
    BY <1>2, SearchType
  <1>5. FlowInv'
    BY <1>1, <1>2, <1>4, FlowHandlerKeeps
  <1>6. verdict'.class \in Nat
    BY <1>5 DEF FlowInv, FlowVerdicts
  <1>7. CtInv'
    BY <1>1, <1>2, <1>6, FlowHandlerExpects
  <1> QED
    BY <1>3, <1>5, <1>7 DEF PathInv

\* A packet or a second that the flow table is not told about leaves the expectations
\* as they are.
LEMMA NoFlowExpects ==
  ASSUME CtInv, NoFlow, now \in Nat, now' \in {now, now + 1}
  PROVE  CtInv'
PROOF
  <1>1. ct' = ct /\ ctLeft' = ctLeft /\ asked' = asked /\ granted' = granted
    BY DEF NoFlow, ctVars
  <1>2. ct \in Seq(Expectation) /\ \A j \in 1 .. Len(ct) : ct[j].stamp <= now
    BY DEF CtInv
  <1>3. \A j \in 1 .. Len(ct) : ct[j].stamp <= now'
    <2> SUFFICES ASSUME NEW j \in 1 .. Len(ct) PROVE ct[j].stamp <= now'
      OBVIOUS
    <2>1. ct[j] \in Expectation
      BY <1>2, ElementOfSeq
    <2>2. ct[j].stamp \in Nat
      BY <2>1 DEF Expectation
    <2> QED
      BY <1>2, <2>2
  <1> QED
    BY <1>1, <1>3 DEF CtInv

\* A fragment, and what is left of it.
LEMMA FragmentKeeps ==
  ASSUME PathInv, NEW k \in FragKeys, NEW first \in BOOLEAN, NEW len \in FragLens,
         Fragment(k, first, len), now' = now
  PROVE  PathInv'
PROOF
  <1>1. k \in Keys /\ len \in Nat
    BY PathAssumption DEF FragKeys
  <1>2. /\ FragInv /\ FlowInv /\ CtInv /\ FragHandler(k, first, len) /\ now \in Nat
    BY DEF PathInv, Fragment, FlowInv, FlowTimes
  <1>3. FragInv'
    BY <1>1, <1>2, FragHandlerKeeps
  <1>4. CASE NoFlow
    <2>1. FlowInv' /\ CtInv'
      BY <1>2, <1>4, NoFlowKeeps, NoFlowExpects
    <2> QED
      BY <1>3, <2>1 DEF PathInv
  <1>5. CASE ~NoFlow
    <2>1. /\ answer'.ret
          /\ \E p \in {AsPacket(first, len, b, answer') : b \in FragBytes} : FlowHandler(p)
      BY <1>5 DEF Fragment
    <2>2. PICK f \in FragBytes : FlowHandler(AsPacket(first, len, f, answer'))
      BY <2>1
    <2>3. PICK p : p = AsPacket(first, len, f, answer')
      OBVIOUS
    <2>4. answer' \in AnswerRec /\ answer'.tlhdr \in Keys \X Nat
      BY <1>3, <2>1 DEF FragInv, FragAnswers
    <2>5. p \in PacketRec /\ HashFlow(FlowKey(p)) \in FlowBuckets
      BY <1>1, <2>3, <2>4, AsPacketType
    <2>6. FlowHandler(p)
      BY <2>2, <2>3
    <2>7. SearchConntrack(p).class \in Nat
      BY <1>2, SearchType
    <2>8. FlowInv'
      BY <1>2, <2>5, <2>6, <2>7, FlowHandlerKeeps
    <2>9. verdict'.class \in Nat
      BY <2>8 DEF FlowInv, FlowVerdicts
    <2>10. CtInv'
      BY <1>2, <2>5, <2>6, <2>9, FlowHandlerExpects
    <2> QED
      BY <1>3, <2>8, <2>10 DEF PathInv
  <1> QED
    BY <1>4, <1>5

\* Every step of the packet path keeps the invariant.
LEMMA PathKeeps ==
  ASSUME PathInv, [PathNext]_pathVars
  PROVE  PathInv'
PROOF
  <1>0. now \in Nat
    BY DEF PathInv, FlowInv, FlowTimes
  <1>1. CASE IpHandler
    <2>1. now' = now
      BY <1>1 DEF IpHandler
    <2>2. CASE \E p \in Packets : WholePacket(p)
      BY <2>1, <2>2, WholePacketKeeps
    <2>3. CASE \E k \in FragKeys, first \in BOOLEAN, len \in FragLens : Fragment(k, first, len)
      BY <2>1, <2>3, FragmentKeeps
    <2> QED
      BY <1>1, <2>2, <2>3 DEF IpHandler
  <1>2. CASE Time
    <2>1. NoFragment /\ NoFlow /\ now' = now + 1
      BY <1>2 DEF Time, Tick
    <2>2. FragInv' /\ FlowInv' /\ CtInv'
      BY <1>0, <2>1, NoFragmentKeeps, NoFlowKeeps, NoFlowExpects DEF PathInv
    <2> QED
      BY <2>2 DEF PathInv
  <1>3. CASE UNCHANGED pathVars
    <2>1. FragInv'
      BY <1>3 DEF PathInv, FragInv, FragOK, FragTimes, FragHonest, FragAnswers, OwnPorts,
        OwnBytes, StaleRootAfterSkip, RefusedOnlyFull, pathVars, fragVars
    <2>2. FlowInv'
      BY <1>3 DEF PathInv, FlowInv, FlowTimes, Histories, FlowVerdicts, CountedOnce,
        ClassForgotten, RefusedOnlyBusy, pathVars, flowVars
    <2>3. CtInv'
      BY <1>3 DEF PathInv, CtInv, pathVars, ctVars
    <2> QED
      BY <2>1, <2>2, <2>3 DEF PathInv
  <1> QED
    BY <1>1, <1>2, <1>3 DEF PathNext

\* The three tables of the packet path, and what they know of the packets so far, in
\* every reachable state.
THEOREM PathInvariant == PathSpec => []PathInv
PROOF
  <1>1. PathInit => PathInv
    BY PathStarts
  <1>2. PathInv /\ [PathNext]_pathVars => PathInv'
    BY PathKeeps
  <1> QED
    BY <1>1, <1>2, PTL DEF PathSpec

\* Buckets, lists and budgets of ip_frag.c, ip_flow.c and conntrack.c agree, whatever
\* is created, recycled or pruned, and whenever malloc() fails.
THEOREM PathTablesAreSound == PathSpec => []TablesSound
PROOF
  <1>1. PathInv => TablesSound
    BY FragSound, FlowSound, CtSound DEF PathInv, TablesSound
  <1> QED
    BY <1>1, PathInvariant, PTL

\* A first fragment is given bytes of its own datagram only, and a fragment the ports
\* of its own datagram, through expiry, recycling and prunes.  Not claimed: the ports
\* of a node that was recycled with got_first set for a datagram whose first fragment
\* had not come, which create_fragment() leaves as they are (carried).
THEOREM FragmentsAreOwn == PathSpec => []OwnFragments
PROOF
  <1>1. PathInv => OwnFragments
    BY FragSound DEF PathInv
  <1> QED
    BY <1>1, PathInvariant, PTL

\* A table that refuses a packet is not full of nodes that died an emergency prune ago.
THEOREM RoomIsKept == PathSpec => []RoomKept
PROOF
  <1>1. PathInv => RoomKept
    BY FragSound, FlowSound DEF PathInv, RoomKept
  <1> QED
    BY <1>1, PathInvariant, PTL

\* A flow has a class its own packets or a live expectation gave it, and loses it when
\* both directions have been idle for long.
THEOREM ClassesAreEarned == PathSpec => []ClassesEarned
PROOF
  <1>1. PathInv => ClassesEarned
    BY FlowSound, CtSound DEF PathInv, ClassesEarned
  <1> QED
    BY <1>1, PathInvariant, PTL

\* Flows are counted once per lifetime, and bytes are handed over to a class once.
THEOREM FlowsAreExact == PathSpec => []FlowsExact
PROOF
  <1>1. PathInv => FlowsExact
    BY FlowSound DEF PathInv
  <1> QED
    BY <1>1, PathInvariant, PTL
=============================================================================
