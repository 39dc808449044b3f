---------------------------- MODULE PCacheProofs -----------------------------
(***************************************************************************)
(* Proofs about PCache for every number of buckets and of scratch nodes,   *)
(* every hash function, every mix of records and every limit of writers.   *)
(***************************************************************************)
EXTENDS PCache, TableFacts

\* dump_writers_count() and the fork keep the list an upper bound of the writers
\* that run, and the limit an upper bound of the list.
THEOREM WritersAreBounded == Spec => []WritersBounded
PROOF
  <1> DEFINE Inv == alive \in Nat /\ listed \in Nat /\ WritersBounded
  <1>1. Init => Inv
    BY CacheAssumption DEF Init, WritersBounded
  <1>2. Inv /\ [Next]_vars => Inv'
    <2> SUFFICES ASSUME Inv, [Next]_vars PROVE Inv'
      OBVIOUS
    <2>1. CASE UNCHANGED writerVars
      BY <2>1 DEF writerVars, WritersBounded
    <2>2. CASE ForkWriter
      BY <2>2, CacheAssumption DEF ForkWriter, Alert, WritersBounded
    <2>3. CASE WriterExit
      BY <2>3 DEF WriterExit, WritersBounded
    <2>4. CASE ExitNow
      BY <2>4, CacheAssumption DEF ExitNow, WritersBounded
    <2>5. CASE UNCHANGED vars
      BY <2>1, <2>5 DEF vars, writerVars
    <2>6. CASE \E f \in Flows, c \in Classes, n \in Sizes, d \in Stamps :
                 Receive(f, c, n, base + d)
      BY <2>1, <2>6 DEF Receive
    <2>7. CASE Insert
      BY <2>1, <2>7 DEF Insert
    <2>8. CASE FinishedEntries
      BY <2>1, <2>8 DEF FinishedEntries
    <2>9. CASE MarkFlush
      BY <2>1, <2>9 DEF MarkFlush
    <2>10. CASE Flush
      BY <2>1, <2>10 DEF Flush
    <2>11. CASE InsertPending
      BY <2>1, <2>11, Zenon DEF InsertPending
    <2>12. CASE PurgeDone
      BY <2>1, <2>12 DEF PurgeDone
    <2>13. CASE UpdateTimeReference
      BY <2>1, <2>13 DEF UpdateTimeReference
    <2>14. CASE WriteBeyond
      BY <2>1, <2>14 DEF WriteBeyond
    <2> QED
      BY <2>2, <2>3, <2>4, <2>5, <2>6, <2>7, <2>8, <2>9, <2>10, <2>11, <2>12, <2>13,
         <2>14
      DEF Next, PluginStep
  <1> QED
    BY <1>1, <1>2, PTL DEF Spec

-----------------------------------------------------------------------------
(***************************************************************************)
(* The inductive invariant behind CacheSound.                              *)
(***************************************************************************)
Entry == [valid : {"free", "inuse", "committed"}, key : Keys,
          base : 0 .. MaxSlot, bytes : Nat]

\* the cells of the chains c, those in use and those taken from the scratch area
Cells(c) == {p \in Buckets \X (1 .. ScratchNodes + 1) : p[2] <= Len(c[p[1]])}
Used(c) == {p \in Cells(c) : c[p[1]][p[2]].valid = "inuse"}
Nodes(c) == {p \in Used(c) : p[2] > 1}

\* a chain is one cell that is not in use, or all in use
Empty(c, b) == Len(c[b]) = 1 /\ c[b][1].valid # "inuse"
Whole(c) ==
  \A b \in Buckets : Empty(c, b) \/ \A i \in 1 .. Len(c[b]) : c[b][i].valid = "inuse"

\* an entry is in the bucket of its key, and alone with its key and timeslot
Hashed(c) == \A p \in Used(c) : Hash(c[p[1]][p[2]].key) = p[1]
Same(d, e) == d.key = e.key /\ d.base = e.base
Unique(c) == \A p, q \in Used(c) : Same(c[p[1]][p[2]], c[q[1]][q[2]]) => p = q

\* the chains c with the queue q, when used nodes have been taken
Sized(c, q, used) ==
  /\ \A b \in Buckets : Len(c[b]) \in 1 .. used + 1
  /\ Range(q) \subseteq Cells(c)

Filled(c, q, used) ==
  /\ Whole(c) /\ Hashed(c) /\ Unique(c)
  /\ Range(q) = Used(c) /\ Once(q)
  /\ Cardinality(Nodes(c)) <= used

\* between P_cache_mark_flush() and the flush nothing is in use, and what does not
\* hang from a queued head is a single cell
Marked(c, q) ==
  /\ Used(c) = {}
  /\ \A b \in Buckets : Len(c[b]) = 1 \/ <<b, 1>> \in Range(q)

\* The entries set aside need nodes for all but one per empty bucket.
Wanted(q) == {Hash(q[i].key) : i \in DOMAIN q}
EmptyHeads(c) == {b \in Buckets : Empty(c, b)}
RoomFor(q, used, heads) ==
  used + Len(q) - Cardinality(Wanted(q) \cap heads) <= ScratchNodes

\* none of them is there twice, or in use already
Apart(q, c) ==
  /\ \A i, j \in DOMAIN q : Same(q[i], q[j]) => i = j
  /\ \A i \in DOMAIN q : \A p \in Used(c) : ~Same(q[i], c[p[1]][p[2]])

Phase ==
  /\ pc \in {"idle", "insert", "safe"} =>
       Filled(chain, queue, saUsed) /\ container = << >>
  /\ pc \in {"marked", "forked"} =>
       /\ Marked(chain, queue) /\ Apart(container, chain)
       /\ RoomFor(container, 0, Buckets)
  /\ pc = "flushed" =>
       /\ Filled(chain, queue, saUsed) /\ Apart(container, chain)
       /\ RoomFor(container, saUsed, EmptyHeads(chain))
  /\ pc \in {"exited", "astray"} => Unique(chain)

\* a record is under way
Underway ==
  pc \in {"insert", "safe"} \/ (pc \in {"marked", "forked", "flushed"} /\ urgent)
    => calls # << >>

StepTypes ==
  /\ pc \in {"idle", "insert", "safe", "marked", "forked", "flushed", "exited",
            "astray"}
  /\ urgent \in BOOLEAN
  /\ rec \in [key : Keys, base : 0 .. MaxSlot, bytes : Nat, ba : Nat,
              ok : BOOLEAN]
  /\ calls \in Seq(Hosts \cup {KeepSrc})

CacheTypes ==
  /\ chain \in [Buckets -> Seq(Entry)]
  /\ queue \in Seq(Buckets \X (1 .. ScratchNodes + 1))
  /\ container \in Seq(Entry)
  /\ saUsed \in 0 .. ScratchNodes

TimeTypes == base \in Slots /\ newBase \in 0 .. MaxSlot

ClassTypes ==
  /\ acc \in [Flows -> Nat] /\ fresh \in [Flows -> BOOLEAN]
  /\ cls \in [Flows -> Classes]
  /\ accSlots \in [Flows -> SUBSET Slots] /\ mixed \in BOOLEAN

WriterTypes == listed \in Nat /\ alive \in Nat

LedgerTypes ==
  /\ fed \in [Rows -> Nat] /\ written \in [Rows -> Nat] /\ lost \in [Rows -> Nat]
  /\ pendLost = FALSE

Typed ==
  /\ StepTypes /\ CacheTypes /\ TimeTypes /\ ClassTypes
  /\ WriterTypes /\ LedgerTypes /\ nrec \in Nat

CacheInv == Typed /\ Sized(chain, queue, saUsed) /\ Phase /\ Underway

-----------------------------------------------------------------------------
Chains == [Buckets -> Seq(Entry)]
Places0 == Buckets \X (1 .. ScratchNodes + 1)

\* the chains d have the cells of c with the same keys in the same states:
\* summing counters, or taking an accumulator out
Alike(c, d) ==
  \A b \in Buckets :
    /\ Len(d[b]) = Len(c[b])
    /\ \A i \in 1 .. Len(c[b]) : d[b][i].valid = c[b][i].valid /\ Same(d[b][i], c[b][i])

\* Changing counters changes nothing else.
LEMMA AlikeKeeps ==
  ASSUME NEW c \in Chains, NEW d \in Chains, Alike(c, d), NEW q, NEW used
  PROVE  /\ Used(d) = Used(c)
         /\ Sized(c, q, used) => Sized(d, q, used)
         /\ Filled(c, q, used) => Filled(d, q, used)
PROOF
  <1>1. Cells(d) = Cells(c)
    BY DEF Cells, Alike
  <1>2. \A p \in Cells(c) : /\ p[1] \in Buckets /\ p[2] \in 1 .. Len(c[p[1]])
    BY LenProperties DEF Cells, Chains
  <1>3. \A p \in Cells(c) : /\ d[p[1]][p[2]].valid = c[p[1]][p[2]].valid
                            /\ Same(d[p[1]][p[2]], c[p[1]][p[2]])
    BY <1>2 DEF Alike
  <1>4. Used(d) = Used(c)
    BY <1>1, <1>3 DEF Used
  <1>5. Used(c) \subseteq Cells(c)
    BY DEF Used
  <1>6. Sized(c, q, used) => Sized(d, q, used)
    BY <1>1 DEF Sized, Alike
  <1>7. ASSUME Filled(c, q, used) PROVE Filled(d, q, used)
    <2>1. Whole(d)
      <3>1. \A b \in Buckets : Len(c[b]) \in Nat
        BY LenProperties DEF Chains
      <3> QED
        BY <1>7, <3>1 DEF Filled, Whole, Empty, Alike
    <2>2. Hashed(d)
      BY <1>3, <1>4, <1>5, <1>7 DEF Filled, Hashed, Same
    <2>3. Unique(d)
      BY <1>3, <1>4, <1>5, <1>7 DEF Filled, Unique, Same
    <2>4. Nodes(d) = Nodes(c)
      BY <1>4 DEF Nodes
    <2> QED
      BY <1>4, <1>7, <2>1, <2>2, <2>3, <2>4 DEF Filled
  <1> QED
    BY <1>4, <1>6, <1>7

\* Where P_cache_insert() and P_cache_insert_pending() put an entry: at the head of
\* its chain if it is empty, else at a new node at its end.
Turn(c, b) == IF Empty(c, b) THEN 1 ELSE Len(c[b]) + 1
Put(c, d, b, e) ==
  /\ \A a \in Buckets \ {b} : d[a] = c[a]
  /\ Len(d[b]) = Turn(c, b) /\ d[b][Turn(c, b)] = e
  /\ \A i \in 1 .. Turn(c, b) - 1 : d[b][i] = c[b][i]

\* An entry e is counted in: added to the one of its key, or in a cell of its own.
Grown(c, d, e) ==
  \E p \in Cells(d) :
    /\ \A u \in Cells(d) \ {p} : u \in Cells(c) /\ d[u[1]][u[2]] = c[u[1]][u[2]]
    /\ \/ /\ p \in Used(c) /\ Used(d) = Used(c) /\ Same(c[p[1]][p[2]], e)
          /\ d[p[1]][p[2]] = [c[p[1]][p[2]] EXCEPT !.bytes = @ + e.bytes]
       \/ p \notin Used(c) /\ Used(d) = Used(c) \cup {p} /\ d[p[1]][p[2]] = e

\* Putting an entry that is not there yet, and queueing it, keeps the cache in
\* order.
LEMMA PutKeeps ==
  ASSUME NEW c \in Chains, NEW d \in Chains, NEW q \in Seq(Places0),
         NEW used \in 0 .. ScratchNodes, NEW now \in 0 .. ScratchNodes,
         Filled(c, q, used), Sized(c, q, used),
         NEW e \in Entry, e.valid = "inuse",
         \A p \in Used(c) : ~Same(e, c[p[1]][p[2]]),
         Put(c, d, Hash(e.key), e),
         now = IF Empty(c, Hash(e.key)) THEN used ELSE used + 1
  PROVE  LET b == Hash(e.key)
             p == <<b, Turn(c, b)>>
         IN /\ Used(d) = Used(c) \cup {p} /\ p \notin Used(c) /\ d[b][p[2]] = e
            /\ \A u \in Used(c) : d[u[1]][u[2]] = c[u[1]][u[2]]
            /\ EmptyHeads(d) = EmptyHeads(c) \ {b}
            /\ Grown(c, d, e)
            /\ p \in Places0 /\ Append(q, p) \in Seq(Places0)
            /\ Filled(d, Append(q, p), now) /\ Sized(d, Append(q, p), now)
PROOF
  <1> DEFINE b == Hash(e.key)
             i == Turn(c, b)
             p == <<b, i>>
  <1>b. b \in Buckets
    BY CacheAssumption DEF Entry
  <1>l. \A a \in Buckets : Len(c[a]) \in Nat /\ Len(d[a]) \in Nat /\ Len(c[a]) >= 1
    BY LenProperties DEF Chains, Sized
  <1>s. ScratchNodes \in Nat /\ now \in Nat /\ used \in Nat
    BY CacheAssumption
  <1>i. /\ i \in Nat \ {0} /\ i <= now + 1 /\ i \in 1 .. ScratchNodes + 1
        /\ Empty(c, b) => i = 1 /\ now = used
        /\ ~Empty(c, b) => i = Len(c[b]) + 1 /\ i > 1 /\ now = used + 1
    BY <1>b, <1>l, <1>s DEF Turn, Sized
  <1>p. p \in Places0 /\ p[1] = b /\ p[2] = i
    BY <1>b, <1>i DEF Places0
  <1>w. \A a \in Buckets : Empty(c, a) \/ \A j \in 1 .. Len(c[a]) : c[a][j].valid = "inuse"
    BY DEF Filled, Whole
  <1>h. /\ \A a \in Buckets \ {b} : d[a] = c[a]
        /\ Len(d[b]) = i /\ d[b][i] = e /\ \A j \in 1 .. i - 1 : d[b][j] = c[b][j]
    BY DEF Put
  <1>c. /\ \A u \in Cells(c) : u \in Places0 /\ u[1] \in Buckets /\ u[2] \in 1 .. ScratchNodes + 1
                             /\ u[2] <= Len(c[u[1]]) /\ u = <<u[1], u[2]>>
        /\ \A u \in Places0 : u \in Cells(c) <=> u[2] <= Len(c[u[1]])
        /\ \A u \in Places0 : u \in Cells(d) <=> u[2] <= Len(d[u[1]])
    BY DEF Cells, Places0
  <1> HIDE DEF p, i, b
  <1>1. \A u \in Used(c) : u[1] = b => u[2] < i
    <2> SUFFICES ASSUME NEW u \in Used(c), u[1] = b PROVE u[2] < i
      OBVIOUS
    <2>1. u[2] <= Len(c[b]) /\ u[2] \in Nat \ {0} /\ c[b][u[2]].valid = "inuse"
      BY <1>c DEF Used
    <2>2. ~Empty(c, b)
      BY <2>1 DEF Empty
    <2> QED
      BY <1>b, <1>i, <1>l, <2>1, <2>2
  <1>2. \A u \in Used(c) : u \in Cells(d) /\ d[u[1]][u[2]] = c[u[1]][u[2]]
    <2> SUFFICES ASSUME NEW u \in Used(c) PROVE u \in Cells(d) /\ d[u[1]][u[2]] = c[u[1]][u[2]]
      OBVIOUS
    <2>1. u \in Cells(c)
      BY DEF Used
    <2>2. CASE u[1] = b
      BY <1>1, <1>c, <1>h, <1>i, <2>1, <2>2, SMTT(30)
    <2>3. CASE u[1] # b
      BY <1>c, <1>h, <2>1, <2>3
    <2> QED
      BY <2>2, <2>3
  <1>3. p \notin Used(c)
    BY <1>1, <1>i, <1>p
  <1>4. p \in Cells(d) /\ d[b][i] = e
    BY <1>c, <1>h, <1>i, <1>p
  <1>5. \A u \in Used(d) : u \in Used(c) \/ u = p
    <2> SUFFICES ASSUME NEW u \in Used(d), u # p PROVE u \in Used(c)
      OBVIOUS
    <2>1. /\ u \in Places0 /\ u[1] \in Buckets /\ u[2] \in Nat \ {0} /\ u = <<u[1], u[2]>>
          /\ u[2] <= Len(d[u[1]]) /\ d[u[1]][u[2]].valid = "inuse"
      BY DEF Used, Cells, Places0
    <2>2. CASE u[1] # b
      BY <1>c, <1>h, <2>1, <2>2 DEF Used
    <2>3. CASE u[1] = b
      <3>1. u[2] # i
        BY <1>p, <2>1, <2>3 DEF p
      <3>2. u[2] \in 1 .. i - 1
        BY <1>h, <1>i, <2>1, <2>3, <3>1
      <3>3. ~Empty(c, b)
        BY <1>i, <3>2
      <3> QED
        BY <1>b, <1>c, <1>h, <1>i, <1>l, <2>1, <2>3, <3>2, <3>3, SMTT(30) DEF Used
    <2> QED
      BY <2>2, <2>3
  <1>6. Used(d) = Used(c) \cup {p}
    <2>1. \A u \in Used(c) : u \in Used(d)
      BY <1>2 DEF Used
    <2>2. p \in Used(d)
      BY <1>4, <1>p DEF Used
    <2> QED
      BY <1>5, <2>1, <2>2
  <1>7. \A a \in Buckets : Empty(d, a) <=> a # b /\ Empty(c, a)
    BY <1>h, <1>i DEF Empty
  <1>8. EmptyHeads(d) = EmptyHeads(c) \ {b}
    BY <1>7 DEF EmptyHeads
  <1>9. Append(q, p) \in Seq(Places0) /\ Range(Append(q, p)) = Used(d) /\ Once(Append(q, p))
    BY <1>3, <1>6, <1>p, AppendRange DEF Filled
  <1>10. Sized(d, Append(q, p), now)
    <2>1. \A a \in Buckets : Len(d[a]) \in 1 .. now + 1
      <3>1. \A a \in Buckets : Len(c[a]) \in 1 .. used + 1
        BY DEF Sized
      <3>2. used <= now
        BY <1>i, <1>s
      <3> QED
        BY <1>h, <1>i, <1>l, <1>s, <3>1, <3>2
    <2> QED
      BY <1>9, <2>1 DEF Sized, Used
  <1>11. Whole(d)
    <2>1. \A j \in 1 .. i : d[b][j].valid = "inuse"
      BY <1>b, <1>h, <1>i, <1>w, SMTT(30)
    <2> QED
      BY <1>7, <1>h, <1>w, <2>1 DEF Whole
  <1>12. Hashed(d)
    BY <1>2, <1>4, <1>6, <1>p DEF Hashed, Filled, b
  <1>13. Unique(d)
    <2>1. \A u \in Used(c) : ~Same(e, d[u[1]][u[2]]) /\ ~Same(d[u[1]][u[2]], e)
      BY <1>2 DEF Same
    <2>2. \A u, v \in Used(c) : Same(d[u[1]][u[2]], d[v[1]][v[2]]) => u = v
      BY <1>2 DEF Filled, Unique
    <2> QED
      BY <1>4, <1>6, <1>p, <2>1, <2>2 DEF Unique
  <1>14. Cardinality(Nodes(d)) <= now
    <2>1. IsFiniteSet(Nodes(c)) /\ Cardinality(Nodes(c)) \in Nat /\ Cardinality(Nodes(c)) <= used
      BY RangeOf, FS_Subset, FS_CardinalityType DEF Filled, Nodes
    <2>2. CASE i = 1
      <3>1. Nodes(d) = Nodes(c)
        BY <1>6, <1>p, <2>2 DEF Nodes
      <3>2. now = used
        BY <1>i, <2>2
      <3> QED
        BY <2>1, <3>1, <3>2
    <2>3. CASE i # 1
      <3>1. Nodes(d) = Nodes(c) \cup {p} /\ p \notin Nodes(c)
        BY <1>3, <1>6, <1>i, <1>p, <2>3 DEF Nodes
      <3>2. now = used + 1
        BY <1>i, <2>3
      <3>3. Cardinality(Nodes(d)) = Cardinality(Nodes(c)) + 1
        BY <2>1, <3>1, FS_AddElement
      <3> QED
        BY <1>s, <2>1, <3>2, <3>3
    <2> QED
      BY <2>2, <2>3
  <1>15. Grown(c, d, e)
    <2>1. ASSUME NEW u \in Cells(d), u # p
          PROVE  u \in Cells(c) /\ d[u[1]][u[2]] = c[u[1]][u[2]]
      <3>1. /\ u \in Places0 /\ u[1] \in Buckets /\ u[2] \in Nat \ {0} /\ u = <<u[1], u[2]>>
            /\ u[2] <= Len(d[u[1]])
        BY DEF Cells, Places0
      <3>2. CASE u[1] # b
        BY <1>c, <1>h, <3>1, <3>2
      <3>3. CASE u[1] = b
        <4>1. u[2] # i
          BY <2>1, <3>1, <3>3 DEF p
        <4>2. u[2] \in 1 .. i - 1
          BY <1>h, <1>i, <3>1, <3>3, <4>1
        <4>3. ~Empty(c, b)
          BY <1>i, <4>2
        <4> QED
          BY <1>b, <1>c, <1>h, <1>i, <1>l, <3>1, <3>3, <4>2, <4>3
      <3> QED
        BY <3>2, <3>3
    <2> QED
      BY <1>3, <1>4, <1>6, <1>p, <2>1 DEF Grown
  <1> QED
    BY <1>2, <1>3, <1>4, <1>6, <1>8, <1>9, <1>10, <1>11, <1>12, <1>13, <1>14, <1>15, <1>p
    DEF p, i, b, Filled

-----------------------------------------------------------------------------
Record == [key : Keys, base : 0 .. MaxSlot, bytes : Nat, ba : Nat, ok : BOOLEAN]

\* The zeroed entry and record are an entry and a record.
LEMMA ZeroTypes ==
  ZeroKey \in Keys /\ FreeEntry \in Entry /\ NoRecord \in Record
  /\ ZeroRows \in [Rows -> Nat]
PROOF
  <1>1. ZeroKey \in Keys
    BY CacheAssumption DEF ZeroKey, Keys
  <1>2. 0 \in 0 .. MaxSlot
    BY CacheAssumption
  <1> QED
    BY <1>1, <1>2 DEF FreeEntry, NoRecord, Entry, Record, ZeroRows

\* The cache starts empty.
LEMMA InitInv == Init => CacheInv
PROOF
  <1> SUFFICES ASSUME Init PROVE CacheInv
    OBVIOUS
  <1>1. Typed
    <2>1. chain \in [Buckets -> Seq(Entry)]
      BY ZeroTypes DEF Init
    <2>2. queue \in Seq(Buckets \X (1 .. ScratchNodes + 1)) /\ container \in Seq(Entry)
          /\ calls \in Seq(Hosts \cup {KeepSrc})
      BY DEF Init
    <2>3. saUsed \in 0 .. ScratchNodes /\ base \in Slots /\ newBase \in 0 .. MaxSlot
      BY CacheAssumption DEF Init, Slots
    <2>4. cls \in [Flows -> Classes] /\ acc \in [Flows -> Nat] /\ fresh \in [Flows -> BOOLEAN]
          /\ accSlots \in [Flows -> SUBSET Slots]
      BY CacheAssumption DEF Init
    <2> QED
      BY <2>1, <2>2, <2>3, <2>4, ZeroTypes
      DEF Init, Typed, Record, StepTypes, CacheTypes, TimeTypes, ClassTypes,
          WriterTypes, LedgerTypes
  <1>2. \A b \in Buckets : Len(chain[b]) = 1 /\ chain[b][1] = FreeEntry
    BY DEF Init
  <1>3. Used(chain) = {}
    BY <1>2 DEF Used, Cells, FreeEntry
  <1>4. Range(queue) = {} /\ Once(queue)
    BY DEF Init, Range, Once
  <1>5. Sized(chain, queue, saUsed)
    BY <1>2, <1>4 DEF Sized, Init
  <1>6. Filled(chain, queue, saUsed)
    <2>1. Whole(chain)
      BY <1>2 DEF Whole, Empty, FreeEntry
    <2>2. Cardinality(Nodes(chain)) = 0
      BY <1>3, FS_EmptySet DEF Nodes
    <2>3. Hashed(chain) /\ Unique(chain)
      BY <1>3 DEF Hashed, Unique
    <2>4. saUsed = 0
      BY DEF Init
    <2> QED
      BY <1>3, <1>4, <2>1, <2>2, <2>3, <2>4 DEF Filled
  <1> QED
    BY <1>1, <1>5, <1>6 DEF CacheInv, Phase, Underway, Init

\* A writer's exit and the clock touch no entry.
LEMMA ClockInv ==
  ASSUME CacheInv, WriterExit \/ UpdateTimeReference \/ UNCHANGED vars
  PROVE  CacheInv'
PROOF
  <1>1. UNCHANGED <<pc, urgent, rec, calls, chain, queue, container, saUsed>>
    BY DEF WriterExit, UpdateTimeReference, vars, cacheVars
  <1>2. UNCHANGED classVars /\ UNCHANGED ledgerVars /\ UNCHANGED nrec
    BY DEF WriterExit, UpdateTimeReference, vars
  <1>3. TimeTypes' /\ WriterTypes'
    <2> USE DEF CacheInv, Typed, TimeTypes, WriterTypes, timeVars, writerVars
    <2>1. CASE WriterExit
      BY <2>1 DEF WriterExit
    <2>2. CASE UpdateTimeReference
      BY <2>2, CacheAssumption DEF UpdateTimeReference, Slots
    <2>3. CASE UNCHANGED vars
      BY <2>3 DEF vars
    <2> QED
      BY <2>1, <2>2, <2>3
  <1>4. StepTypes' /\ CacheTypes' /\ ClassTypes' /\ LedgerTypes' /\ nrec' \in Nat
    BY <1>1, <1>2
    DEF CacheInv, Typed, StepTypes, CacheTypes, ClassTypes, LedgerTypes, classVars,
        ledgerVars
  <1> QED
    BY <1>1, <1>3, <1>4 DEF CacheInv, Typed, Phase, Underway

\* The calls made for a record: one, or two when hosts are summed.
LEMMA CallTypes ==
  ASSUME NEW k \in Keys
  PROVE  /\ InsertFunc(k) \in Seq(Hosts \cup {KeepSrc}) /\ InsertFunc(k) # << >>
         /\ ClearDst(k) \in Keys
PROOF
  <1> DEFINE H == Hosts \cup {KeepSrc}
  <1>1. KeepSrc \in H /\ k.dst \in H
    BY DEF Keys
  <1>2. ClearDst(k) \in Keys
    BY CacheAssumption DEF Keys, ClearDst
  <1>3. CASE SumHosts
    <2>1. <<KeepSrc, k.dst>> \in Seq(H)
      <3> HIDE DEF H
      <3> QED
        BY <1>1
    <2> QED
      BY <1>2, <1>3, <2>1 DEF InsertFunc
  <1>4. CASE ~SumHosts
    <2>1. <<KeepSrc>> \in Seq(H)
      <3> HIDE DEF H
      <3> QED
        BY <1>1
    <2> QED
      BY <1>2, <1>4, <2>1 DEF InsertFunc
  <1> QED
    BY <1>3, <1>4

\* A record comes when none is under way.
LEMMA ReceiveInv ==
  ASSUME CacheInv, NEW f \in Flows, NEW c \in Classes, NEW n \in Sizes, NEW t,
         Receive(f, c, n, t)
  PROVE  CacheInv'
PROOF
  <1> USE DEF CacheInv, Typed
  <1>k. [src |-> f[1], dst |-> f[2], class |-> c] \in Keys
    BY CacheAssumption DEF Keys
  <1>n. n \in Nat /\ t \in Slots /\ t \in 0 .. MaxSlot
    BY CacheAssumption DEF Receive, Slots
  <1>1. UNCHANGED <<urgent, chain, queue, container, saUsed, base, newBase, listed,
                    alive, written, lost, pendLost>>
    BY DEF Receive, cacheVars, timeVars, writerVars
  <1>2. pc = "idle" /\ pc' = "insert"
    BY DEF Receive
  <1>3. StepTypes'
    <2> DEFINE key == [src |-> f[1], dst |-> f[2], class |-> c]
    <2>1. rec' = [key |-> ClearDst(key), base |-> t, bytes |-> n,
                  ba |-> IF c = 0 THEN 0 ELSE acc[f], ok |-> fresh[f]]
      BY DEF Receive
    <2>2. acc[f] \in Nat /\ fresh[f] \in BOOLEAN
      BY DEF ClassTypes
    <2>3. rec' \in [key : Keys, base : 0 .. MaxSlot, bytes : Nat, ba : Nat, ok : BOOLEAN]
      <3>1. ClearDst(key) \in Keys
        BY <1>k, CallTypes
      <3>2. (IF c = 0 THEN 0 ELSE acc[f]) \in Nat
        BY <2>2
      <3> HIDE DEF key
      <3> QED
        BY <1>n, <2>1, <2>2, <3>1, <3>2
    <2>4. calls' \in Seq(Hosts \cup {KeepSrc})
      BY <1>k, CallTypes DEF Receive
    <2> QED
      BY <1>1, <1>2, <2>3, <2>4 DEF StepTypes
  <1>4. calls' # << >>
    BY <1>k, CallTypes DEF Receive
  <1>5. ClassTypes'
    <2> USE DEF ClassTypes, classVars
    <2>1. HandleClassAccumulators(f, c, n, t)
      BY DEF Receive
    <2>2. CASE UNCHANGED classVars
      BY <2>2
    <2>3. CASE /\ acc' = [acc EXCEPT ![f] = @ + n]
               /\ fresh' = [fresh EXCEPT ![f] = acc[f] = 0 \/ @]
               /\ accSlots' = [accSlots EXCEPT ![f] = @ \cup {t}]
               /\ UNCHANGED <<cls, mixed>>
      <3>1. acc[f] + n \in Nat /\ accSlots[f] \cup {t} \in SUBSET Slots
        BY <1>n
      <3>2. (acc[f] = 0 \/ fresh[f]) \in BOOLEAN
        OBVIOUS
      <3>3. acc' \in [Flows -> Nat] /\ accSlots' \in [Flows -> SUBSET Slots]
        BY <2>3, <3>1
      <3>4. fresh' \in [Flows -> BOOLEAN]
        BY <2>3, <3>2
      <3> QED
        BY <2>3, <3>3, <3>4
    <2>4. CASE /\ acc' = [acc EXCEPT ![f] = 0]
               /\ cls' = [cls EXCEPT ![f] = c]
               /\ accSlots' = [accSlots EXCEPT ![f] = {}]
               /\ mixed' = (mixed \/ (t \in accSlots[f] /\ accSlots[f] # {t}))
               /\ UNCHANGED fresh
      BY <2>4
    <2> QED
      BY <2>1, <2>2, <2>3, <2>4 DEF HandleClassAccumulators
  <1>6. LedgerTypes' /\ nrec' \in Nat
    <2>1. \A r \in Rows : fed[r] + n \in Nat
      BY <1>n DEF LedgerTypes
    <2> QED
      BY <1>1, <2>1 DEF Receive, LedgerTypes
  <1> QED
    BY <1>1, <1>2, <1>3, <1>4, <1>5, <1>6
    DEF CacheTypes, TimeTypes, WriterTypes, Phase, Underway

-----------------------------------------------------------------------------
\* A counter of one entry changes.
Counted(c, b, i, n) == [c EXCEPT ![b][i].bytes = n]

\* Counting bytes changes a counter only.
LEMMA CounterAlike ==
  ASSUME NEW c \in Chains, NEW b \in Buckets, NEW i \in 1 .. Len(c[b]), NEW n \in Nat,
         NEW d, d = Counted(c, b, i, n)
  PROVE  /\ d \in Chains /\ Alike(c, d)
         /\ d[b][i] = [c[b][i] EXCEPT !.bytes = n]
         /\ \A a \in Buckets : \A j \in 1 .. Len(c[a]) :
              <<a, j>> # <<b, i>> => d[a][j] = c[a][j]
PROOF
  <1> DEFINE e == [c[b][i] EXCEPT !.bytes = n]
             s == [c[b] EXCEPT ![i] = e]
  <1>d. d = [c EXCEPT ![b] = s]
    BY DEF Counted
  <1>1. c[b] \in Seq(Entry) /\ c[b][i] \in Entry
    BY ElementOfSeq DEF Chains
  <1>2. e \in Entry /\ e.valid = c[b][i].valid /\ Same(e, c[b][i])
    BY <1>1 DEF Entry, Same
  <1> HIDE DEF e
  <1>3. /\ s \in Seq(Entry) /\ Len(s) = Len(c[b])
        /\ \A j \in 1 .. Len(c[b]) : s[j] = IF j = i THEN e ELSE c[b][j]
    BY <1>1, <1>2, ExceptSeq
  <1> HIDE DEF s
  <1>4. d \in Chains /\ d[b] = s /\ \A a \in Buckets \ {b} : d[a] = c[a]
    BY <1>3, <1>d DEF Chains
  <1>5. Alike(c, d)
    <2> SUFFICES ASSUME NEW a \in Buckets
                 PROVE  /\ Len(d[a]) = Len(c[a])
                        /\ \A j \in 1 .. Len(c[a]) : d[a][j].valid = c[a][j].valid
                                                 /\ Same(d[a][j], c[a][j])
      BY DEF Alike
    <2>1. CASE a = b
      BY <1>2, <1>3, <1>4, <2>1 DEF Same
    <2>2. CASE a # b
      BY <1>4, <2>2 DEF Same
    <2> QED
      BY <2>1, <2>2
  <1>6. d[b][i] = e
    BY <1>3, <1>4
  <1>7. \A a \in Buckets : \A j \in 1 .. Len(c[a]) : <<a, j>> # <<b, i>> => d[a][j] = c[a][j]
    BY <1>3, <1>4
  <1> QED
    BY <1>4, <1>5, <1>6, <1>7 DEF s, e

\* The walk along a chain ends at its first cell that matches or is not in use.
LEMMA StopsOf ==
  ASSUME NEW c \in Seq(Entry), NEW k, NEW t, Stops(c, k, t) # {}
  PROVE  LET i == Min(Stops(c, k, t))
         IN i \in 1 .. Len(c) /\ (c[i].valid # "inuse" \/ Matches(c[i], k, t))
PROOF
  <1>1. DOMAIN c = 1 .. Len(c) /\ Len(c) \in Nat
    BY LenProperties
  <1>2. Stops(c, k, t) \subseteq 1 .. Len(c) /\ Stops(c, k, t) \subseteq Nat
    BY <1>1 DEF Stops
  <1>3. Min(Stops(c, k, t)) \in Stops(c, k, t)
    BY <1>2, MinOf
  <1> QED
    BY <1>1, <1>3 DEF Stops

\* Taking an accumulator out of the entry of class zero changes a counter only.
LEMMA SubtractAlike ==
  ASSUME chain \in Chains, NEW r \in Record
  PROVE  LET ch == SubtractAccumulator(r) IN ch \in Chains /\ Alike(chain, ch)
PROOF
  <1> DEFINE b == Hash(ZeroClass(r))
             S == Stops(chain[b], ZeroClass(r), r.base)
             i == Min(S)
  <1>1. b \in Buckets
    BY CacheAssumption DEF ZeroClass, Record, Keys
  <1>2. CASE HasAccumulator(r) /\ Subtractable(r)
    <2>1. S # {} /\ chain[b] \in Seq(Entry)
      BY <1>1, <1>2 DEF Subtractable, Found, Chains
    <2>2. i \in 1 .. Len(chain[b])
      BY <2>1, StopsOf
    <2>3. chain[b][i] \in Entry
      BY <2>1, <2>2, ElementOfSeq
    <2>4. chain[b][i].bytes \in Nat /\ r.ba \in Nat
      BY <2>3 DEF Entry, Record
    <2> DEFINE n == chain[b][i].bytes - Min({chain[b][i].bytes, r.ba})
    <2>5. n \in Nat
      BY <2>4, MinOfTwo
    <2>6. SubtractAccumulator(r) = Counted(chain, b, i, n)
      BY <1>2 DEF SubtractAccumulator, Counted
    <2> HIDE DEF n, i, b
    <2>7. SubtractAccumulator(r) \in Chains /\ Alike(chain, SubtractAccumulator(r))
      BY <1>1, <2>2, <2>5, <2>6, CounterAlike
    <2> QED
      BY <2>7
  <1>3. CASE ~(HasAccumulator(r) /\ Subtractable(r))
    BY <1>3 DEF SubtractAccumulator, Alike, Same
  <1> QED
    BY <1>2, <1>3

\* The record as P_cache_insert() sees it is a record, with a key and timeslot the
\* accumulator does not change.
LEMMA RecordTypes ==
  ASSUME StepTypes, calls # << >>
  PROVE  /\ CurrentRecord \in Record /\ KeepAccumulator(CurrentRecord) \in Record
         /\ NewEntry(KeepAccumulator(CurrentRecord)) \in Entry
         /\ Tail(calls) \in Seq(Hosts \cup {KeepSrc})
         /\ Len(calls) # 1 => Tail(calls) # << >>
PROOF
  <1>1. /\ Head(calls) \in Hosts \cup {KeepSrc} /\ Tail(calls) \in Seq(Hosts \cup {KeepSrc})
        /\ Len(Tail(calls)) = Len(calls) - 1 /\ Len(calls) \in Nat
    BY HeadTailProperties, LenProperties DEF StepTypes
  <1>2. rec \in Record
    BY DEF StepTypes, Record
  <1>3. CurrentRecord \in Record
    <2>1. CASE Head(calls) = KeepSrc
      BY <1>2, <2>1 DEF CurrentRecord
    <2>2. CASE Head(calls) # KeepSrc
      <3>1. [rec.key EXCEPT !.src = Head(calls)] \in Keys
        BY <1>1, <1>2, <2>2 DEF Record, Keys
      <3>2. CurrentRecord = [rec EXCEPT !.key = [rec.key EXCEPT !.src = Head(calls)]]
        BY <1>2, <2>2 DEF CurrentRecord, Record
      <3> QED
        BY <1>2, <3>1, <3>2 DEF Record
    <2> QED
      BY <2>1, <2>2
  <1>4. ASSUME NEW r \in Record
        PROVE  KeepAccumulator(r) \in Record /\ NewEntry(r) \in Entry
    <2>1. KeepAccumulator(r) \in Record
      BY DEF KeepAccumulator, Record
    <2>2. r.bytes + r.ba \in Nat
      BY DEF Record
    <2> QED
      BY <2>1, <2>2 DEF NewEntry, Entry, Record
  <1>5. Len(calls) # 1 => Tail(calls) # << >>
    <2> SUFFICES ASSUME Tail(calls) = << >> PROVE Len(calls) = 1
      OBVIOUS
    <2>1. Len(Tail(calls)) = 0
      BY EmptySeq
    <2>2. \A m \in Nat : 0 = m - 1 => m = 1
      OBVIOUS
    <2> QED
      BY <1>1, <2>1, <2>2, Zenon
  <1> QED
    BY <1>1, <1>3, <1>4, <1>5

-----------------------------------------------------------------------------
\* An entry in use that matches a key is in the key's bucket, where the walk along
\* the chain meets it.
LEMMA MetByWalk ==
  ASSUME NEW c \in Chains, Hashed(c), NEW k, NEW t, NEW u \in Used(c),
         Matches(c[u[1]][u[2]], k, t)
  PROVE  u[1] = Hash(k) /\ u[2] \in Stops(c[Hash(k)], k, t)
PROOF
  <1>1. u[1] = Hash(k) /\ u[1] \in Buckets
    BY DEF Hashed, Matches, Used, Cells
  <1>2. u[2] \in 1 .. Len(c[u[1]])
    BY LenProperties DEF Used, Cells, Chains
  <1>3. DOMAIN c[u[1]] = 1 .. Len(c[u[1]])
    BY <1>1, LenProperties DEF Chains
  <1> QED
    BY <1>1, <1>2, <1>3 DEF Stops

\* The accumulator taken out, the chains are in order still.
LEMMA SubtractKeeps ==
  ASSUME CacheInv, NEW r \in Record, Filled(chain, queue, saUsed)
  PROVE  LET ch == SubtractAccumulator(r)
         IN /\ ch \in Chains /\ Filled(ch, queue, saUsed) /\ Sized(ch, queue, saUsed)
            /\ Used(ch) = Used(chain)
PROOF
  <1>1. chain \in Chains /\ Sized(chain, queue, saUsed)
    BY DEF CacheInv, Typed, CacheTypes, Chains
  <1> DEFINE ch == SubtractAccumulator(r)
  <1>2. ch \in Chains /\ Alike(chain, ch)
    BY <1>1, SubtractAlike
  <1> HIDE DEF ch
  <1>3. /\ Used(ch) = Used(chain)
        /\ Sized(chain, queue, saUsed) => Sized(ch, queue, saUsed)
        /\ Filled(chain, queue, saUsed) => Filled(ch, queue, saUsed)
    BY <1>1, <1>2, AlikeKeeps
  <1> QED
    BY <1>1, <1>2, <1>3 DEF ch

\* What one call of P_cache_insert() does to the cache.
LEMMA InsertFills ==
  ASSUME CacheInv, Insert
  PROVE  /\ chain' \in Chains /\ queue' \in Seq(Places0) /\ saUsed' \in 0 .. ScratchNodes
         /\ Filled(chain', queue', saUsed') /\ Sized(chain', queue', saUsed')
         /\ Grown(SubtractAccumulator(CurrentRecord), chain',
                  NewEntry(KeepAccumulator(CurrentRecord)))
PROOF
  <1> DEFINE r0 == CurrentRecord
             r == KeepAccumulator(r0)
             ch == SubtractAccumulator(r0)
             e == NewEntry(r)
             b == Hash(r.key)
             S == Stops(ch[b], r.key, r.base)
             i == Min(S)
  <1>1. pc = "insert" /\ calls # << >>
    BY DEF Insert, CacheInv, Underway
  <1>2. r0 \in Record /\ r \in Record /\ e \in Entry
    BY <1>1, RecordTypes DEF CacheInv, Typed
  <1>3. /\ ch \in Chains /\ Filled(ch, queue, saUsed) /\ Sized(ch, queue, saUsed)
    BY <1>1, <1>2, SubtractKeeps DEF CacheInv, Phase
  <1>4. e.valid = "inuse" /\ e.key = r.key /\ e.base = r.base
    BY DEF NewEntry
  <1>5. b \in Buckets /\ b = Hash(e.key)
    BY <1>2, <1>4, CacheAssumption DEF Record
  <1>6. ch[b] \in Seq(Entry) /\ Len(ch[b]) \in Nat /\ DOMAIN ch[b] = 1 .. Len(ch[b])
    BY <1>3, <1>5, LenProperties DEF Chains
  <1>7. queue \in Seq(Places0) /\ saUsed \in 0 .. ScratchNodes /\ ScratchNodes \in Nat
    BY CacheAssumption, SMTT(30) DEF CacheInv, Typed, CacheTypes, Places0
  <1>8. \/ /\ S # {} /\ ch[b][i].valid = "inuse"
           /\ chain' = [ch EXCEPT ![b][i].bytes = @ + r.bytes + r.ba]
           /\ UNCHANGED <<queue, saUsed>>
        \/ /\ S # {} /\ ch[b][i].valid # "inuse"
           /\ chain' = [ch EXCEPT ![b][i] = e]
           /\ queue' = Append(queue, <<b, i>>)
           /\ UNCHANGED saUsed
        \/ /\ S = {} /\ NodeLeft
           /\ chain' = [ch EXCEPT ![b] = Append(@, e)]
           /\ queue' = Append(queue, <<b, Len(ch[b]) + 1>>)
           /\ saUsed' = saUsed + 1
    BY DEF Insert
  <1>9. \A u \in Used(ch) : Same(e, ch[u[1]][u[2]]) => u[1] = b /\ u[2] \in S
    <2>1. ASSUME NEW u \in Used(ch), Same(e, ch[u[1]][u[2]])
          PROVE  u[1] = Hash(r.key) /\ u[2] \in Stops(ch[Hash(r.key)], r.key, r.base)
      <3>1. Matches(ch[u[1]][u[2]], r.key, r.base)
        BY <1>4, <2>1 DEF Same, Matches
      <3> HIDE DEF ch, r
      <3> QED
        BY <1>3, <3>1, MetByWalk DEF Filled
    <2> QED
      BY <2>1
  <1>10. S # {} => /\ i \in 1 .. Len(ch[b])
                   /\ ch[b][i].valid = "inuse" => Matches(ch[b][i], r.key, r.base)
    BY <1>6, StopsOf
  <1>e. e.bytes = r.bytes + r.ba
    BY DEF NewEntry
  <1>11. Empty(ch, b) \/ \A j \in 1 .. Len(ch[b]) : ch[b][j].valid = "inuse"
    BY <1>3, <1>5 DEF Filled, Whole
  <1>12. S = {j \in 1 .. Len(ch[b]) : ch[b][j].valid # "inuse" \/ Matches(ch[b][j], r.key, r.base)}
    BY <1>6 DEF Stops
  <1> HIDE DEF S, i, b, e, ch, r
  <1>13. CASE /\ S # {} /\ ch[b][i].valid = "inuse"
              /\ chain' = [ch EXCEPT ![b][i].bytes = @ + r.bytes + r.ba]
              /\ UNCHANGED <<queue, saUsed>>
    <2> DEFINE n == ch[b][i].bytes + r.bytes + r.ba
    <2>1. n \in Nat
      <3>1. ch[b][i] \in Entry
        BY <1>6, <1>10, <1>13, ElementOfSeq
      <3> QED
        BY <1>2, <3>1 DEF Entry, Record
    <2>3. chain' = Counted(ch, b, i, n)
      BY <1>13 DEF Counted
    <2>i. i \in 1 .. Len(ch[b])
      BY <1>10, <1>13
    <2> HIDE DEF n
    <2>4. /\ chain' \in Chains /\ Alike(ch, chain')
          /\ chain'[b][i] = [ch[b][i] EXCEPT !.bytes = n]
          /\ \A a \in Buckets : \A j \in 1 .. Len(ch[a]) :
               <<a, j>> # <<b, i>> => chain'[a][j] = ch[a][j]
      BY <1>3, <1>5, <2>i, <2>1, <2>3, CounterAlike
    <2>5. /\ Filled(chain', queue, saUsed) /\ Sized(chain', queue, saUsed)
          /\ Used(chain') = Used(ch)
      BY <1>3, <2>4, AlikeKeeps
    <2>6. Grown(ch, chain', e)
      <3> DEFINE p == <<b, i>>
      <3>1. Cells(chain') = Cells(ch)
        BY <2>4 DEF Cells, Alike
      <3>2. \A u \in Cells(ch) : u[1] \in Buckets /\ u[2] \in 1 .. Len(ch[u[1]]) /\ u = <<u[1], u[2]>>
        BY <1>3, LenProperties DEF Cells, Chains
      <3>3. p \in Cells(ch) /\ p \in Used(ch)
        <4>1. Len(ch[b]) <= ScratchNodes + 1
          BY <1>3, <1>5, <1>6, <1>7 DEF Sized
        <4>2. i \in 1 .. ScratchNodes + 1 /\ i <= Len(ch[b])
          BY <1>6, <1>7, <1>10, <1>13, <4>1
        <4> QED
          BY <1>5, <1>13, <4>2 DEF Cells, Used
      <3>4. \A u \in Cells(chain') \ {p} : u \in Cells(ch) /\ chain'[u[1]][u[2]] = ch[u[1]][u[2]]
        BY <2>4, <3>1, <3>2
      <3>5. Same(ch[b][i], e)
        BY <1>4, <1>10, <1>13 DEF Same, Matches
      <3>6. chain'[b][i] = [ch[b][i] EXCEPT !.bytes = @ + e.bytes]
        <4>1. ch[b][i] \in Entry
          BY <1>6, <1>10, <1>13, ElementOfSeq
        <4>2. n = ch[b][i].bytes + (r.bytes + r.ba)
          BY <1>2, <4>1 DEF Entry, Record, n
        <4> QED
          BY <1>e, <2>4, <4>2
      <3>7. p[1] = b /\ p[2] = i
        OBVIOUS
      <3> HIDE DEF p
      <3> QED
        BY <2>5, <3>1, <3>3, <3>4, <3>5, <3>6, <3>7 DEF Grown
    <2> QED
      BY <1>7, <1>13, <2>4, <2>5, <2>6 DEF r, ch, e
  <1>14. CASE /\ S # {} /\ ch[b][i].valid # "inuse"
              /\ chain' = [ch EXCEPT ![b][i] = e]
              /\ queue' = Append(queue, <<b, i>>)
              /\ UNCHANGED saUsed
    <2>1. Empty(ch, b) /\ i = 1 /\ Turn(ch, b) = 1
      BY <1>10, <1>11, <1>14 DEF Empty, Turn
    <2>2. \A u \in Used(ch) : ~Same(e, ch[u[1]][u[2]])
      <3>1. \A u \in Used(ch) : u[1] = b => u[2] = 1 /\ ch[b][u[2]].valid = "inuse"
        BY <2>1 DEF Used, Cells, Empty
      <3> QED
        BY <1>9, <2>1, <3>1 DEF Empty
    <2> DEFINE s == [ch[b] EXCEPT ![1] = e]
    <2>3. s \in Seq(Entry) /\ Len(s) = 1 /\ s[1] = e
      <3>1. 1 \in 1 .. Len(ch[b]) /\ Len(ch[b]) = 1
        BY <2>1 DEF Empty
      <3> QED
        BY <1>2, <1>6, <3>1, ExceptSeq
    <2>4. chain' = [ch EXCEPT ![b] = s]
      BY <1>14, <2>1
    <2> HIDE DEF s
    <2>5. chain' \in Chains /\ chain'[b] = s /\ \A a \in Buckets \ {b} : chain'[a] = ch[a]
      BY <1>3, <1>5, <2>3, <2>4 DEF Chains
    <2>6. Put(ch, chain', b, e)
      BY <2>1, <2>3, <2>5 DEF Put
    <2>7. LET p == <<b, Turn(ch, b)>>
          IN /\ Append(queue, p) \in Seq(Places0) /\ Grown(ch, chain', e)
             /\ Filled(chain', Append(queue, p), saUsed)
             /\ Sized(chain', Append(queue, p), saUsed)
      BY <1>2, <1>3, <1>4, <1>5, <1>7, <2>1, <2>2, <2>5, <2>6, PutKeeps
    <2> QED
      BY <1>7, <1>14, <2>1, <2>5, <2>7 DEF r, ch, e
  <1>15. CASE /\ S = {} /\ NodeLeft
              /\ chain' = [ch EXCEPT ![b] = Append(@, e)]
              /\ queue' = Append(queue, <<b, Len(ch[b]) + 1>>)
              /\ saUsed' = saUsed + 1
    <2>1. ~Empty(ch, b) /\ Turn(ch, b) = Len(ch[b]) + 1
      <3>1. ASSUME Empty(ch, b) PROVE FALSE
        <4>1. 1 \in 1 .. Len(ch[b]) /\ ch[b][1].valid # "inuse"
          BY <3>1 DEF Empty
        <4> QED
          BY <1>12, <1>15, <4>1
      <3> QED
        BY <3>1 DEF Turn
    <2>2. \A u \in Used(ch) : ~Same(e, ch[u[1]][u[2]])
      BY <1>9, <1>15
    <2>3. /\ Append(ch[b], e) \in Seq(Entry) /\ Len(Append(ch[b], e)) = Len(ch[b]) + 1
          /\ \A j \in 1 .. Len(ch[b]) : Append(ch[b], e)[j] = ch[b][j]
          /\ Append(ch[b], e)[Len(ch[b]) + 1] = e
      BY <1>2, <1>6, AppendProperties
    <2>4. /\ chain' \in Chains /\ chain'[b] = Append(ch[b], e)
          /\ \A a \in Buckets \ {b} : chain'[a] = ch[a]
      BY <1>3, <1>5, <1>15, <2>3 DEF Chains
    <2>5. Put(ch, chain', b, e)
      BY <1>6, <2>1, <2>3, <2>4 DEF Put
    <2>6. saUsed' \in 0 .. ScratchNodes /\ saUsed' = saUsed + 1
      BY <1>7, <1>15 DEF NodeLeft
    <2>7. LET p == <<b, Turn(ch, b)>>
          IN /\ Append(queue, p) \in Seq(Places0) /\ Grown(ch, chain', e)
             /\ Filled(chain', Append(queue, p), saUsed')
             /\ Sized(chain', Append(queue, p), saUsed')
      BY <1>2, <1>3, <1>4, <1>5, <1>7, <2>1, <2>2, <2>4, <2>5, <2>6, PutKeeps
    <2> QED
      BY <1>15, <2>1, <2>4, <2>6, <2>7 DEF r, ch, e
  <1> QED
    BY <1>8, <1>13, <1>14, <1>15

\* A call of P_cache_insert() that finds room keeps the invariant.
LEMMA InsertInv ==
  ASSUME CacheInv, Insert
  PROVE  CacheInv'
PROOF
  <1>1. /\ pc = "insert" /\ calls # << >> /\ pc' \in {"idle", "insert"}
        /\ calls' = Tail(calls)
        /\ pc' = "insert" => Len(calls) # 1
        /\ rec' = KeepAccumulator(CurrentRecord)
        /\ UNCHANGED <<urgent, container, timeVars, classVars, writerVars, ledgerVars, nrec>>
    BY DEF Insert, CacheInv, Underway
  <1>2. /\ chain' \in Chains /\ queue' \in Seq(Places0) /\ saUsed' \in 0 .. ScratchNodes
        /\ Filled(chain', queue', saUsed') /\ Sized(chain', queue', saUsed')
    BY InsertFills
  <1>3. rec' \in Record /\ calls' \in Seq(Hosts \cup {KeepSrc})
        /\ (pc' = "insert" => calls' # << >>)
    BY <1>1, RecordTypes DEF CacheInv, Typed
  <1>4. container = << >>
    BY <1>1 DEF CacheInv, Phase
  <1>5. Typed'
    BY <1>1, <1>2, <1>3
    DEF CacheInv, Typed, StepTypes, CacheTypes, TimeTypes, ClassTypes, WriterTypes,
        LedgerTypes, timeVars, classVars, writerVars, ledgerVars, Record, Chains, Places0
  <1> QED
    BY <1>1, <1>2, <1>3, <1>4, <1>5 DEF CacheInv, Phase, Underway

\* A call that finds the cache full has taken the accumulator out at most.
LEMMA FinishedInv ==
  ASSUME CacheInv, FinishedEntries
  PROVE  CacheInv'
PROOF
  <1>1. /\ pc = "insert" /\ calls # << >> /\ pc' = "safe"
        /\ rec' = KeepAccumulator(CurrentRecord)
        /\ chain' = SubtractAccumulator(CurrentRecord)
        /\ UNCHANGED <<urgent, calls, queue, container, saUsed, timeVars, classVars,
                       writerVars, ledgerVars, nrec>>
    BY DEF FinishedEntries, CacheInv, Underway
  <1>2. rec' \in Record /\ CurrentRecord \in Record
    BY <1>1, RecordTypes DEF CacheInv, Typed
  <1>3. /\ chain' \in Chains /\ Filled(chain', queue, saUsed)
        /\ Sized(chain', queue, saUsed)
    BY <1>1, <1>2, SubtractKeeps DEF CacheInv, Phase
  <1>4. container = << >>
    BY <1>1 DEF CacheInv, Phase
  <1>5. Typed'
    BY <1>1, <1>2, <1>3
    DEF CacheInv, Typed, StepTypes, CacheTypes, TimeTypes, ClassTypes, WriterTypes,
        LedgerTypes, timeVars, classVars, writerVars, ledgerVars, Record, Chains
  <1> QED
    BY <1>1, <1>3, <1>4, <1>5 DEF CacheInv, Phase, Underway

-----------------------------------------------------------------------------
\* Committing and freeing entries changes the state of what is queued, no more.
LEMMA RevalidateKeeps ==
  ASSUME chain \in Chains, NEW C
  PROVE  LET d == Revalidate(C)
         IN /\ d \in Chains
            /\ \A b \in Buckets :
                 /\ Len(d[b]) = Len(chain[b])
                 /\ \A i \in 1 .. Len(chain[b]) :
                      /\ <<b, i>> \in Range(queue) =>
                           d[b][i] = [chain[b][i] EXCEPT !.valid =
                                        IF <<b, i>> \in C THEN "committed" ELSE "free"]
                      /\ <<b, i>> \notin Range(queue) => d[b][i] = chain[b][i]
            /\ Cells(d) = Cells(chain)
            /\ Used(d) = Used(chain) \ Range(queue)
            /\ \A p \in Used(d) : d[p[1]][p[2]] = chain[p[1]][p[2]]
PROOF
  <1> DEFINE d == Revalidate(C)
             cell(b, i) == IF <<b, i>> \notin Range(queue) THEN chain[b][i]
                           ELSE [chain[b][i] EXCEPT !.valid =
                                   IF <<b, i>> \in C THEN "committed" ELSE "free"]
  <1>1. \A b \in Buckets : /\ chain[b] \in Seq(Entry) /\ Len(chain[b]) \in Nat
                           /\ DOMAIN chain[b] = 1 .. Len(chain[b])
    BY LenProperties DEF Chains
  <1>2. \A b \in Buckets : \A i \in 1 .. Len(chain[b]) : cell(b, i) \in Entry
    <2> SUFFICES ASSUME NEW b \in Buckets, NEW i \in 1 .. Len(chain[b])
                 PROVE  cell(b, i) \in Entry
      OBVIOUS
    <2>1. chain[b][i] \in Entry
      BY <1>1, ElementOfSeq
    <2> QED
      BY <2>1 DEF Entry
  <1>3. d = [b \in Buckets |-> [i \in DOMAIN chain[b] |-> cell(b, i)]]
    BY DEF Revalidate
  <1>4. \A b \in Buckets : d[b] = [i \in 1 .. Len(chain[b]) |-> cell(b, i)]
    BY <1>1, <1>3
  <1>5. ASSUME NEW b \in Buckets
        PROVE  /\ d[b] \in Seq(Entry) /\ Len(d[b]) = Len(chain[b])
               /\ \A i \in 1 .. Len(chain[b]) : d[b][i] = cell(b, i)
    <2>1. d[b] = [i \in 1 .. Len(chain[b]) |-> cell(b, i)]
      BY <1>4
    <2>2. \A i \in 1 .. Len(chain[b]) : cell(b, i) \in Entry
      BY <1>2
    <2> HIDE DEF cell, d
    <2>3. d[b] \in Seq(Entry)
      BY <1>1, <2>1, <2>2, IsASeq
    <2> QED
      BY <1>1, <2>1, <2>3, LenProperties
  <1>6. d \in Chains
    <2> HIDE DEF cell
    <2> QED
      BY <1>3, <1>5 DEF Chains
  <1>7. Cells(d) = Cells(chain)
    BY <1>5 DEF Cells
  <1>8. \A p \in Cells(chain) : d[p[1]][p[2]] = cell(p[1], p[2]) /\ p = <<p[1], p[2]>>
    BY <1>1, <1>5 DEF Cells
  <1>9. \A p \in Cells(chain) :
          /\ p \in Range(queue) => d[p[1]][p[2]].valid # "inuse"
          /\ p \notin Range(queue) => d[p[1]][p[2]] = chain[p[1]][p[2]]
    <2> SUFFICES ASSUME NEW p \in Cells(chain)
                 PROVE  /\ p \in Range(queue) => d[p[1]][p[2]].valid # "inuse"
                        /\ p \notin Range(queue) => d[p[1]][p[2]] = chain[p[1]][p[2]]
      OBVIOUS
    <2>1. d[p[1]][p[2]] = cell(p[1], p[2]) /\ p = <<p[1], p[2]>>
      BY <1>8
    <2>2. chain[p[1]][p[2]] \in Entry
      <3>1. p[1] \in Buckets /\ p[2] \in 1 .. Len(chain[p[1]])
        BY <1>1 DEF Cells
      <3> QED
        BY <1>1, <3>1, ElementOfSeq
    <2> QED
      BY <2>1, <2>2 DEF Entry
  <1>10. Used(d) = Used(chain) \ Range(queue)
    BY <1>7, <1>9 DEF Used
  <1>11. \A p \in Used(d) : d[p[1]][p[2]] = chain[p[1]][p[2]]
    BY <1>9, <1>10 DEF Used
  <1> QED
    BY <1>5, <1>6, <1>7, <1>10, <1>11

\* What P_cache_mark_flush() sets aside are entries in use, none of them twice.
LEMMA SetAsideIs ==
  ASSUME CacheInv, Filled(chain, queue, saUsed)
  PROVE  /\ Pending \in Seq(Places0) /\ Range(Pending) \subseteq Used(chain)
         /\ Range(Pending) = {p \in Range(queue) : ~Due(EntryAt(p))}
         /\ Once(Pending) /\ SetAside \in Seq(Entry) /\ Len(SetAside) = Len(Pending)
         /\ \A i \in 1 .. Len(Pending) :
              Pending[i] \in Used(chain) /\ SetAside[i] = EntryAt(Pending[i])
PROOF
  <1> DEFINE T == {p \in Range(queue) : ~Due(EntryAt(p))}
  <1>1. queue \in Seq(Places0) /\ chain \in Chains /\ Range(queue) = Used(chain) /\ Once(queue)
    BY DEF CacheInv, Typed, CacheTypes, Chains, Places0, Filled
  <1>2. Pending = Kept(queue, T)
    BY DEF Pending
  <1>3. Pending \in Seq(Places0 \cap T) /\ Range(Pending) = Range(queue) \cap T /\ Once(Pending)
    BY <1>1, <1>2, KeptRange
  <1>4. Range(Pending) = T /\ T \subseteq Used(chain)
    BY <1>1, <1>3
  <1>5. Len(Pending) \in Nat /\ DOMAIN Pending = 1 .. Len(Pending)
        /\ \A i \in 1 .. Len(Pending) : Pending[i] \in Places0 /\ Pending[i] \in T
    BY <1>3, LenProperties, ElementOfSeq
  <1>6. Pending \in Seq(Places0)
    BY <1>5, IsASeq, <1>3, LenProperties
  <1>7. \A p \in Used(chain) : EntryAt(p) \in Entry
    BY ElementOfSeq, LenProperties, <1>1 DEF Used, Cells, EntryAt, Chains
  <1>8. \A i \in 1 .. Len(Pending) : EntryAt(Pending[i]) \in Entry
    BY <1>4, <1>5, <1>7
  <1>9. SetAside = [i \in 1 .. Len(Pending) |-> EntryAt(Pending[i])]
    BY <1>5 DEF SetAside
  <1> HIDE DEF T
  <1>10. SetAside \in Seq(Entry) /\ Len(SetAside) = Len(Pending)
    BY <1>5, <1>8, <1>9, IsASeq, LenProperties
  <1> QED
    BY <1>3, <1>4, <1>5, <1>6, <1>9, <1>10 DEF T

\* The entries set aside need no more nodes than there are: those that were at the
\* head of a chain are in buckets of their own, the others held a node each.
LEMMA PendingRoom ==
  ASSUME CacheInv, Filled(chain, queue, saUsed)
  PROVE  RoomFor(SetAside, 0, Buckets)
PROOF
  <1> DEFINE P == Range(Pending)
             P1 == {p \in P : p[2] = 1}
             P2 == {p \in P : p[2] > 1}
             W == Wanted(SetAside)
  <1>1. /\ Pending \in Seq(Places0) /\ P \subseteq Used(chain)
        /\ Once(Pending) /\ SetAside \in Seq(Entry) /\ Len(SetAside) = Len(Pending)
        /\ \A i \in 1 .. Len(Pending) :
              Pending[i] \in Used(chain) /\ SetAside[i] = EntryAt(Pending[i])
    BY SetAsideIs
  <1>2. /\ IsFiniteSet(P) /\ Cardinality(P) = Len(Pending)
        /\ P = {Pending[i] : i \in 1 .. Len(Pending)}
    BY <1>1, RangeOf
  <1>3. W \subseteq Buckets /\ W = {Hash(SetAside[i].key) : i \in 1 .. Len(Pending)}
    <2>1. DOMAIN SetAside = 1 .. Len(Pending)
      BY <1>1, LenProperties
    <2>2. \A i \in 1 .. Len(Pending) : SetAside[i].key \in Keys
      <3>1. \A i \in 1 .. Len(Pending) : SetAside[i] \in Entry
        BY <1>1, ElementOfSeq
      <3> QED
        BY <3>1 DEF Entry
    <2> QED
      BY <2>1, <2>2, CacheAssumption DEF Wanted
  <1>4. \A p \in Used(chain) : p[1] \in Buckets /\ p[2] \in Nat \ {0} /\ p = <<p[1], p[2]>>
    BY DEF Used, Cells
  <1>5. Cardinality(P1) <= Cardinality(W) /\ Cardinality(P1) \in Nat /\ Cardinality(W) \in Nat
    <2> DEFINE f == [p \in P1 |-> p[1]]
    <2>1. \A p \in P1 : p[1] \in W
      <3> SUFFICES ASSUME NEW p \in P1 PROVE p[1] \in W
        OBVIOUS
      <3>1. PICK i \in 1 .. Len(Pending) : p = Pending[i]
        BY <1>2, Zenon
      <3>2. Hash(EntryAt(p).key) = p[1]
        BY <1>1 DEF Filled, Hashed, EntryAt
      <3> QED
        BY <1>1, <1>3, <3>1, <3>2
    <2>2. f \in Injection(P1, W)
      <3>1. \A p, q \in P1 : p[1] = q[1] => p = q
        BY <1>1, <1>4
      <3> QED
        BY <2>1, <3>1 DEF Injection, IsInjective
    <2>3. IsFiniteSet(W)
      BY <1>3, CacheAssumption, FS_Subset
    <2> QED
      BY <2>2, <2>3, FS_Injection, FS_CardinalityType
  <1>6. Cardinality(P2) <= ScratchNodes /\ Cardinality(P2) \in Nat
    <2>1. P2 \subseteq Nodes(chain)
      BY <1>1 DEF Nodes
    <2>2. IsFiniteSet(Used(chain)) /\ Cardinality(Nodes(chain)) <= saUsed /\ saUsed \in 0 .. ScratchNodes
      BY RangeOf DEF Filled, CacheInv, Typed, CacheTypes
    <2>3. IsFiniteSet(Nodes(chain))
      BY <2>2, FS_Subset DEF Nodes
    <2>4. IsFiniteSet(P2) /\ Cardinality(P2) <= Cardinality(Nodes(chain))
      BY <2>1, <2>3, FS_Subset
    <2>5. Cardinality(P2) \in Nat /\ Cardinality(Nodes(chain)) \in Nat
      BY <2>3, <2>4, FS_CardinalityType
    <2> QED
      BY <2>2, <2>4, <2>5, CacheAssumption
  <1>7. Cardinality(P) <= Cardinality(P1) + Cardinality(P2)
    <2>1. P = P1 \cup P2
      BY <1>1, <1>4
    <2>2. IsFiniteSet(P1) /\ IsFiniteSet(P2) /\ IsFiniteSet(P1 \cap P2)
      BY <1>2, FS_Subset, Zenon
    <2>3. Cardinality(P1 \cap P2) \in Nat
      BY <2>2, FS_CardinalityType
    <2>4. Cardinality(P1 \cup P2) = Cardinality(P1) + Cardinality(P2) - Cardinality(P1 \cap P2)
      BY <2>2, FS_Union
    <2> HIDE DEF P, P1, P2
    <2> QED
      BY <1>5, <1>6, <2>1, <2>3, <2>4
  <1>8. W \cap Buckets = W
    BY <1>3
  <1>9. 0 + Len(SetAside) - Cardinality(W) <= ScratchNodes
    <2> HIDE DEF P, P1, P2, W
    <2>1. Len(SetAside) = Cardinality(P)
      BY <1>1, <1>2
    <2>2. Cardinality(P) \in Nat
      BY <1>2, FS_CardinalityType, Zenon
    <2> QED
      BY <1>5, <1>6, <1>7, <2>1, <2>2, CacheAssumption
  <1> QED
    BY <1>8, <1>9 DEF RoomFor

\* P_cache_mark_flush() leaves nothing in use and sets pending entries aside.
LEMMA MarkFlushInv ==
  ASSUME CacheInv, MarkFlush
  PROVE  CacheInv'
PROOF
  <1> DEFINE C == {p \in Range(queue) : Due(EntryAt(p))}
  <1>1. /\ pc \in {"idle", "safe"} /\ pc' = "marked" /\ urgent' = (pc = "safe")
        /\ container' = SetAside /\ chain' = Revalidate(C)
        /\ UNCHANGED <<rec, calls, queue, saUsed, timeVars, classVars, writerVars,
                       ledgerVars, nrec>>
    BY DEF MarkFlush
  <1>2. Filled(chain, queue, saUsed) /\ Sized(chain, queue, saUsed) /\ chain \in Chains
    BY <1>1 DEF CacheInv, Typed, CacheTypes, Chains, Phase
  <1>3. /\ chain' \in Chains /\ \A b \in Buckets : Len(chain'[b]) = Len(chain[b])
        /\ Cells(chain') = Cells(chain)
        /\ Used(chain') = Used(chain) \ Range(queue)
    BY <1>1, <1>2, RevalidateKeeps
  <1>4. Marked(chain', queue)
    <2>1. Used(chain') = {}
      BY <1>2, <1>3 DEF Filled
    <2>2. ASSUME NEW b \in Buckets, Len(chain[b]) # 1 PROVE <<b, 1>> \in Range(queue)
      <3>1. ~Empty(chain, b) /\ Len(chain[b]) \in Nat /\ Len(chain[b]) >= 1
        BY <1>2, <2>2, LenProperties DEF Empty, Sized, Chains
      <3>2. chain[b][1].valid = "inuse"
        BY <1>2, <3>1 DEF Filled, Whole
      <3>3. <<b, 1>> \in Used(chain)
        BY <3>1, <3>2, CacheAssumption DEF Used, Cells
      <3> QED
        BY <1>2, <3>3 DEF Filled
    <2> QED
      BY <1>3, <2>1, <2>2 DEF Marked
  <1>5. Sized(chain', queue, saUsed)
    BY <1>2, <1>3 DEF Sized
  <1>6. /\ SetAside \in Seq(Entry) /\ Len(SetAside) = Len(Pending) /\ Once(Pending)
        /\ Pending \in Seq(Places0)
        /\ \A i \in 1 .. Len(Pending) :
              Pending[i] \in Used(chain) /\ SetAside[i] = EntryAt(Pending[i])
    BY <1>2, SetAsideIs
  <1>7. Apart(SetAside, chain')
    <2>1. DOMAIN SetAside = 1 .. Len(Pending) /\ DOMAIN Pending = 1 .. Len(Pending)
      BY <1>6, LenProperties
    <2>2. ASSUME NEW i \in 1 .. Len(Pending), NEW j \in 1 .. Len(Pending),
                 Same(SetAside[i], SetAside[j])
          PROVE  i = j
      <3>1. Pending[i] = Pending[j]
        BY <1>2, <1>6, <2>2 DEF Filled, Unique, EntryAt
      <3> QED
        BY <1>6, <2>1, <3>1 DEF Once
    <2> QED
      BY <1>4, <2>1, <2>2 DEF Apart, Marked
  <1>8. RoomFor(SetAside, 0, Buckets)
    BY <1>2, PendingRoom
  <1>9. Typed'
    BY <1>1, <1>3, <1>6
    DEF CacheInv, Typed, StepTypes, CacheTypes, TimeTypes, ClassTypes, WriterTypes,
        LedgerTypes, timeVars, classVars, writerVars, ledgerVars, Chains
  <1>10. Underway'
    BY <1>1 DEF CacheInv, Underway
  <1> QED
    BY <1>1, <1>4, <1>5, <1>7, <1>8, <1>9, <1>10 DEF CacheInv, Phase

-----------------------------------------------------------------------------
\* Bytes are counted over what is in the cells of the chains.
LEMMA BytesType ==
  ASSUME chain \in Chains, NEW P, P \subseteq Cells(chain), NEW r
  PROVE  BytesAt(P, r) \in Nat
PROOF
  <1> DEFINE Q == {p \in P : RowOf(EntryAt(p)) = r}
             f == [p \in Q |-> EntryAt(p).bytes]
  <1>1. IsFiniteSet(Cells(chain))
    <2>1. IsFiniteSet(1 .. ScratchNodes + 1)
      BY CacheAssumption, FS_Interval
    <2>2. IsFiniteSet(Buckets \X (1 .. ScratchNodes + 1))
      BY <2>1, CacheAssumption, FS_Product
    <2> QED
      BY <2>2, FS_Subset DEF Cells
  <1>2. IsFiniteSet(Q)
    BY <1>1, FS_Subset
  <1>3. \A p \in Q : EntryAt(p).bytes \in Nat
    <2>1. \A p \in Cells(chain) : EntryAt(p) \in Entry
      BY ElementOfSeq, LenProperties DEF Cells, EntryAt, Chains
    <2> QED
      BY <2>1 DEF Entry
  <1>4. BytesAt(P, r) = SumFunctionOnSet(f, Q)
    BY DEF BytesAt, SumFunction
  <1>5. \A p \in Q : f[p] \in Nat
    BY <1>3
  <1> HIDE DEF f, Q
  <1> QED
    BY <1>2, <1>4, <1>5, SumType

\* Handing entries to a writer, or dropping them, touches no entry.
LEMMA ForkInv ==
  ASSUME CacheInv, ForkWriter
  PROVE  CacheInv'
PROOF
  <1>1. /\ pc = "marked" /\ pc' = "forked"
        /\ UNCHANGED <<urgent, rec, calls, chain, queue, container, saUsed, timeVars,
                       classVars, fed, pendLost, nrec>>
    BY DEF ForkWriter, cacheVars
  <1>2. \A r \in Rows : BytesAt(Committed, r) \in Nat
    <2>1. chain \in Chains /\ Committed \subseteq Cells(chain)
      BY DEF CacheInv, Typed, CacheTypes, Chains, Committed, Places, Cells
    <2> QED
      BY <2>1, BytesType
  <1>3. LedgerTypes'
    <2>1. \A g \in [Rows -> Nat] : AddBytes(g, Committed) \in [Rows -> Nat]
      BY <1>2 DEF AddBytes
    <2> QED
      BY <1>1, <2>1 DEF ForkWriter, CacheInv, Typed, LedgerTypes
  <1>4. WriterTypes'
    BY DEF ForkWriter, CacheInv, Typed, WriterTypes
  <1>5. Typed'
    BY <1>1, <1>3, <1>4
    DEF CacheInv, Typed, StepTypes, CacheTypes, TimeTypes, ClassTypes, timeVars, classVars
  <1> QED
    BY <1>1, <1>5 DEF CacheInv, Phase, Underway

\* P_cache_flush() leaves every chain a single cell that is not in use, and no node
\* taken.
LEMMA FlushInv ==
  ASSUME CacheInv, Flush
  PROVE  CacheInv'
PROOF
  <1>1. /\ pc = "forked" /\ pc' = "flushed" /\ queue' = << >> /\ saUsed' = 0
        /\ chain' = [b \in Buckets |->
                       IF <<b, 1>> \in Range(queue)
                       THEN <<[chain[b][1] EXCEPT !.valid = "free"]>>
                       ELSE chain[b]]
        /\ UNCHANGED <<urgent, rec, calls, container, base, acc, cls, accSlots,
                       writerVars, ledgerVars, nrec>>
    BY DEF Flush
  <1>2. chain \in Chains /\ Marked(chain, queue) /\ Sized(chain, queue, saUsed)
        /\ Apart(container, chain) /\ RoomFor(container, 0, Buckets)
    BY <1>1 DEF CacheInv, Typed, CacheTypes, Chains, Phase
  <1>3. ASSUME NEW b \in Buckets
        PROVE  chain'[b] \in Seq(Entry) /\ Empty(chain', b)
    <2>1. chain[b] \in Seq(Entry) /\ Len(chain[b]) \in Nat /\ Len(chain[b]) >= 1
      BY <1>2, LenProperties DEF Chains, Sized
    <2>2. chain[b][1] \in Entry
      BY <2>1, ElementOfSeq
    <2>3. CASE <<b, 1>> \in Range(queue)
      <3> DEFINE e == [chain[b][1] EXCEPT !.valid = "free"]
      <3>1. e \in Entry /\ e.valid # "inuse"
        BY <2>2 DEF Entry
      <3> HIDE DEF e
      <3>2. chain'[b] = <<e>>
        BY <1>1, <2>3 DEF e
      <3> QED
        BY <3>1, <3>2 DEF Empty
    <2>4. CASE <<b, 1>> \notin Range(queue)
      <3>1. chain'[b] = chain[b] /\ Len(chain[b]) = 1
        BY <1>1, <1>2, <2>4 DEF Marked
      <3>2. <<b, 1>> \in Cells(chain)
        BY <2>1, CacheAssumption DEF Cells
      <3>3. chain[b][1].valid # "inuse"
        BY <1>2, <3>2 DEF Marked, Used
      <3> QED
        BY <2>1, <3>1, <3>3 DEF Empty
    <2> QED
      BY <2>3, <2>4
  <1>4. chain' \in Chains
    <2> DEFINE h(b) == IF <<b, 1>> \in Range(queue)
                       THEN <<[chain[b][1] EXCEPT !.valid = "free"]>> ELSE chain[b]
    <2>1. chain' = [b \in Buckets |-> h(b)]
      BY <1>1
    <2>2. \A b \in Buckets : h(b) \in Seq(Entry)
      BY <1>3, <2>1
    <2> HIDE DEF h
    <2> QED
      BY <2>1, <2>2 DEF Chains
  <1>5. Used(chain') = {}
    BY <1>3 DEF Used, Cells, Empty
  <1>6. Range(queue') = {} /\ Once(queue')
    BY <1>1 DEF Range, Once
  <1>u. saUsed' = 0
    BY <1>1
  <1>7. Sized(chain', queue', saUsed')
    <2>1. \A b \in Buckets : Len(chain'[b]) = 1
      BY <1>3 DEF Empty
    <2>2. \A b \in Buckets : Len(chain'[b]) \in 1 .. saUsed' + 1
      BY <1>u, <2>1
    <2> QED
      BY <1>6, <2>2 DEF Sized
  <1>8. Filled(chain', queue', saUsed')
    <2>1. Cardinality(Nodes(chain')) = 0
      BY <1>5, FS_EmptySet DEF Nodes
    <2>2. Whole(chain') /\ Hashed(chain') /\ Unique(chain')
      BY <1>3, <1>5 DEF Whole, Hashed, Unique
    <2>3. Cardinality(Nodes(chain')) <= saUsed'
      BY <1>u, <2>1
    <2> QED
      BY <1>5, <1>6, <2>2, <2>3 DEF Filled
  <1>9. Apart(container, chain') /\ RoomFor(container, saUsed', EmptyHeads(chain'))
    <2>1. EmptyHeads(chain') = Buckets
      BY <1>3 DEF EmptyHeads
    <2> QED
      BY <1>1, <1>2, <1>5, <2>1 DEF Apart
  <1>10. TimeTypes' /\ ClassTypes'
    <2>1. \/ /\ UNCHANGED <<newBase, fresh>>
             /\ mixed' = (mixed \/ rec.ba > 0 \/ \E f \in Flows : acc[f] > 0)
          \/ newBase' = 0 /\ fresh' = [f \in Flows |-> FALSE] /\ UNCHANGED mixed
      BY DEF Flush
    <2>2. mixed' \in BOOLEAN
      BY <2>1 DEF CacheInv, Typed, ClassTypes
    <2>3. newBase' \in 0 .. MaxSlot /\ fresh' \in [Flows -> BOOLEAN]
      <3>1. \/ newBase' = newBase /\ fresh' = fresh
            \/ newBase' = 0 /\ fresh' = [f \in Flows |-> FALSE]
        BY <2>1
      <3>2. newBase \in 0 .. MaxSlot /\ fresh \in [Flows -> BOOLEAN]
        BY DEF CacheInv, Typed, ClassTypes, TimeTypes
      <3>3. 0 \in 0 .. MaxSlot /\ [f \in Flows |-> FALSE] \in [Flows -> BOOLEAN]
        BY CacheAssumption
      <3>4. CASE newBase' = newBase /\ fresh' = fresh
        BY <3>2, <3>4, Zenon
      <3>5. CASE newBase' = 0 /\ fresh' = [f \in Flows |-> FALSE]
        BY <3>3, <3>5, Zenon
      <3> QED
        BY <3>1, <3>4, <3>5
    <2> QED
      BY <1>1, <2>2, <2>3 DEF CacheInv, Typed, TimeTypes, ClassTypes
  <1>11. Typed'
    <2>1. queue' \in Seq(Buckets \X (1 .. ScratchNodes + 1)) /\ saUsed' \in 0 .. ScratchNodes
      BY <1>1, CacheAssumption
    <2> QED
      BY <1>1, <1>4, <1>10, <2>1
      DEF CacheInv, Typed, StepTypes, CacheTypes, WriterTypes, LedgerTypes, writerVars,
          ledgerVars, Chains
  <1> QED
    BY <1>1, <1>7, <1>8, <1>9, <1>11 DEF CacheInv, Phase, Underway

\* The buckets of the entries set aside: at most as many as there are entries, and
\* one fewer to look for when the first entry is taken.
LEMMA WantedOf ==
  ASSUME NEW q \in Seq(Entry)
  PROVE  /\ Wanted(q) \subseteq Buckets /\ IsFiniteSet(Wanted(q))
         /\ Cardinality(Wanted(q)) \in Nat /\ Cardinality(Wanted(q)) <= Len(q)
         /\ q # << >> => Wanted(q) = Wanted(Tail(q)) \cup {Hash(Head(q).key)}
PROOF
  <1> DEFINE h == [i \in 1 .. Len(q) |-> Hash(q[i].key)]
  <1>1. Len(q) \in Nat /\ DOMAIN q = 1 .. Len(q) /\ \A i \in 1 .. Len(q) : q[i] \in Entry
    BY LenProperties, ElementOfSeq
  <1>2. \A i \in 1 .. Len(q) : Hash(q[i].key) \in Buckets
    BY <1>1, CacheAssumption DEF Entry
  <1>3. h \in Seq(Buckets) /\ Len(h) = Len(q)
    BY <1>1, <1>2, IsASeq, LenProperties
  <1>4. Range(h) = Wanted(q)
    BY <1>1 DEF Range, Wanted
  <1> HIDE DEF h
  <1>5. /\ Wanted(q) \subseteq Buckets /\ IsFiniteSet(Wanted(q))
        /\ Cardinality(Wanted(q)) \in Nat /\ Cardinality(Wanted(q)) <= Len(q)
    BY <1>3, <1>4, RangeOf
  <1>6. ASSUME q # << >>
        PROVE  Wanted(q) = Wanted(Tail(q)) \cup {Hash(Head(q).key)}
    <2> DEFINE u == Tail(q)
    <2>1. /\ Head(q) = q[1] /\ u \in Seq(Entry) /\ Len(u) = Len(q) - 1
          /\ \A i \in 1 .. Len(u) : u[i] = q[i + 1]
      BY <1>6, HeadTailProperties
    <2>2. DOMAIN u = 1 .. Len(u) /\ Len(u) \in Nat
      BY <2>1, LenProperties
    <2> HIDE DEF u
    <2>3. 1 \in 1 .. Len(q) /\ \A i \in 1 .. Len(u) : i + 1 \in 1 .. Len(q)
      BY <1>1, <2>1, <2>2
    <2>4. \A i \in 1 .. Len(q) : i = 1 \/ (i - 1 \in 1 .. Len(u) /\ u[i - 1] = q[i])
      BY <1>1, <2>1, <2>2
    <2>5. Wanted(u) \cup {Hash(q[1].key)} \subseteq Wanted(q)
      BY <1>1, <2>1, <2>2, <2>3 DEF Wanted
    <2>6. Wanted(q) \subseteq Wanted(u) \cup {Hash(q[1].key)}
      BY <1>1, <2>2, <2>4 DEF Wanted
    <2>7. Wanted(q) = Wanted(u) \cup {Hash(Head(q).key)}
      BY <2>1, <2>5, <2>6
    <2> QED
      BY <2>7 DEF u
  <1> QED
    BY <1>5, <1>6

\* Taking the first entry to the head of an empty bucket or to a node leaves room
\* for the rest; if its bucket is not empty there is a node for it.
LEMMA RoomForRest ==
  ASSUME NEW q \in Seq(Entry), q # << >>, NEW used \in 0 .. ScratchNodes,
         NEW H, H \subseteq Buckets, RoomFor(q, used, H)
  PROVE  LET b == Hash(Head(q).key)
         IN /\ b \in H => RoomFor(Tail(q), used, H \ {b})
            /\ b \notin H => used + 1 <= ScratchNodes /\ RoomFor(Tail(q), used + 1, H \ {b})
PROOF
  <1> DEFINE b == Hash(Head(q).key)
             u == Tail(q)
             W == Wanted(q) \cap H
             V == Wanted(u) \cap (H \ {b})
  <1>1. u \in Seq(Entry) /\ Len(u) = Len(q) - 1 /\ Len(u) \in Nat /\ Len(q) \in Nat
    BY HeadTailProperties, LenProperties
  <1>2. Wanted(q) = Wanted(u) \cup {b} /\ IsFiniteSet(Wanted(q)) /\ IsFiniteSet(Wanted(u))
        /\ Cardinality(Wanted(u)) \in Nat /\ Cardinality(Wanted(u)) <= Len(u)
    BY <1>1, WantedOf
  <1>3. IsFiniteSet(W) /\ IsFiniteSet(V) /\ Cardinality(W) \in Nat /\ Cardinality(V) \in Nat
    BY <1>2, FS_Subset, FS_CardinalityType
  <1>4. used \in Nat /\ ScratchNodes \in Nat /\ used + Len(q) - Cardinality(W) <= ScratchNodes
    BY CacheAssumption DEF RoomFor
  <1>5. ASSUME b \in H PROVE used + Len(u) - Cardinality(V) <= ScratchNodes
    <2>1. V = W \ {b} /\ b \in W
      BY <1>2, <1>5
    <2> HIDE DEF u, W, V, b
    <2>2. Cardinality(V) = Cardinality(W) - 1
      BY <1>3, <2>1, FS_RemoveElement
    <2> QED
      BY <1>1, <1>3, <1>4, <2>2
  <1>6. ASSUME b \notin H
        PROVE  used + 1 <= ScratchNodes /\ used + 1 + Len(u) - Cardinality(V) <= ScratchNodes
    <2>1. V = W /\ W \subseteq Wanted(u)
      BY <1>2, <1>6
    <2>2. Cardinality(W) <= Cardinality(Wanted(u))
      BY <1>2, <2>1, FS_Subset
    <2> HIDE DEF u, W, V, b
    <2> QED
      BY <1>1, <1>2, <1>3, <1>4, <2>1, <2>2
  <1> QED
    BY <1>5, <1>6 DEF RoomFor

\* P_cache_insert_pending() puts an entry back into an empty chain or to a node of
\* its own, and there is one.
LEMMA InsertPendingInv ==
  ASSUME CacheInv, InsertPending
  PROVE  /\ CacheInv' /\ UNCHANGED lost /\ container' = Tail(container)
         /\ Grown(chain, chain', [Head(container) EXCEPT !.valid = "inuse"])
PROOF
  <1> DEFINE e == Head(container)
             b == Hash(e.key)
             F == {i \in DOMAIN chain[b] : chain[b][i].valid # "inuse"}
             n == [e EXCEPT !.valid = "inuse"]
             p == <<b, Turn(chain, b)>>
             q == Tail(container)
             now == IF Empty(chain, b) THEN saUsed ELSE saUsed + 1
  <1>1. /\ pc = "flushed" /\ container # << >> /\ pc' = pc
        /\ UNCHANGED <<urgent, rec, calls, timeVars, classVars, writerVars, fed,
                       written, nrec>>
    BY Zenon DEF InsertPending
  <1>2. /\ chain \in Chains /\ queue \in Seq(Places0) /\ container \in Seq(Entry)
        /\ saUsed \in 0 .. ScratchNodes /\ ScratchNodes \in Nat
        /\ Filled(chain, queue, saUsed) /\ Sized(chain, queue, saUsed)
        /\ Apart(container, chain) /\ RoomFor(container, saUsed, EmptyHeads(chain))
    BY <1>1, CacheAssumption DEF CacheInv, Typed, CacheTypes, Chains, Places0, Phase
  <1>3. /\ e \in Entry /\ e = container[1] /\ q \in Seq(Entry)
        /\ Len(q) = Len(container) - 1 /\ \A i \in 1 .. Len(q) : q[i] = container[i + 1]
    BY <1>1, <1>2, HeadTailProperties
  <1>4. n \in Entry /\ n.valid = "inuse" /\ n.key = e.key /\ n.base = e.base
    BY <1>3 DEF Entry
  <1>5. b \in Buckets /\ b = Hash(n.key)
    BY <1>3, <1>4, CacheAssumption DEF Entry
  <1>6. chain[b] \in Seq(Entry) /\ Len(chain[b]) \in Nat /\ DOMAIN chain[b] = 1 .. Len(chain[b])
    BY <1>2, <1>5, LenProperties DEF Chains
  <1>7. Empty(chain, b) \/ \A i \in 1 .. Len(chain[b]) : chain[b][i].valid = "inuse"
    BY <1>2, <1>5 DEF Filled, Whole
  <1>8. /\ b \in EmptyHeads(chain) => RoomFor(q, saUsed, EmptyHeads(chain) \ {b})
        /\ b \notin EmptyHeads(chain) =>
             saUsed + 1 <= ScratchNodes /\ RoomFor(q, saUsed + 1, EmptyHeads(chain) \ {b})
    <2>1. EmptyHeads(chain) \subseteq Buckets
      BY DEF EmptyHeads
    <2> QED
      BY <1>1, <1>2, <2>1, RoomForRest
  <1>9. b \in EmptyHeads(chain) <=> Empty(chain, b)
    BY <1>5 DEF EmptyHeads
  <1>10. now \in 0 .. ScratchNodes /\ RoomFor(q, now, EmptyHeads(chain) \ {b})
    BY <1>2, <1>8, <1>9
  <1>11. \/ /\ F # {}
            /\ chain' = [chain EXCEPT ![b] = Append(SubSeq(@, 1, Min(F) - 1), n)]
            /\ queue' = Append(queue, <<b, Min(F)>>)
            /\ container' = q
            /\ UNCHANGED <<saUsed, lost, pendLost>>
         \/ /\ F = {} /\ NodeLeft
            /\ chain' = [chain EXCEPT ![b] = Append(@, n)]
            /\ queue' = Append(queue, <<b, Len(chain[b]) + 1>>)
            /\ saUsed' = saUsed + 1
            /\ container' = q
            /\ UNCHANGED <<lost, pendLost>>
         \/ F = {} /\ ~NodeLeft
    BY Zenon DEF InsertPending
  <1>12. F = {i \in 1 .. Len(chain[b]) : chain[b][i].valid # "inuse"}
    BY <1>6
  <1> HIDE DEF e, b, F, n, q
  <1>13. F = {} <=> ~Empty(chain, b)
    BY <1>7, <1>12 DEF Empty
  <1>14. /\ Put(chain, chain', b, n) /\ chain' \in Chains /\ queue' = Append(queue, p)
         /\ saUsed' = now /\ container' = q /\ UNCHANGED <<lost, pendLost>>
    <2>1. CASE /\ F # {}
               /\ chain' = [chain EXCEPT ![b] = Append(SubSeq(@, 1, Min(F) - 1), n)]
               /\ queue' = Append(queue, <<b, Min(F)>>)
               /\ container' = q
               /\ UNCHANGED <<saUsed, lost, pendLost>>
      <3>1. Empty(chain, b) /\ F = {1}
        BY <1>12, <1>13, <2>1 DEF Empty
      <3>2. Min(F) = 1 /\ Turn(chain, b) = 1
        BY <3>1, MinOf DEF Turn
      <3>3. SubSeq(chain[b], 1, 0) = << >>
        BY SubSeqEmpty
      <3> DEFINE s == Append(<< >>, n)
      <3>4. s \in Seq(Entry) /\ Len(s) = 1 /\ s[1] = n
        BY <1>4
      <3>5. chain' = [chain EXCEPT ![b] = s]
        <4>1. Min(F) - 1 = 0
          BY <3>2
        <4>2. chain' = [chain EXCEPT ![b] = Append(SubSeq(chain[b], 1, Min(F) - 1), n)]
          BY <2>1
        <4> QED
          BY <3>3, <4>1, <4>2, Zenon
      <3> HIDE DEF s
      <3>6. chain' \in Chains /\ chain'[b] = s /\ \A a \in Buckets \ {b} : chain'[a] = chain[a]
        BY <1>2, <1>5, <3>4, <3>5 DEF Chains
      <3>7. Put(chain, chain', b, n)
        BY <3>2, <3>4, <3>6 DEF Put
      <3> QED
        BY <2>1, <3>1, <3>2, <3>6, <3>7
    <2>2. CASE /\ F = {} /\ NodeLeft
               /\ chain' = [chain EXCEPT ![b] = Append(@, n)]
               /\ queue' = Append(queue, <<b, Len(chain[b]) + 1>>)
               /\ saUsed' = saUsed + 1
               /\ container' = q
               /\ UNCHANGED <<lost, pendLost>>
      <3>1. ~Empty(chain, b) /\ Turn(chain, b) = Len(chain[b]) + 1
        BY <1>13, <2>2 DEF Turn
      <3>2. /\ Append(chain[b], n) \in Seq(Entry) /\ Len(Append(chain[b], n)) = Len(chain[b]) + 1
            /\ \A j \in 1 .. Len(chain[b]) : Append(chain[b], n)[j] = chain[b][j]
            /\ Append(chain[b], n)[Len(chain[b]) + 1] = n
        BY <1>4, <1>6, AppendProperties
      <3>3. /\ chain' \in Chains /\ chain'[b] = Append(chain[b], n)
            /\ \A a \in Buckets \ {b} : chain'[a] = chain[a]
        BY <1>2, <1>5, <2>2, <3>2 DEF Chains
      <3>4. Put(chain, chain', b, n)
        BY <1>6, <3>1, <3>2, <3>3 DEF Put
      <3> QED
        BY <2>2, <3>1, <3>3, <3>4
    <2>3. CASE F = {} /\ ~NodeLeft
      BY <1>2, <1>8, <1>9, <1>13, <2>3 DEF NodeLeft
    <2> QED
      BY <1>11, <2>1, <2>2, <2>3
  <1>15. \A u \in Used(chain) : ~Same(n, chain[u[1]][u[2]])
    <2>1. 1 \in DOMAIN container
      BY <1>1, <1>2, EmptySeq, LenProperties
    <2> QED
      BY <1>2, <1>3, <1>4, <2>1 DEF Apart, Same
  <1>16. /\ Used(chain') = Used(chain) \cup {p} /\ p \notin Used(chain) /\ chain'[b][p[2]] = n
         /\ \A u \in Used(chain) : chain'[u[1]][u[2]] = chain[u[1]][u[2]]
         /\ EmptyHeads(chain') = EmptyHeads(chain) \ {b} /\ Grown(chain, chain', n)
         /\ Append(queue, p) \in Seq(Places0)
         /\ Filled(chain', Append(queue, p), now) /\ Sized(chain', Append(queue, p), now)
    <2>1. now = IF Empty(chain, Hash(n.key)) THEN saUsed ELSE saUsed + 1
      BY <1>5
    <2> HIDE DEF now
    <2> QED
      BY <1>2, <1>4, <1>5, <1>10, <1>14, <1>15, <2>1, PutKeeps
  <1>17. Apart(q, chain')
    <2>1. /\ DOMAIN q = 1 .. Len(q) /\ DOMAIN container = 1 .. Len(container)
          /\ Len(q) \in Nat /\ Len(container) \in Nat
      BY <1>2, <1>3, LenProperties
    <2>2. /\ 1 \in DOMAIN container
          /\ \A i \in DOMAIN q : i + 1 \in DOMAIN container /\ i + 1 # 1 /\ q[i] = container[i + 1]
      BY <1>3, <2>1, <1>1, EmptySeq
    <2>3. \A i, j \in DOMAIN container : Same(container[i], container[j]) => i = j
      BY <1>2 DEF Apart
    <2>4. \A i \in DOMAIN q : ~Same(q[i], n)
      BY <1>3, <1>4, <2>2, <2>3 DEF Same
    <2>5. \A i, j \in DOMAIN q : Same(q[i], q[j]) => i = j
      BY <2>1, <2>2, <2>3
    <2>6. \A i \in DOMAIN q : \A u \in Used(chain) : ~Same(q[i], chain'[u[1]][u[2]])
      BY <1>2, <1>16, <2>2 DEF Apart
    <2> QED
      BY <1>16, <2>4, <2>5, <2>6 DEF Apart
  <1>18. Typed'
    BY <1>1, <1>3, <1>10, <1>14, <1>16
    DEF CacheInv, Typed, StepTypes, CacheTypes, TimeTypes, ClassTypes, WriterTypes,
        LedgerTypes, timeVars, classVars, writerVars, Chains, Places0, q
  <1>19. Phase'
    BY <1>1, <1>10, <1>14, <1>16, <1>17 DEF Phase
  <1> QED
    BY <1>1, <1>14, <1>16, <1>18, <1>19 DEF CacheInv, Underway, q, n, e

\* After a purge the plugin is back in its loop, or tries the record again.
LEMMA PurgeDoneInv ==
  ASSUME CacheInv, PurgeDone
  PROVE  CacheInv'
PROOF
  <1>1. /\ pc = "flushed" /\ container = << >>
        /\ UNCHANGED <<urgent, chain, queue, container, saUsed, timeVars, classVars,
                       writerVars, ledgerVars, nrec>>
    BY DEF PurgeDone, cacheVars
  <1>2. Filled(chain, queue, saUsed)
    BY <1>1 DEF CacheInv, Phase
  <1>3. CASE ~urgent /\ pc' = "idle" /\ UNCHANGED <<rec, calls>>
    BY <1>1, <1>2, <1>3
    DEF CacheInv, Typed, StepTypes, CacheTypes, TimeTypes, ClassTypes, WriterTypes,
        LedgerTypes, timeVars, classVars, writerVars, ledgerVars, Phase, Underway
  <1>4. CASE /\ urgent /\ pc' = "insert"
             /\ rec' = [rec EXCEPT !.key = ClearDst(rec.key)]
             /\ calls' = InsertFunc(rec.key) \o Tail(calls)
    <2> DEFINE H == Hosts \cup {KeepSrc}
               s == InsertFunc(rec.key)
    <2>1. rec \in Record /\ rec.key \in Keys /\ calls \in Seq(H) /\ calls # << >>
      BY <1>1, <1>4 DEF CacheInv, Typed, StepTypes, Record, Underway
    <2>2. s \in Seq(H) /\ s # << >> /\ ClearDst(rec.key) \in Keys
      BY <2>1, CallTypes
    <2>3. Tail(calls) \in Seq(H)
      BY <2>1, HeadTailProperties
    <2>4. calls' \in Seq(H) /\ calls' # << >>
      <3> HIDE DEF s, H
      <3>1. s \o Tail(calls) \in Seq(H) /\ Len(s \o Tail(calls)) = Len(s) + Len(Tail(calls))
        BY <2>2, <2>3, ConcatProperties
      <3>2. Len(s) \in Nat \ {0} /\ Len(Tail(calls)) \in Nat
        BY <2>2, <2>3, EmptySeq, LenProperties
      <3>3. Len(s \o Tail(calls)) # 0
        BY <3>1, <3>2
      <3>4. s \o Tail(calls) # << >>
        BY <3>3, EmptySeq
      <3> QED
        BY <1>4, <3>1, <3>4 DEF s
    <2>5. rec' \in Record
      BY <1>4, <2>1, <2>2 DEF Record
    <2>6. StepTypes'
      BY <1>1, <1>4, <2>4, <2>5 DEF CacheInv, Typed, StepTypes, Record
    <2> QED
      BY <1>1, <1>2, <1>4, <2>4, <2>6
      DEF CacheInv, Typed, CacheTypes, TimeTypes, ClassTypes, WriterTypes,
          LedgerTypes, timeVars, classVars, writerVars, ledgerVars, Phase, Underway
  <1> QED
    BY <1>3, <1>4 DEF PurgeDone

\* P_exit_now() only takes entries out of use, at whatever step SIGINT comes.
LEMMA ExitInv ==
  ASSUME CacheInv, ExitNow
  PROVE  CacheInv'
PROOF
  <1>1. /\ pc' = "exited" /\ chain' = Revalidate(Range(queue)) /\ listed' = alive
        /\ UNCHANGED <<urgent, rec, calls, queue, container, saUsed, timeVars, classVars,
                       alive, fed, pendLost, nrec>>
    BY DEF ExitNow
  <1>2. chain \in Chains /\ Sized(chain, queue, saUsed)
    BY DEF CacheInv, Typed, CacheTypes, Chains
  <1>3. /\ chain' \in Chains /\ \A b \in Buckets : Len(chain'[b]) = Len(chain[b])
        /\ Cells(chain') = Cells(chain)
        /\ Used(chain') = Used(chain) \ Range(queue)
        /\ \A p \in Used(chain') : chain'[p[1]][p[2]] = chain[p[1]][p[2]]
    BY <1>1, <1>2, RevalidateKeeps
  <1>4. Unique(chain)
    BY DEF CacheInv, Phase, Typed, StepTypes, Filled, Marked, Unique
  <1>5. Unique(chain')
    BY <1>3, <1>4 DEF Unique
  <1>6. Sized(chain', queue, saUsed)
    BY <1>2, <1>3 DEF Sized
  <1>7. LedgerTypes'
    <2>1. \A r \in Rows : BytesAt(Range(queue), r) \in Nat
      BY <1>2, BytesType DEF Sized
    <2>2. \A g \in [Rows -> Nat] : AddBytes(g, Range(queue)) \in [Rows -> Nat]
      BY <2>1 DEF AddBytes
    <2> QED
      BY <1>1, <2>2 DEF ExitNow, CacheInv, Typed, LedgerTypes
  <1>8. Typed'
    BY <1>1, <1>3, <1>7
    DEF CacheInv, Typed, StepTypes, CacheTypes, TimeTypes, ClassTypes, WriterTypes,
        timeVars, classVars, Chains
  <1> QED
    BY <1>1, <1>5, <1>6, <1>8 DEF CacheInv, Phase, Underway

\* Where the plugin writes past its scratch area the chains are as they were.
LEMMA BeyondInv ==
  ASSUME CacheInv, WriteBeyond
  PROVE  CacheInv'
PROOF
  <1>1. /\ pc \in {"insert", "flushed"} /\ pc' = "astray"
        /\ UNCHANGED <<urgent, rec, calls, cacheVars, timeVars, classVars, writerVars,
                       ledgerVars, nrec>>
    BY DEF WriteBeyond, NeedsNode
  <1>2. Unique(chain)
    BY <1>1 DEF CacheInv, Phase, Filled
  <1>3. Typed'
    BY <1>1
    DEF CacheInv, Typed, StepTypes, CacheTypes, TimeTypes, ClassTypes, WriterTypes,
        LedgerTypes, cacheVars, timeVars, classVars, writerVars, ledgerVars
  <1> QED
    BY <1>1, <1>2, <1>3 DEF CacheInv, Phase, Underway, cacheVars

\* Every step keeps the invariant.
LEMMA StepInv == CacheInv /\ [Next]_vars => CacheInv'
PROOF
  <1> SUFFICES ASSUME CacheInv, [Next]_vars PROVE CacheInv'
    OBVIOUS
  <1>1. ASSUME NEW f \in Flows, NEW c \in Classes, NEW n \in Sizes, NEW d \in Stamps,
               Receive(f, c, n, base + d)
        PROVE  CacheInv'
    BY <1>1, ReceiveInv
  <1>2. CASE PluginStep
    BY <1>2, InsertInv, FinishedInv, ForkInv, FlushInv, InsertPendingInv, PurgeDoneInv
    DEF PluginStep
  <1>3. CASE MarkFlush
    BY <1>3, MarkFlushInv
  <1>4. CASE ExitNow
    BY <1>4, ExitInv
  <1>5. CASE WriterExit \/ UpdateTimeReference \/ UNCHANGED vars
    BY <1>5, ClockInv
  <1>6. CASE WriteBeyond
    BY <1>6, BeyondInv
  <1> QED
    BY <1>1, <1>2, <1>3, <1>4, <1>5, <1>6 DEF Next

\* The invariant says what CacheSound says.
LEMMA InvSound == CacheInv => CacheSound
PROOF
  <1> SUFFICES ASSUME CacheInv PROVE CacheSound
    OBVIOUS
  <1>1. Cells(chain) = Places /\ Used(chain) = InUse
    BY DEF Cells, Places, Used, InUse, EntryAt
  <1>2. TypeOK
    <2>1. \A i \in DOMAIN queue : queue[i] \in Places
      BY <1>1 DEF CacheInv, Sized, Range
    <2> QED
      BY <2>1
      DEF CacheInv, Typed, StepTypes, CacheTypes, TimeTypes, ClassTypes, WriterTypes,
          LedgerTypes, Entry, TypeOK
  <1>3. QueueIsCache
    BY <1>1 DEF QueueIsCache, BetweenPurges, CacheInv, Phase, Filled, Once
  <1>4. OneEntryPerKey
    <2>1. Unique(chain)
      BY DEF CacheInv, Phase, Typed, StepTypes, Filled, Marked, Unique
    <2> QED
      BY <1>1, <2>1 DEF OneEntryPerKey, Unique, EntryAt, Same, Matches
  <1>5. PendingFits
    BY DEF PendingFits, CacheInv, Typed, LedgerTypes
  <1> QED
    BY <1>2, <1>3, <1>4, <1>5 DEF CacheSound

\* Whatever is received, whenever purges are due and entries find no room, and
\* wherever SIGINT cuts in: queries_queue lists what is in use once, a key and
\* timeslot has one entry, and what a purge sets aside finds room again - until the
\* node past the end of the scratch area is written over memory in use
\* (P_cache_attach_new_node()), where the plugin's behaviour ends.
THEOREM CacheIsSound == Spec => []CacheSound
PROOF
  <1>1. Spec => []CacheInv
    BY InitInv, StepInv, PTL DEF Spec
  <1> QED
    BY <1>1, InvSound, PTL
-----------------------------------------------------------------------------
(***************************************************************************)
(* Where the bytes are.  A sum over the cells of some places, and over the *)
(* entries of a sequence, of what each holds of a row.                     *)
(***************************************************************************)
Amount(e, r) == IF RowOf(e) = r THEN e.bytes ELSE 0
Amounts(c, r) == [p \in Cells(c) |-> Amount(c[p[1]][p[2]], r)]
Bytes(c, P, r) == SumFunctionOnSet(Amounts(c, r), P)
SeqAmounts(q, r) == [i \in DOMAIN q |-> Amount(q[i], r)]
SeqBytes(q, r) == SumFunctionOnSet(SeqAmounts(q, r), DOMAIN q)

\* the same, as BytesAt() and BytesIn() write it
RawBytes(c, P, r) ==
  SumFunction([p \in {p \in P : RowOf(c[p[1]][p[2]]) = r} |-> c[p[1]][p[2]].bytes])
RawSeqBytes(q, r) ==
  SumFunction([i \in {i \in DOMAIN q : RowOf(q[i]) = r} |-> q[i].bytes])

Comm(c) == {p \in Cells(c) : c[p[1]][p[2]].valid = "committed"}

InProgress ==
  pc \in {"insert", "safe"} \/ (pc \in {"marked", "forked", "flushed"} /\ urgent)

\* Committed entries wait for the writer, and are of timeslots that are due, as
\* what is set aside is not; a record under way has bytes.
Settling ==
  /\ pc \in {"idle", "insert", "safe", "flushed"} => Comm(chain) = {}
  /\ pc \in {"marked", "forked"} => Comm(chain) \subseteq Range(queue)
  /\ pc = "marked" => /\ \A p \in Comm(chain) : Due(chain[p[1]][p[2]])
                      /\ \A i \in DOMAIN container : ~Due(container[i])
  /\ InProgress => rec.bytes > 0

(***************************************************************************)
(* The accumulators of flows without a class, as long as nothing is mixed. *)
(***************************************************************************)
Zero(f) == [src |-> f[1], dst |-> f[2], class |-> 0]
Of(f, k) == k.src = f[1] /\ k.dst = f[2]

\* bytes of the record under way that its accumulator counts already
Ahead(f) == IF pc \in {"insert", "safe"} /\ rec.key = Zero(f) THEN rec.bytes ELSE 0

\* an entry of class zero is of a timeslot the accumulator spans
Traced(e) ==
  \A f \in Flows : e.key = Zero(f) /\ e.base > 0 /\ cls[f] = 0 => e.base \in accSlots[f]
Traces ==
  Classes # {0} =>
    /\ \A p \in Cells(chain) : Traced(chain[p[1]][p[2]])
    /\ \A i \in DOMAIN container : Traced(container[i])
    /\ InProgress => Traced(rec)

\* an entry in use has n bytes of a key and timeslot
InEntry(k, t, n) ==
  \E p \in Used(chain) : Matches(chain[p[1]][p[2]], k, t) /\ n <= chain[p[1]][p[2]].bytes

Accumulated ==
  /\ Classes = {0} => \A f \in Flows : acc[f] = 0
  /\ \A f \in Flows : /\ cls[f] # 0 => acc[f] = 0
                      /\ acc[f] > 0 => accSlots[f] # {}

\* what a fresh accumulator of one timeslot counts is in the entry of class zero
Backed ==
  pc \in {"idle", "insert", "safe"} /\ ~mixed =>
    \A f \in Flows, t \in Slots :
      cls[f] = 0 /\ fresh[f] /\ accSlots[f] = {t} /\ acc[f] > Ahead(f)
        => InEntry(Zero(f), t, acc[f] - Ahead(f))

\* the record under way, one call for it
Carried ==
  /\ InProgress =>
       /\ calls = <<KeepSrc>> /\ rec.base > 0
       /\ rec.key.class = 0 => rec.ba = 0
       /\ rec.key.class # 0 => \A f \in Flows : Of(f, rec.key) => cls[f] # 0
  /\ pc = "insert" /\ ~mixed /\ HasAccumulator(rec) /\ rec.ok =>
       \/ \A p \in Cells(chain) : ~Matches(chain[p[1]][p[2]], ZeroClass(rec), rec.base)
       \/ InEntry(ZeroClass(rec), rec.base, rec.ba)
  /\ pc = "flushed" /\ ~mixed =>
       /\ \A f \in Flows : fresh[f] => acc[f] = 0
       /\ urgent => rec.ba = 0

\* bytes received that are not in the cache yet
ToCome(r) ==
  IF InProgress /\ RowOf(rec) = r
  THEN rec.bytes + (IF pc = "insert" THEN 0 ELSE rec.ba) ELSE 0

Balanced ==
  ~mixed => \A r \in Rows : fed[r] = Held(r) + written[r] + lost[r] + ToCome(r)

-----------------------------------------------------------------------------
\* The cells of the chains: finitely many, each with an entry.
LEMMA CellsOf ==
  ASSUME NEW c \in Chains
  PROVE  /\ IsFiniteSet(Cells(c))
         /\ \A p \in Cells(c) : /\ p[1] \in Buckets /\ p[2] \in 1 .. Len(c[p[1]])
                                /\ p = <<p[1], p[2]>> /\ c[p[1]][p[2]] \in Entry
PROOF
  <1>1. IsFiniteSet(Cells(c))
    <2>1. IsFiniteSet(1 .. ScratchNodes + 1)
      BY CacheAssumption, FS_Interval
    <2>2. IsFiniteSet(Buckets \X (1 .. ScratchNodes + 1))
      BY <2>1, CacheAssumption, FS_Product
    <2> QED
      BY <2>2, FS_Subset DEF Cells
  <1>2. \A p \in Cells(c) : /\ p[1] \in Buckets /\ p[2] \in 1 .. Len(c[p[1]]) /\ p = <<p[1], p[2]>>
    BY LenProperties DEF Cells, Chains
  <1>3. \A p \in Cells(c) : c[p[1]][p[2]] \in Entry
    BY <1>2, ElementOfSeq DEF Chains
  <1> QED
    BY <1>1, <1>2, <1>3

\* What an entry holds of a row.
LEMMA AmountType == \A e \in Entry : \A r : Amount(e, r) \in Nat
PROOF
  BY DEF Amount, Entry

\* Sums over places: one place apart, and some places apart.
LEMMA BytesFacts ==
  ASSUME NEW c \in Chains, NEW P, P \subseteq Cells(c), NEW r
  PROVE  /\ Bytes(c, P, r) \in Nat /\ Bytes(c, {}, r) = 0
         /\ \A p \in P : Bytes(c, P, r) = Amount(c[p[1]][p[2]], r) + Bytes(c, P \ {p}, r)
         /\ \A Q \in SUBSET P : Bytes(c, P, r) = Bytes(c, Q, r) + Bytes(c, P \ Q, r)
PROOF
  <1> DEFINE g == Amounts(c, r)
  <1>1. \A p \in Cells(c) : g[p] = Amount(c[p[1]][p[2]], r) /\ g[p] \in Nat
    BY CellsOf, AmountType DEF Amounts
  <1>2. IsFiniteSet(P) /\ IsFiniteSet({})
    BY CellsOf, FS_Subset, FS_EmptySet
  <1>3. \A T : Bytes(c, T, r) = SumFunctionOnSet(g, T)
    BY DEF Bytes
  <1>6. \A p \in P : g[p] \in Int /\ g[p] \in Nat /\ g[p] = Amount(c[p[1]][p[2]], r)
    BY <1>1
  <1> HIDE DEF g
  <1>7. Bytes(c, P, r) \in Nat
    BY <1>2, <1>3, <1>6, SumType
  <1>8. Bytes(c, {}, r) = 0
    BY <1>2, <1>3, SumStep
  <1>9. \A p \in P : Bytes(c, P, r) = Amount(c[p[1]][p[2]], r) + Bytes(c, P \ {p}, r)
    <2> SUFFICES ASSUME NEW p \in P PROVE Bytes(c, P, r) = g[p] + Bytes(c, P \ {p}, r)
      BY <1>6
    <2> QED
      BY <1>2, <1>3, <1>6, SumRemove
  <1>10. \A R \in SUBSET P : Bytes(c, P, r) = Bytes(c, R, r) + Bytes(c, P \ R, r)
    BY <1>2, <1>3, <1>6, SumSplit
  <1> QED
    BY <1>7, <1>8, <1>9, <1>10

\* The bytes of the entries at some places that are of a row.
LEMMA BytesRaw ==
  ASSUME NEW c \in Chains, NEW P, P \subseteq Cells(c), NEW r
  PROVE  RawBytes(c, P, r) = Bytes(c, P, r)
PROOF
  <1> DEFINE g == Amounts(c, r)
             Q == {p \in P : RowOf(c[p[1]][p[2]]) = r}
             f == [p \in Q |-> c[p[1]][p[2]].bytes]
  <1>1. \A p \in Cells(c) : g[p] = Amount(c[p[1]][p[2]], r) /\ g[p] \in Nat
    BY CellsOf, AmountType DEF Amounts
  <1>2. IsFiniteSet(P)
    BY CellsOf, FS_Subset
  <1>3. RawBytes(c, P, r) = SumFunctionOnSet(f, Q)
    BY DEF SumFunction, RawBytes
  <1>4. /\ Q \in SUBSET P /\ \A p \in Q : f[p] = g[p]
        /\ \A p \in P \ Q : g[p] = 0
    BY <1>1 DEF Amount
  <1>5. \A p \in P : g[p] \in Int
    BY <1>1
  <1> HIDE DEF g, f, Q
  <1>6. SumFunctionOnSet(f, Q) = SumFunctionOnSet(g, P)
    BY <1>2, <1>4, <1>5, SumFiltered
  <1> QED
    BY <1>3, <1>6 DEF Bytes, g

\* Places that hold the same of a row in two chains.
LEMMA BytesSame ==
  ASSUME NEW c \in Chains, NEW d \in Chains, NEW P, P \subseteq Cells(c), P \subseteq Cells(d),
         NEW r, \A p \in P : Amount(d[p[1]][p[2]], r) = Amount(c[p[1]][p[2]], r)
  PROVE  Bytes(d, P, r) = Bytes(c, P, r)
PROOF
  <1> DEFINE f == Amounts(c, r)
             g == Amounts(d, r)
  <1>1. \A p \in P : f[p] = Amount(c[p[1]][p[2]], r) /\ g[p] = f[p] /\ f[p] \in Int
    BY CellsOf, AmountType DEF Amounts
  <1>2. IsFiniteSet(P)
    BY CellsOf, FS_Subset
  <1>3. Bytes(c, P, r) = SumFunctionOnSet(f, P) /\ Bytes(d, P, r) = SumFunctionOnSet(g, P)
    BY DEF Bytes
  <1> HIDE DEF f, g
  <1> QED
    BY <1>1, <1>2, <1>3, SumSame

\* Counting an entry in adds its bytes to its row.
LEMMA GrownBytes ==
  ASSUME NEW c \in Chains, NEW d \in Chains, NEW e \in Entry, e.valid = "inuse",
         Grown(c, d, e)
  PROVE  /\ \A r : Bytes(d, Used(d), r) = Bytes(c, Used(c), r) + Amount(e, r)
         /\ Comm(d) \subseteq Comm(c)
PROOF
  <1>1. PICK p \in Cells(d) :
          /\ \A u \in Cells(d) \ {p} : u \in Cells(c) /\ d[u[1]][u[2]] = c[u[1]][u[2]]
          /\ \/ /\ p \in Used(c) /\ Used(d) = Used(c) /\ Same(c[p[1]][p[2]], e)
                /\ d[p[1]][p[2]] = [c[p[1]][p[2]] EXCEPT !.bytes = @ + e.bytes]
             \/ p \notin Used(c) /\ Used(d) = Used(c) \cup {p} /\ d[p[1]][p[2]] = e
    BY DEF Grown
  <1>2. Used(c) \subseteq Cells(c) /\ Used(d) \subseteq Cells(d)
    BY DEF Used
  <1>3. p \in Used(d)
    BY <1>1
  <1> DEFINE P == Used(d) \ {p}
  <1>4. /\ P \subseteq Cells(c) /\ P \subseteq Cells(d) /\ P = Used(c) \ {p}
        /\ P = Used(d) \ {p}
    BY <1>1, <1>2
  <1> HIDE DEF P
  <1>5. ASSUME NEW r
        PROVE  Bytes(d, Used(d), r) = Bytes(c, Used(c), r) + Amount(e, r)
    <2>1. Bytes(d, P, r) = Bytes(c, P, r)
      <3>1. \A u \in P : Amount(d[u[1]][u[2]], r) = Amount(c[u[1]][u[2]], r)
        BY <1>1, <1>4
      <3> QED
        BY <1>4, <3>1, BytesSame
    <2>2. Bytes(d, Used(d), r) = Amount(d[p[1]][p[2]], r) + Bytes(d, P, r)
      BY <1>2, <1>3, <1>4, BytesFacts
    <2>3. Bytes(c, P, r) \in Nat /\ Amount(e, r) \in Nat
      BY <1>4, BytesFacts, AmountType
    <2>4. CASE /\ p \in Used(c) /\ Used(d) = Used(c) /\ Same(c[p[1]][p[2]], e)
               /\ d[p[1]][p[2]] = [c[p[1]][p[2]] EXCEPT !.bytes = @ + e.bytes]
      <3>1. Bytes(c, Used(c), r) = Amount(c[p[1]][p[2]], r) + Bytes(c, P, r)
        <4>1. Bytes(c, Used(c), r) = Amount(c[p[1]][p[2]], r) + Bytes(c, Used(c) \ {p}, r)
          BY <1>2, <2>4, BytesFacts
        <4> QED
          BY <1>4, <4>1
      <3>2. c[p[1]][p[2]] \in Entry
        BY <1>2, <2>4, CellsOf
      <3>3. Amount(d[p[1]][p[2]], r) = Amount(c[p[1]][p[2]], r) + Amount(e, r)
        BY <2>4, <3>2 DEF Amount, Same, RowOf, Entry
      <3>4. Amount(c[p[1]][p[2]], r) \in Nat
        BY <3>2, AmountType
      <3> QED
        BY <2>1, <2>2, <2>3, <3>1, <3>3, <3>4
    <2>5. CASE p \notin Used(c) /\ Used(d) = Used(c) \cup {p} /\ d[p[1]][p[2]] = e
      <3>1. P = Used(c)
        BY <1>4, <2>5
      <3> QED
        BY <2>1, <2>2, <2>3, <2>5, <3>1
    <2> QED
      BY <1>1, <2>4, <2>5
  <1>6. Comm(d) \subseteq Comm(c)
    <2>1. d[p[1]][p[2]].valid = "inuse"
      BY <1>3 DEF Used
    <2> QED
      BY <1>1, <2>1 DEF Comm
  <1> QED
    BY <1>5, <1>6

\* Sums over the entries of a sequence, the first entry apart.
LEMMA SeqBytesFacts ==
  ASSUME NEW q \in Seq(Entry), NEW r
  PROVE  /\ SeqBytes(q, r) \in Nat /\ RawSeqBytes(q, r) = SeqBytes(q, r)
         /\ q = << >> => SeqBytes(q, r) = 0
         /\ q # << >> => SeqBytes(q, r) = Amount(Head(q), r) + SeqBytes(Tail(q), r)
PROOF
  <1> DEFINE g == SeqAmounts(q, r)
             D == DOMAIN q
  <1>1. D = 1 .. Len(q) /\ Len(q) \in Nat /\ \A i \in D : q[i] \in Entry
    BY LenProperties, ElementOfSeq
  <1>2. \A i \in D : g[i] = Amount(q[i], r) /\ g[i] \in Nat /\ g[i] \in Int
    BY <1>1, AmountType DEF SeqAmounts
  <1>3. IsFiniteSet(D)
    BY <1>1, FS_Interval
  <1>4. SeqBytes(q, r) = SumFunctionOnSet(g, D)
    BY DEF SeqBytes
  <1>5. SeqBytes(q, r) \in Nat
    <2> HIDE DEF g, D
    <2> QED
      BY <1>2, <1>3, <1>4, SumType
  <1>6. RawSeqBytes(q, r) = SeqBytes(q, r)
    <2> DEFINE Q == {i \in D : RowOf(q[i]) = r}
               f == [i \in Q |-> q[i].bytes]
    <2>1. RawSeqBytes(q, r) = SumFunctionOnSet(f, Q)
      BY DEF SumFunction, RawSeqBytes
    <2>2. /\ Q \in SUBSET D /\ \A i \in Q : f[i] = g[i]
          /\ \A i \in D \ Q : g[i] = 0
      BY <1>2 DEF Amount
    <2> HIDE DEF g, D, Q, f
    <2>3. SumFunctionOnSet(f, Q) = SumFunctionOnSet(g, D)
      BY <1>2, <1>3, <2>2, SumFiltered
    <2> QED
      BY <1>4, <2>1, <2>3
  <1>7. ASSUME q = << >> PROVE SeqBytes(q, r) = 0
    <2>1. D = {}
      BY <1>7
    <2> HIDE DEF g, D
    <2> QED
      BY <1>3, <1>4, <2>1, SumStep
  <1>8. ASSUME q # << >>
        PROVE  SeqBytes(q, r) = Amount(Head(q), r) + SeqBytes(Tail(q), r)
    <2> DEFINE u == Tail(q)
               T == DOMAIN u
               f == SeqAmounts(u, r)
               h == [i \in T |-> i + 1]
               R == D \ {1}
    <2>1. /\ Head(q) = q[1] /\ u \in Seq(Entry) /\ Len(u) = Len(q) - 1
          /\ \A i \in 1 .. Len(u) : u[i] = q[i + 1]
      BY <1>8, HeadTailProperties
    <2>2. T = 1 .. Len(u) /\ Len(u) \in Nat
      BY <2>1, LenProperties
    <2>3. IsFiniteSet(T)
      BY <2>2, FS_Interval
    <2>4. \A i \in T : f[i] = Amount(u[i], r)
      BY DEF SeqAmounts
    <2>5. 1 \in D
      BY <1>1, <2>1, <2>2
    <2>6. \A i \in T : h[i] \in R /\ h[i] = i + 1
      BY <1>1, <2>1, <2>2
    <2>7. \A i \in T : f[i] = g[h[i]]
      BY <1>2, <2>1, <2>2, <2>4, <2>6
    <2>8. h \in Bijection(T, R)
      <3>1. \A i, j \in T : h[i] = h[j] => i = j
        BY <2>2, <2>6
      <3>2. \A j \in R : j - 1 \in T /\ h[j - 1] = j
        BY <1>1, <2>1, <2>2
      <3>3. h \in [T -> R]
        BY <2>6
      <3> HIDE DEF h, R, T
      <3> QED
        BY <3>1, <3>2, <3>3 DEF Bijection, Injection, Surjection, IsInjective
    <2>9. SeqBytes(u, r) = SumFunctionOnSet(f, T)
      BY DEF SeqBytes
    <2>10. \A i \in R : g[i] \in Int
      BY <1>2
    <2> HIDE DEF g, D, T, f, h, R, u
    <2>11. SumFunctionOnSet(f, T) = SumFunctionOnSet(g, R)
      BY <2>3, <2>7, <2>8, <2>10, SumRenumbered
    <2>12. SumFunctionOnSet(g, D) = g[1] + SumFunctionOnSet(g, D \ {1})
      BY <1>2, <1>3, <2>5, SumRemove
    <2>13. SumFunctionOnSet(g, D) = g[1] + SumFunctionOnSet(g, R)
      BY <2>12 DEF R
    <2> QED
      BY <1>2, <1>4, <2>1, <2>5, <2>9, <2>11, <2>13 DEF u
  <1> QED
    BY <1>5, <1>6, <1>7, <1>8

\* What is set aside holds what was held at its places.
LEMMA SetAsideBytes ==
  ASSUME CacheInv, Filled(chain, queue, saUsed), NEW r
  PROVE  SeqBytes(SetAside, r) = Bytes(chain, Range(Pending), r)
PROOF
  <1> DEFINE T == 1 .. Len(Pending)
             S == Range(Pending)
             f == Amounts(chain, r)
             g == SeqAmounts(SetAside, r)
  <1>1. chain \in Chains
    BY DEF CacheInv, Typed, CacheTypes, Chains
  <1>2. /\ Pending \in Seq(Places0) /\ S \subseteq Used(chain) /\ Once(Pending)
        /\ SetAside \in Seq(Entry) /\ Len(SetAside) = Len(Pending)
        /\ \A i \in T : SetAside[i] = chain[Pending[i][1]][Pending[i][2]]
    BY SetAsideIs DEF EntryAt
  <1>3. /\ Len(Pending) \in Nat /\ DOMAIN Pending = T /\ DOMAIN SetAside = T
        /\ Pending \in [T -> Places0]
    BY <1>2, LenProperties
  <1>4. S = {Pending[i] : i \in T}
    BY <1>3 DEF Range
  <1>5. Pending \in Bijection(T, S)
    BY <1>2, <1>3, <1>4 DEF Once, Bijection, Injection, Surjection, IsInjective
  <1>6. \A p \in S : f[p] = Amount(chain[p[1]][p[2]], r) /\ f[p] \in Int
    BY <1>1, <1>2, CellsOf, AmountType DEF Amounts, Used
  <1>7. \A i \in T : g[i] = f[Pending[i]]
    BY <1>2, <1>3, <1>4, <1>6 DEF SeqAmounts
  <1>8. IsFiniteSet(T)
    BY <1>3, FS_Interval
  <1> HIDE DEF T, S, f, g
  <1>9. SumFunctionOnSet(g, T) = SumFunctionOnSet(f, S)
    BY <1>5, <1>6, <1>7, <1>8, SumRenumbered
  <1> QED
    BY <1>3, <1>9 DEF SeqBytes, Bytes, f, g, S

-----------------------------------------------------------------------------
\* What the cache holds of a row, by step: Held() in terms of the sums.
HeldIn(at, c, q, r) ==
  Bytes(c, IF at = "marked" THEN Used(c) \cup Comm(c) ELSE Used(c), r) + SeqBytes(q, r)

\* Held before and after a step, by the cache's own state.
LEMMA HeldIs ==
  ASSUME CacheInv, CacheInv', NEW r
  PROVE  Held(r) = HeldIn(pc, chain, container, r)
         /\ Held(r)' = HeldIn(pc', chain', container', r)
PROOF
  <1>1. /\ chain \in Chains /\ chain' \in Chains
        /\ container \in Seq(Entry) /\ container' \in Seq(Entry)
    BY DEF CacheInv, Typed, CacheTypes, Chains
  <1>2. /\ InUse = Used(chain) /\ Committed = Comm(chain)
        /\ InUse' = Used(chain') /\ Committed' = Comm(chain')
    BY DEF InUse, Committed, Used, Comm, Places, Cells, EntryAt
  <1>3. \A P : BytesAt(P, r) = RawBytes(chain, P, r)
    BY DEF BytesAt, RawBytes, EntryAt
  <1>4. BytesIn(container, r) = RawSeqBytes(container, r)
        /\ BytesIn(container, r)' = RawSeqBytes(container', r)
    BY DEF BytesIn, RawSeqBytes
  <1>5. \A c \in Chains : Used(c) \subseteq Cells(c) /\ Comm(c) \subseteq Cells(c)
    BY DEF Used, Comm
  <1> DEFINE P == IF pc = "marked" THEN InUse \cup Committed ELSE InUse
  <1>6. P = IF pc = "marked" THEN Used(chain) \cup Comm(chain) ELSE Used(chain)
    BY <1>2
  <1>7. P' = IF pc' = "marked" THEN Used(chain') \cup Comm(chain') ELSE Used(chain')
    BY <1>2
  <1>8. BytesAt(P, r)' = RawBytes(chain', P', r)
    BY DEF BytesAt, RawBytes, EntryAt
  <1>9. Held(r) = BytesAt(P, r) + BytesIn(container, r)
        /\ Held(r)' = BytesAt(P, r)' + BytesIn(container, r)'
    BY DEF Held
  <1>10. P \subseteq Cells(chain) /\ P' \subseteq Cells(chain')
    BY <1>1, <1>5, <1>6, <1>7
  <1> HIDE DEF P
  <1>11. BytesAt(P, r) = Bytes(chain, P, r) /\ BytesAt(P, r)' = Bytes(chain', P', r)
    BY <1>1, <1>3, <1>8, <1>10, BytesRaw
  <1>12. BytesIn(container, r) = SeqBytes(container, r)
         /\ BytesIn(container, r)' = SeqBytes(container', r)
    BY <1>1, <1>4, SeqBytesFacts
  <1> QED
    BY <1>6, <1>7, <1>9, <1>11, <1>12 DEF HeldIn

-----------------------------------------------------------------------------
\* Taking an accumulator out: n bytes less are in use in its row, all of it if an
\* entry of class zero has as many; and only entries of class zero change.
LEMMA SubtractMoves ==
  ASSUME CacheInv, Filled(chain, queue, saUsed), NEW r0 \in Record,
         NEW ch, ch = SubtractAccumulator(r0)
  PROVE  /\ ch \in Chains /\ Cells(ch) = Cells(chain) /\ Used(ch) = Used(chain)
         /\ Comm(ch) = Comm(chain)
         /\ \A p \in Cells(chain) :
              /\ Same(ch[p[1]][p[2]], chain[p[1]][p[2]])
              /\ \/ ch[p[1]][p[2]] = chain[p[1]][p[2]]
                 \/ /\ HasAccumulator(r0)
                    /\ Matches(chain[p[1]][p[2]], ZeroClass(r0), r0.base)
         /\ \E n \in 0 .. r0.ba :
              /\ \A r : Bytes(chain, Used(chain), r)
                          = Bytes(ch, Used(ch), r) + (IF RowOf(r0) = r THEN n ELSE 0)
              /\ ~(HasAccumulator(r0) /\ Subtractable(r0)) => n = 0
              /\ /\ HasAccumulator(r0) /\ Subtractable(r0)
                 /\ InEntry(ZeroClass(r0), r0.base, r0.ba)
                 => n = r0.ba
PROOF
  <1> DEFINE k == ZeroClass(r0)
             t == r0.base
             b == Hash(k)
             i == Min(Stops(chain[b], k, t))
             p == <<b, i>>
  <1>1. chain \in Chains /\ r0.ba \in Nat
    BY DEF CacheInv, Typed, CacheTypes, Chains, Record
  <1>2. ch \in Chains /\ Alike(chain, ch) /\ Used(ch) = Used(chain)
    BY <1>1, SubtractAlike, SubtractKeeps
  <1>3. Used(chain) \subseteq Cells(chain)
    BY DEF Used
  <1>4. Cells(ch) = Cells(chain)
    BY <1>2 DEF Cells, Alike
  <1>5. \A u \in Cells(chain) : /\ u[1] \in Buckets /\ u[2] \in 1 .. Len(chain[u[1]])
                                /\ u = <<u[1], u[2]>> /\ chain[u[1]][u[2]] \in Entry
    BY <1>1, CellsOf
  <1>6. \A u \in Cells(chain) : /\ Same(ch[u[1]][u[2]], chain[u[1]][u[2]])
                                /\ ch[u[1]][u[2]].valid = chain[u[1]][u[2]].valid
    BY <1>2, <1>5 DEF Alike
  <1>7. Comm(ch) = Comm(chain)
    BY <1>4, <1>6 DEF Comm
  <1>8. CASE ~(HasAccumulator(r0) /\ Subtractable(r0))
    <2>1. ch = chain
      BY <1>8 DEF SubtractAccumulator
    <2>2. \A r : Bytes(chain, Used(chain), r) \in Nat
      BY <1>1, <1>3, BytesFacts
    <2>3. 0 \in 0 .. r0.ba
      BY <1>1
    <2>4. \A r : Bytes(chain, Used(chain), r)
                   = Bytes(ch, Used(ch), r) + (IF RowOf(r0) = r THEN 0 ELSE 0)
      BY <2>1, <2>2
    <2> QED
      BY <1>2, <1>4, <1>6, <1>7, <1>8, <2>1, <2>3, <2>4
  <1>9. CASE HasAccumulator(r0) /\ Subtractable(r0)
    <2>1. b \in Buckets
      BY CacheAssumption DEF ZeroClass, Record, Keys
    <2>2. Stops(chain[b], k, t) # {} /\ Matches(chain[b][i], k, t) /\ chain[b] \in Seq(Entry)
      BY <1>1, <1>9, <2>1 DEF Subtractable, Found, Chains
    <2>3. i \in 1 .. Len(chain[b])
      BY <2>2, StopsOf
    <2>4. p \in Cells(chain) /\ p[1] = b /\ p[2] = i
      <3>1. Len(chain[b]) \in 1 .. saUsed + 1 /\ saUsed \in 0 .. ScratchNodes /\ ScratchNodes \in Nat
        BY <2>1, CacheAssumption DEF CacheInv, Sized, Typed, CacheTypes
      <3>2. i \in 1 .. ScratchNodes + 1 /\ i <= Len(chain[b])
        BY <2>3, <3>1
      <3> QED
        BY <2>1, <3>2 DEF Cells
    <2> DEFINE old == chain[b][i].bytes
               m == Min({old, r0.ba})
    <2>5. chain[b][i] \in Entry /\ old \in Nat
      BY <1>5, <2>4 DEF Entry
    <2>6. m \in Nat /\ m <= old /\ m <= r0.ba /\ (r0.ba <= old => m = r0.ba)
      BY <1>1, <2>5, MinOfTwo
    <2> HIDE DEF m
    <2>7. old - m \in Nat
      BY <2>5, <2>6
    <2>8. ch = Counted(chain, b, i, old - m)
      BY <1>9 DEF SubtractAccumulator, Counted, m
    <2> HIDE DEF i, b, k, t, p, old
    <2>9. /\ ch[b][i] = [chain[b][i] EXCEPT !.bytes = old - m]
          /\ \A a \in Buckets : \A j \in 1 .. Len(chain[a]) :
               <<a, j>> # <<b, i>> => ch[a][j] = chain[a][j]
      BY <1>1, <2>1, <2>3, <2>7, <2>8, CounterAlike
    <2>10. \A u \in Cells(chain) : u # p => ch[u[1]][u[2]] = chain[u[1]][u[2]]
      BY <1>5, <2>9 DEF p
    <2>11. \A u \in Cells(chain) :
              /\ Same(ch[u[1]][u[2]], chain[u[1]][u[2]])
              /\ \/ ch[u[1]][u[2]] = chain[u[1]][u[2]]
                 \/ HasAccumulator(r0) /\ Matches(chain[u[1]][u[2]], k, t)
      BY <1>6, <1>9, <2>2, <2>4, <2>10
    <2>12. RowOf(chain[b][i]) = RowOf(r0)
      BY <2>2, <2>5 DEF Matches, RowOf, ZeroClass, Record, Keys, Entry, k, t
    <2>13. CASE p \in Used(chain)
      <3> DEFINE P == Used(chain) \ {p}
      <3>1. P \subseteq Cells(chain) /\ P \subseteq Cells(ch)
        BY <1>3, <1>4
      <3>2. ASSUME NEW r
            PROVE  Bytes(chain, Used(chain), r)
                     = Bytes(ch, Used(ch), r) + (IF RowOf(r0) = r THEN m ELSE 0)
        <4>1. Bytes(ch, P, r) = Bytes(chain, P, r)
          <5>1. \A u \in P : Amount(ch[u[1]][u[2]], r) = Amount(chain[u[1]][u[2]], r)
            BY <2>10, <3>1
          <5> HIDE DEF P
          <5> QED
            BY <1>1, <1>2, <3>1, <5>1, BytesSame
        <4>2. Bytes(chain, Used(chain), r) = Amount(chain[b][i], r) + Bytes(chain, P, r)
          BY <1>1, <1>3, <2>4, <2>13, BytesFacts
        <4>3. Bytes(ch, Used(ch), r) = Amount(ch[b][i], r) + Bytes(ch, P, r)
          <5>1. Bytes(ch, Used(chain), r)
                  = Amount(ch[p[1]][p[2]], r) + Bytes(ch, Used(chain) \ {p}, r)
            BY <1>2, <1>3, <1>4, <2>13, BytesFacts
          <5> QED
            BY <1>2, <2>4, <5>1
        <4>4. Bytes(chain, P, r) \in Nat
          BY <1>1, <3>1, BytesFacts
        <4>5. Amount(chain[b][i], r) = Amount(ch[b][i], r) + (IF RowOf(r0) = r THEN m ELSE 0)
          BY <2>5, <2>6, <2>9, <2>12 DEF Amount, RowOf, Entry, old
        <4>6. Amount(ch[b][i], r) \in Nat
          BY <1>2, <1>4, <2>4, CellsOf, AmountType
        <4> HIDE DEF P
        <4> QED
          BY <2>6, <4>1, <4>2, <4>3, <4>4, <4>5, <4>6
      <3>3. InEntry(k, t, r0.ba) => m = r0.ba
        <4> SUFFICES ASSUME InEntry(k, t, r0.ba) PROVE r0.ba <= old
          BY <2>6
        <4>1. PICK u \in Used(chain) :
                Matches(chain[u[1]][u[2]], k, t) /\ r0.ba <= chain[u[1]][u[2]].bytes
          BY DEF InEntry
        <4>2. u = p
          BY <2>2, <2>4, <2>13, <4>1 DEF Filled, Unique, Same, Matches
        <4> QED
          BY <2>4, <4>1, <4>2 DEF old
      <3>4. m \in 0 .. r0.ba
        BY <1>1, <2>6
      <3> QED
        BY <1>2, <1>4, <1>7, <1>9, <2>11, <3>2, <3>3, <3>4 DEF k, t
    <2>14. CASE p \notin Used(chain)
      <3>1. ASSUME NEW r
            PROVE  Bytes(chain, Used(chain), r)
                     = Bytes(ch, Used(ch), r) + (IF RowOf(r0) = r THEN 0 ELSE 0)
        <4>1. \A u \in Used(chain) : Amount(ch[u[1]][u[2]], r) = Amount(chain[u[1]][u[2]], r)
          BY <1>3, <2>10, <2>14
        <4>2. Bytes(ch, Used(chain), r) = Bytes(chain, Used(chain), r)
          BY <1>1, <1>2, <1>3, <1>4, <4>1, BytesSame
        <4>3. Bytes(chain, Used(chain), r) \in Nat
          BY <1>1, <1>3, BytesFacts
        <4> QED
          BY <1>2, <4>2, <4>3
      <3>2. ~InEntry(k, t, r0.ba)
        <4> SUFFICES ASSUME NEW u \in Used(chain), Matches(chain[u[1]][u[2]], k, t)
                     PROVE  FALSE
          BY DEF InEntry
        <4>1. u[1] = b
          BY <1>1, MetByWalk DEF Filled, b
        <4>2. chain[b][i].valid # "inuse"
          BY <2>4, <2>14 DEF Used
        <4>3. Len(chain[b]) = 1 /\ chain[b][1].valid # "inuse"
          BY <2>1, <2>3, <4>2 DEF Filled, Whole, Empty
        <4> QED
          BY <1>3, <1>5, <4>1, <4>3 DEF Used
      <3>3. 0 \in 0 .. r0.ba
        BY <1>1
      <3> QED
        BY <1>2, <1>4, <1>7, <1>9, <2>11, <3>1, <3>2, <3>3 DEF k, t
    <2> QED
      BY <2>13, <2>14
  <1> QED
    BY <1>8, <1>9

-----------------------------------------------------------------------------
\* Sums over what is in use and committed.
LEMMA CacheBytes ==
  ASSUME NEW c \in Chains
  PROVE  /\ Used(c) \subseteq Cells(c) /\ Comm(c) \subseteq Cells(c)
         /\ Used(c) \cap Comm(c) = {}
         /\ \A r : /\ Bytes(c, Used(c), r) \in Nat /\ Bytes(c, Comm(c), r) \in Nat
                   /\ Bytes(c, Used(c) \cup Comm(c), r)
                        = Bytes(c, Used(c), r) + Bytes(c, Comm(c), r)
                   /\ Used(c) = {} => Bytes(c, Used(c), r) = 0
                   /\ Comm(c) = {} => Bytes(c, Comm(c), r) = 0
PROOF
  <1>1. Used(c) \subseteq Cells(c) /\ Comm(c) \subseteq Cells(c)
    BY DEF Used, Comm
  <1>2. Used(c) \cap Comm(c) = {}
    BY DEF Used, Comm
  <1>3. ASSUME NEW r
        PROVE  /\ Bytes(c, Used(c), r) \in Nat /\ Bytes(c, Comm(c), r) \in Nat
               /\ Bytes(c, {}, r) = 0
    BY <1>1, BytesFacts
  <1>4. ASSUME NEW r
        PROVE  Bytes(c, Used(c) \cup Comm(c), r)
                 = Bytes(c, Used(c), r) + Bytes(c, Comm(c), r)
    <2>1. /\ Used(c) \cup Comm(c) \subseteq Cells(c)
          /\ Used(c) \in SUBSET (Used(c) \cup Comm(c))
          /\ (Used(c) \cup Comm(c)) \ Used(c) = Comm(c)
      BY <1>1, <1>2
    <2>2. Bytes(c, Used(c) \cup Comm(c), r) = Bytes(c, Used(c), r)
            + Bytes(c, (Used(c) \cup Comm(c)) \ Used(c), r)
      BY <2>1, BytesFacts
    <2> QED
      BY <2>1, <2>2
  <1> QED
    BY <1>1, <1>2, <1>3, <1>4

\* A record that comes, a writer that ends, the clock, the end of a purge and the
\* step past the scratch area move no entry.
LEMMA OtherMoves ==
  ASSUME CacheInv, CacheInv', Settling,
         \/ \E f \in Flows, c \in Classes, n \in Sizes, d \in Stamps :
              Receive(f, c, n, base + d)
         \/ WriterExit \/ UpdateTimeReference \/ PurgeDone \/ WriteBeyond
         \/ UNCHANGED vars
  PROVE  Settling' /\ \A r : Held(r)' = Held(r)
PROOF
  <1> DEFINE Idle ==
        /\ UNCHANGED <<chain, queue, container>>
        /\ (pc = "marked" <=> pc' = "marked") /\ (pc = "forked" <=> pc' = "forked")
        /\ (pc = "marked" => UNCHANGED timeVars)
        /\ (pc' = "flushed" \/ pc' \in {"idle", "insert", "safe"} =>
              pc \in {"idle", "insert", "safe", "flushed"})
  <1>1. Idle
    <2>1. ASSUME NEW f \in Flows, NEW c \in Classes, NEW n \in Sizes, NEW d \in Stamps,
                 Receive(f, c, n, base + d)
          PROVE  Idle
      BY <2>1 DEF Receive, cacheVars
    <2>2. CASE WriterExit \/ UpdateTimeReference \/ PurgeDone \/ UNCHANGED vars
      BY <2>2 DEF WriterExit, UpdateTimeReference, PurgeDone, vars, cacheVars
    <2>3. CASE WriteBeyond
      BY <2>3 DEF WriteBeyond, NeedsNode, cacheVars
    <2> QED
      BY <2>1, <2>2, <2>3
  <1>3. InProgress' => rec'.bytes > 0
    <2>1. ASSUME NEW f \in Flows, NEW c \in Classes, NEW n \in Sizes, NEW d \in Stamps,
                 Receive(f, c, n, base + d)
          PROVE  rec'.bytes > 0
      BY <2>1, CacheAssumption DEF Receive
    <2>2. CASE WriterExit \/ UpdateTimeReference \/ UNCHANGED vars
      BY <2>2 DEF WriterExit, UpdateTimeReference, vars, Settling, InProgress
    <2>3. CASE PurgeDone
      BY <2>3 DEF PurgeDone, Settling, InProgress, CacheInv, Typed, StepTypes
    <2>4. CASE WriteBeyond
      BY <2>4 DEF WriteBeyond, InProgress
    <2> QED
      BY <2>1, <2>2, <2>3, <2>4
  <1>4. Settling'
    BY <1>1, <1>3 DEF Settling, Due, CommitBase, timeVars
  <1>5. \A r : Held(r)' = Held(r)
    BY <1>1, HeldIs DEF HeldIn
  <1> QED
    BY <1>4, <1>5

\* Marking moves entries: out of use, to the writer's share or aside.
LEMMA MarkFlushMoves ==
  ASSUME CacheInv, CacheInv', Settling, MarkFlush
  PROVE  Settling' /\ \A r : Held(r)' = Held(r)
PROOF
  <1> DEFINE C == {p \in Range(queue) : Due(EntryAt(p))}
             D == {p \in Range(queue) : ~Due(EntryAt(p))}
  <1>1. /\ pc \in {"idle", "safe"} /\ pc' = "marked" /\ urgent' = (pc = "safe")
        /\ container' = SetAside /\ chain' = Revalidate(C)
        /\ UNCHANGED <<rec, calls, queue, saUsed, timeVars, classVars, writerVars,
                       ledgerVars, nrec>>
    BY DEF MarkFlush
  <1>2. /\ Filled(chain, queue, saUsed) /\ Sized(chain, queue, saUsed) /\ container = << >>
        /\ chain \in Chains /\ chain' \in Chains /\ Range(queue) = Used(chain)
        /\ Comm(chain) = {}
    BY <1>1 DEF CacheInv, Typed, CacheTypes, Chains, Phase, Filled, Settling
  <1>3. \A p \in Cells(chain) :
          /\ p[1] \in Buckets /\ p[2] \in 1 .. Len(chain[p[1]])
          /\ p = <<p[1], p[2]>> /\ chain[p[1]][p[2]] \in Entry
    BY <1>2, CellsOf
  <1>4. /\ Cells(chain') = Cells(chain) /\ Used(chain') = Used(chain) \ Range(queue)
        /\ \A b \in Buckets :
             \A i \in 1 .. Len(chain[b]) :
                /\ <<b, i>> \in Range(queue) =>
                     chain'[b][i] = [chain[b][i] EXCEPT !.valid =
                                       IF <<b, i>> \in C THEN "committed" ELSE "free"]
                /\ <<b, i>> \notin Range(queue) => chain'[b][i] = chain[b][i]
    BY <1>1, <1>2, RevalidateKeeps
  <1> HIDE DEF C, D
  <1>5. \A p \in Cells(chain) :
          /\ p \in Range(queue) =>
               chain'[p[1]][p[2]] = [chain[p[1]][p[2]] EXCEPT !.valid =
                                       IF p \in C THEN "committed" ELSE "free"]
          /\ p \notin Range(queue) => chain'[p[1]][p[2]] = chain[p[1]][p[2]]
    BY <1>3, <1>4
  <1>6. \A p \in Cells(chain) :
          /\ chain'[p[1]][p[2]].valid = "committed" <=> p \in C
          /\ Same(chain'[p[1]][p[2]], chain[p[1]][p[2]])
          /\ chain'[p[1]][p[2]].bytes = chain[p[1]][p[2]].bytes
    <2> SUFFICES ASSUME NEW p \in Cells(chain)
                 PROVE  /\ chain'[p[1]][p[2]].valid = "committed" <=> p \in C
                        /\ Same(chain'[p[1]][p[2]], chain[p[1]][p[2]])
                        /\ chain'[p[1]][p[2]].bytes = chain[p[1]][p[2]].bytes
      OBVIOUS
    <2>1. chain[p[1]][p[2]] \in Entry
      BY <1>3
    <2>2. CASE p \in Range(queue)
      BY <1>5, <2>1, <2>2 DEF Same, Entry
    <2>3. CASE p \notin Range(queue)
      BY <1>2, <1>5, <2>3 DEF Same, Comm, C
    <2> QED
      BY <2>2, <2>3
  <1>7. C \subseteq Used(chain) /\ D \subseteq Used(chain) /\ D = Used(chain) \ C
    BY <1>2 DEF C, D
  <1>8. Comm(chain') = C /\ Used(chain') = {}
    BY <1>2, <1>4, <1>6, <1>7, CacheBytes DEF Comm
  <1>9. /\ SetAside \in Seq(Entry) /\ Len(SetAside) = Len(Pending) /\ Range(Pending) = D
        /\ \A i \in 1 .. Len(Pending) : Pending[i] \in D /\ SetAside[i] = EntryAt(Pending[i])
    <2>1. DOMAIN Pending = 1 .. Len(Pending)
      BY <1>2, SetAsideIs, LenProperties
    <2> QED
      BY <1>2, <2>1, SetAsideIs DEF D, Range
  <1>10. Settling'
    <2>1. UNCHANGED <<base, newBase>>
      BY <1>1 DEF timeVars
    <2>2. (\A p \in Comm(chain) : Due(chain[p[1]][p[2]]))'
      <3>1. \A p \in C : Due(chain[p[1]][p[2]]) /\ p \in Cells(chain)
        BY <1>7, <1>2, CacheBytes DEF C, EntryAt
      <3> QED
        BY <1>6, <1>8, <2>1, <3>1 DEF Due, CommitBase, Same
    <2>3. (\A i \in DOMAIN container : ~Due(container[i]))'
      <3>1. DOMAIN container' = 1 .. Len(Pending)
        BY <1>1, <1>9, LenProperties
      <3>2. \A i \in 1 .. Len(Pending) : ~Due(SetAside[i])
        BY <1>9 DEF D
      <3> QED
        BY <1>1, <2>1, <3>1, <3>2 DEF Due, CommitBase
    <2>4. Comm(chain') \subseteq Range(queue')
      BY <1>1, <1>2, <1>7, <1>8
    <2>5. InProgress' => rec'.bytes > 0
      BY <1>1 DEF Settling, InProgress
    <2> QED
      BY <1>1, <2>2, <2>3, <2>4, <2>5 DEF Settling
  <1>11. ASSUME NEW r PROVE Held(r)' = Held(r)
    <2>s. /\ C \subseteq Cells(chain) /\ C \subseteq Cells(chain')
          /\ Used(chain) \subseteq Cells(chain) /\ C \in SUBSET Used(chain)
      BY <1>2, <1>4, <1>7, CacheBytes
    <2>1. Held(r) = Bytes(chain, Used(chain), r)
      <3>1. SeqBytes(container, r) = 0
        BY <1>2, SeqBytesFacts DEF CacheInv, Typed, CacheTypes
      <3>2. Bytes(chain, Used(chain), r) \in Nat
        BY <1>2, CacheBytes
      <3>3. Held(r) = Bytes(chain, Used(chain), r) + SeqBytes(container, r)
        BY <1>1, HeldIs DEF HeldIn
      <3> QED
        BY <3>1, <3>2, <3>3
    <2>2. Held(r)' = Bytes(chain', Used(chain') \cup Comm(chain'), r) + SeqBytes(SetAside, r)
      BY <1>1, HeldIs DEF HeldIn
    <2>3. Bytes(chain', C, r) = Bytes(chain, C, r)
      <3>1. \A p \in C : Amount(chain'[p[1]][p[2]], r) = Amount(chain[p[1]][p[2]], r)
        BY <1>6, <2>s DEF Amount, RowOf, Same
      <3> QED
        BY <1>2, <2>s, <3>1, BytesSame
    <2>4. Bytes(chain, Used(chain), r) = Bytes(chain, C, r) + Bytes(chain, D, r)
      <3>1. Bytes(chain, Used(chain), r) = Bytes(chain, C, r) + Bytes(chain, Used(chain) \ C, r)
        BY <1>2, <2>s, BytesFacts
      <3> QED
        BY <1>7, <3>1
    <2>5. SeqBytes(SetAside, r) = Bytes(chain, D, r)
      BY <1>2, <1>9, SetAsideBytes
    <2>6. Used(chain') \cup Comm(chain') = C
      BY <1>8
    <2> QED
      BY <2>1, <2>2, <2>3, <2>4, <2>5, <2>6
  <1> QED
    BY <1>10, <1>11

\* Where no entry holds anything of a row there is nothing of it.
LEMMA NoBytes ==
  ASSUME NEW c \in Chains, NEW P, P \subseteq Cells(c), NEW r,
         \A p \in P : Amount(c[p[1]][p[2]], r) = 0
  PROVE  Bytes(c, P, r) = 0
PROOF
  <1>1. IsFiniteSet(P) /\ \A p \in P : Amounts(c, r)[p] = 0
    BY CellsOf, FS_Subset DEF Amounts
  <1> QED
    BY <1>1, SumOfNone DEF Bytes

\* Likewise in a sequence of entries.
LEMMA NoSeqBytes ==
  ASSUME NEW q \in Seq(Entry), NEW r, \A i \in DOMAIN q : Amount(q[i], r) = 0
  PROVE  SeqBytes(q, r) = 0
PROOF
  <1>1. IsFiniteSet(DOMAIN q) /\ \A i \in DOMAIN q : SeqAmounts(q, r)[i] = 0
    BY LenProperties, FS_Interval DEF SeqAmounts
  <1> QED
    BY <1>1, SumOfNone DEF SeqBytes

\* The writer takes what is committed, or it is dropped: rows of it have nothing set
\* aside.
LEMMA ForkMoves ==
  ASSUME CacheInv, CacheInv', Settling, ForkWriter
  PROVE  /\ Settling'
         /\ \A r : /\ BytesAt(Committed, r) \in Nat /\ Held(r)' \in Nat
                   /\ Held(r) = Held(r)' + BytesAt(Committed, r)
                   /\ BytesAt(Committed, r) = 0 \/ Held(r)' = 0
PROOF
  <1>1. /\ pc = "marked" /\ pc' = "forked"
        /\ UNCHANGED <<urgent, rec, calls, chain, queue, container, saUsed, timeVars,
                       classVars, fed, pendLost, nrec>>
    BY DEF ForkWriter, cacheVars
  <1>2. /\ chain \in Chains /\ container \in Seq(Entry) /\ Used(chain) = {}
        /\ Comm(chain) \subseteq Cells(chain)
    BY <1>1, CacheBytes DEF CacheInv, Typed, CacheTypes, Chains, Phase, Marked
  <1>3. Settling'
    BY <1>1 DEF Settling, InProgress
  <1>4. ASSUME NEW r
        PROVE  /\ BytesAt(Committed, r) \in Nat /\ Held(r)' \in Nat
               /\ Held(r) = Held(r)' + BytesAt(Committed, r)
               /\ BytesAt(Committed, r) = 0 \/ Held(r)' = 0
    <2>1. BytesAt(Committed, r) = Bytes(chain, Comm(chain), r)
      <3>1. Committed = Comm(chain)
        BY DEF Committed, Comm, Places, Cells, EntryAt
      <3>2. BytesAt(Committed, r) = RawBytes(chain, Committed, r)
        BY DEF BytesAt, RawBytes, EntryAt
      <3> QED
        BY <1>2, <3>1, <3>2, BytesRaw
    <2>2. /\ Bytes(chain, Comm(chain), r) \in Nat /\ SeqBytes(container, r) \in Nat
          /\ Bytes(chain, Used(chain), r) = 0
      BY <1>2, CacheBytes, SeqBytesFacts
    <2>3. Held(r) = Bytes(chain, Comm(chain), r) + SeqBytes(container, r)
      <3>1. Held(r) = Bytes(chain, Used(chain) \cup Comm(chain), r) + SeqBytes(container, r)
        BY <1>1, HeldIs DEF HeldIn
      <3>2. Used(chain) \cup Comm(chain) = Comm(chain)
        BY <1>2
      <3> QED
        BY <3>1, <3>2
    <2>4. Held(r)' = SeqBytes(container, r)
      <3>1. Held(r)' = Bytes(chain, Used(chain), r) + SeqBytes(container, r)
        BY <1>1, HeldIs DEF HeldIn
      <3> QED
        BY <2>2, <3>1
    <2>5. ASSUME Bytes(chain, Comm(chain), r) # 0 PROVE SeqBytes(container, r) = 0
      <3>1. PICK p \in Comm(chain) : Amount(chain[p[1]][p[2]], r) # 0
        BY <1>2, <2>5, NoBytes
      <3>2. Due(chain[p[1]][p[2]]) /\ chain[p[1]][p[2]].base = r[2]
        BY <1>1, <3>1 DEF Settling, Amount, RowOf
      <3>3. \A i \in DOMAIN container : Amount(container[i], r) = 0
        BY <1>1, <3>2 DEF Settling, Amount, RowOf, Due
      <3> QED
        BY <1>2, <3>3, NoSeqBytes
    <2> QED
      BY <2>1, <2>2, <2>3, <2>4, <2>5
  <1> QED
    BY <1>3, <1>4

\* P_cache_flush() holds on to what is set aside.
LEMMA FlushMoves ==
  ASSUME CacheInv, CacheInv', Settling, Flush
  PROVE  Settling' /\ \A r : Held(r)' = Held(r)
PROOF
  <1>1. /\ pc = "forked" /\ pc' = "flushed" /\ UNCHANGED <<urgent, rec, container>>
        /\ queue' = << >>
        /\ chain' = [b \in Buckets |->
                       IF <<b, 1>> \in Range(queue)
                       THEN <<[chain[b][1] EXCEPT !.valid = "free"]>>
                       ELSE chain[b]]
    BY DEF Flush
  <1>2. /\ chain \in Chains /\ chain' \in Chains /\ Used(chain) = {}
        /\ Marked(chain, queue) /\ Sized(chain, queue, saUsed)
        /\ Comm(chain) \subseteq Range(queue)
    BY <1>1 DEF CacheInv, Typed, CacheTypes, Chains, Phase, Marked, Settling
  <1>3. ASSUME NEW p \in Cells(chain') PROVE chain'[p[1]][p[2]].valid = "free"
    <2>1. p[1] \in Buckets /\ p[2] \in 1 .. Len(chain'[p[1]]) /\ p = <<p[1], p[2]>>
      BY <1>2, CellsOf
    <2>2. CASE <<p[1], 1>> \in Range(queue)
      <3>1. chain'[p[1]] = <<[chain[p[1]][1] EXCEPT !.valid = "free"]>>
        BY <1>1, <2>1, <2>2
      <3>2. <<p[1], 1>> \in Cells(chain)
        BY <1>2, <2>2 DEF Sized
      <3>3. chain[p[1]][1] \in Entry
        BY <1>2, <3>2, CellsOf
      <3> DEFINE e == [chain[p[1]][1] EXCEPT !.valid = "free"]
      <3>4. e.valid = "free"
        BY <3>3 DEF Entry
      <3> HIDE DEF e
      <3>5. chain'[p[1]] = <<e>>
        BY <3>1 DEF e
      <3>6. p[2] = 1
        BY <2>1, <3>5
      <3> QED
        BY <3>4, <3>5, <3>6
    <2>3. CASE <<p[1], 1>> \notin Range(queue)
      <3>1. chain'[p[1]] = chain[p[1]] /\ Len(chain[p[1]]) = 1
        BY <1>1, <1>2, <2>1, <2>3 DEF Marked
      <3>2. p[2] = 1
        BY <2>1, <3>1
      <3>3. p \in Cells(chain)
        BY <2>1, <3>1, <3>2, CacheAssumption DEF Cells
      <3>4. chain[p[1]][p[2]] \in Entry
        BY <1>2, <3>3, CellsOf
      <3>5. p \notin Used(chain) /\ p \notin Comm(chain)
        BY <1>2, <2>1, <2>3, <3>2
      <3> QED
        BY <3>1, <3>3, <3>4, <3>5 DEF Used, Comm, Entry
    <2> QED
      BY <2>2, <2>3
  <1>4. Used(chain') = {} /\ Comm(chain') = {}
    BY <1>3 DEF Used, Comm
  <1>5. Settling'
    BY <1>1, <1>4 DEF Settling, InProgress
  <1>6. ASSUME NEW r PROVE Held(r)' = Held(r)
    <2>1. Bytes(chain, Used(chain), r) = 0 /\ Bytes(chain', Used(chain'), r) = 0
      BY <1>2, <1>4, CacheBytes
    <2>2. /\ Held(r) = Bytes(chain, Used(chain), r) + SeqBytes(container, r)
          /\ Held(r)' = Bytes(chain', Used(chain'), r) + SeqBytes(container, r)
      BY <1>1, HeldIs DEF HeldIn
    <2> QED
      BY <2>1, <2>2
  <1> QED
    BY <1>5, <1>6

\* Putting a pending entry back moves it into the cache.
LEMMA PendingMoves ==
  ASSUME CacheInv, CacheInv', Settling, InsertPending
  PROVE  Settling' /\ \A r : Held(r)' = Held(r)
PROOF
  <1> DEFINE e == [Head(container) EXCEPT !.valid = "inuse"]
  <1>1. /\ pc = "flushed" /\ pc' = "flushed" /\ container # << >>
        /\ UNCHANGED <<urgent, rec>>
    BY Zenon DEF InsertPending
  <1>2. container' = Tail(container) /\ Grown(chain, chain', e)
    BY InsertPendingInv
  <1>3. chain \in Chains /\ chain' \in Chains /\ container \in Seq(Entry)
    BY DEF CacheInv, Typed, CacheTypes, Chains
  <1>4. Head(container) \in Entry
    BY <1>1, <1>3, HeadTailProperties
  <1>5. /\ e \in Entry /\ e.valid = "inuse" /\ \A r : Amount(e, r) = Amount(Head(container), r)
    BY <1>4 DEF Entry, Amount, RowOf
  <1> HIDE DEF e
  <1>6. /\ \A r : Bytes(chain', Used(chain'), r) = Bytes(chain, Used(chain), r) + Amount(e, r)
        /\ Comm(chain') \subseteq Comm(chain)
    BY <1>2, <1>3, <1>5, GrownBytes
  <1>7. Settling'
    <2>1. Comm(chain) = {}
      BY <1>1 DEF Settling
    <2> QED
      BY <1>1, <1>6, <2>1 DEF Settling, InProgress
  <1>8. ASSUME NEW r PROVE Held(r)' = Held(r)
    <2>1. SeqBytes(container, r) = Amount(Head(container), r) + SeqBytes(Tail(container), r)
      BY <1>1, <1>3, SeqBytesFacts
    <2>2. /\ Held(r) = Bytes(chain, Used(chain), r) + SeqBytes(container, r)
          /\ Held(r)' = Bytes(chain', Used(chain'), r) + SeqBytes(container', r)
      BY <1>1, HeldIs DEF HeldIn
    <2>3. /\ Amount(Head(container), r) \in Nat /\ Bytes(chain, Used(chain), r) \in Nat
          /\ SeqBytes(Tail(container), r) \in Nat
      <3>1. Tail(container) \in Seq(Entry)
        BY <1>1, <1>3, HeadTailProperties
      <3> QED
        BY <1>3, <1>4, <3>1, AmountType, CacheBytes, SeqBytesFacts
    <2> QED
      BY <1>2, <1>5, <1>6, <2>1, <2>2, <2>3
  <1> QED
    BY <1>7, <1>8

-----------------------------------------------------------------------------
\* n bytes of an accumulator are taken out of the entry of class zero
Taken(r0, n) ==
  /\ n \in 0 .. r0.ba
  /\ ~(HasAccumulator(r0) /\ Subtractable(r0)) => n = 0
  /\ HasAccumulator(r0) /\ Subtractable(r0) /\ InEntry(ZeroClass(r0), r0.base, r0.ba)
       => n = r0.ba

InRow(r0, n, r) == IF RowOf(r0) = r THEN n ELSE 0

\* A record that is accounted is in the cache with its accumulator, which is out of
\* the entry of class zero.
LEMMA InsertMoves ==
  ASSUME CacheInv, CacheInv', Settling, Insert
  PROVE  /\ Settling' /\ CurrentRecord \in Record /\ rec' = KeepAccumulator(CurrentRecord)
         /\ \E n : /\ Taken(CurrentRecord, n)
                   /\ \A r : /\ Held(r) \in Nat /\ Held(r)' \in Nat
                             /\ Held(r) >= InRow(CurrentRecord, n, r)
                             /\ Held(r)' = Held(r) - InRow(CurrentRecord, n, r)
                                           + Amount(NewEntry(rec'), r)
PROOF
  <1> DEFINE r0 == CurrentRecord
             ch == SubtractAccumulator(r0)
             e == NewEntry(KeepAccumulator(r0))
  <1>1. /\ pc = "insert" /\ calls # << >> /\ pc' \in {"idle", "insert"}
        /\ rec' = KeepAccumulator(r0) /\ UNCHANGED <<urgent, container>>
    BY DEF Insert, CacheInv, Underway
  <1>2. /\ Filled(chain, queue, saUsed) /\ container = << >> /\ Comm(chain) = {}
        /\ chain \in Chains /\ chain' \in Chains
    BY <1>1 DEF CacheInv, Phase, Settling, Typed, CacheTypes, Chains
  <1>3. r0 \in Record /\ rec' \in Record /\ e \in Entry
    BY <1>1, RecordTypes DEF CacheInv, Typed
  <1>4. e.valid = "inuse" /\ Grown(ch, chain', e) /\ e = NewEntry(rec')
    BY <1>1, InsertFills DEF NewEntry
  <1>5. rec'.bytes = rec.bytes /\ rec.bytes > 0
    <2>1. rec \in Record /\ r0.bytes = rec.bytes
      BY DEF CacheInv, Typed, StepTypes, Record, CurrentRecord
    <2>2. KeepAccumulator(r0).bytes = r0.bytes
      BY <1>3 DEF KeepAccumulator, Record
    <2>3. rec.bytes > 0
      BY <1>1 DEF Settling, InProgress
    <2> QED
      BY <1>1, <2>1, <2>2, <2>3
  <1> HIDE DEF ch, e, r0
  <1>6. /\ ch \in Chains /\ Comm(ch) = Comm(chain)
        /\ \E n : /\ Taken(r0, n)
                  /\ \A r : Bytes(chain, Used(chain), r) = Bytes(ch, Used(ch), r) + InRow(r0, n, r)
    <2>1. /\ ch \in Chains /\ Comm(ch) = Comm(chain)
          /\ \E n \in 0 .. r0.ba :
               /\ \A r : Bytes(chain, Used(chain), r)
                           = Bytes(ch, Used(ch), r) + (IF RowOf(r0) = r THEN n ELSE 0)
               /\ ~(HasAccumulator(r0) /\ Subtractable(r0)) => n = 0
               /\ /\ HasAccumulator(r0) /\ Subtractable(r0)
                  /\ InEntry(ZeroClass(r0), r0.base, r0.ba)
                  => n = r0.ba
      BY <1>2, <1>3, SubtractMoves DEF ch
    <2> QED
      BY <2>1 DEF Taken, InRow
  <1>7. /\ \A r : Bytes(chain', Used(chain'), r) = Bytes(ch, Used(ch), r) + Amount(e, r)
        /\ Comm(chain') \subseteq Comm(ch)
    BY <1>2, <1>3, <1>4, <1>6, GrownBytes
  <1>8. Settling'
    BY <1>1, <1>2, <1>5, <1>6, <1>7 DEF Settling, InProgress
  <1>9. PICK n : /\ Taken(r0, n)
                 /\ \A r : Bytes(chain, Used(chain), r) = Bytes(ch, Used(ch), r) + InRow(r0, n, r)
    BY <1>6
  <1>10. ASSUME NEW r
         PROVE  /\ Held(r) \in Nat /\ Held(r)' \in Nat
                /\ Held(r) >= InRow(r0, n, r)
                /\ Held(r)' = Held(r) - InRow(r0, n, r) + Amount(e, r)
    <2>1. /\ Held(r) = Bytes(chain, Used(chain), r) + SeqBytes(container, r)
          /\ Held(r)' = Bytes(chain', Used(chain'), r) + SeqBytes(container, r)
      BY <1>1, HeldIs DEF HeldIn
    <2>2. SeqBytes(container, r) = 0
      BY <1>2, SeqBytesFacts DEF CacheInv, Typed, CacheTypes
    <2>3. Bytes(ch, Used(ch), r) \in Nat /\ Amount(e, r) \in Nat
      BY <1>3, <1>6, CacheBytes, AmountType
    <2>4. InRow(r0, n, r) \in Nat
      BY <1>9 DEF InRow, Taken
    <2> QED
      BY <1>7, <1>9, <2>1, <2>2, <2>3, <2>4
  <1>11. \A r : /\ Held(r) \in Nat /\ Held(r)' \in Nat
                /\ Held(r) >= InRow(r0, n, r)
                /\ Held(r)' = Held(r) - InRow(r0, n, r) + Amount(NewEntry(rec'), r)
    BY <1>4, <1>10
  <1> QED
    BY <1>1, <1>3, <1>8, <1>9, <1>11, SMTT(30) DEF r0

\* A record that finds the cache full leaves all but its accumulator as it is.
LEMMA FinishedMoves ==
  ASSUME CacheInv, CacheInv', Settling, FinishedEntries
  PROVE  /\ Settling' /\ CurrentRecord \in Record /\ rec' = KeepAccumulator(CurrentRecord)
         /\ \E n : /\ Taken(CurrentRecord, n)
                   /\ \A r : /\ Held(r) \in Nat /\ Held(r)' \in Nat
                             /\ Held(r) = Held(r)' + InRow(CurrentRecord, n, r)
PROOF
  <1> DEFINE r0 == CurrentRecord
             ch == SubtractAccumulator(r0)
  <1>1. /\ pc = "insert" /\ calls # << >> /\ pc' = "safe" /\ chain' = ch
        /\ rec' = KeepAccumulator(r0) /\ UNCHANGED <<urgent, container>>
    BY DEF FinishedEntries, CacheInv, Underway
  <1>2. /\ Filled(chain, queue, saUsed) /\ container = << >> /\ Comm(chain) = {}
        /\ chain \in Chains
    BY <1>1 DEF CacheInv, Phase, Settling, Typed, CacheTypes, Chains
  <1>3. r0 \in Record
    BY <1>1, RecordTypes DEF CacheInv, Typed
  <1>5. rec'.bytes = rec.bytes /\ rec.bytes > 0
    <2>1. rec \in Record /\ r0.bytes = rec.bytes
      BY DEF CacheInv, Typed, StepTypes, Record, CurrentRecord
    <2>2. KeepAccumulator(r0).bytes = r0.bytes
      BY <1>3 DEF KeepAccumulator, Record
    <2>3. rec.bytes > 0
      BY <1>1 DEF Settling, InProgress
    <2> QED
      BY <1>1, <2>1, <2>2, <2>3
  <1> HIDE DEF ch, r0
  <1>6. /\ ch \in Chains /\ Comm(ch) = Comm(chain)
        /\ \E n : /\ Taken(r0, n)
                  /\ \A r : Bytes(chain, Used(chain), r) = Bytes(ch, Used(ch), r) + InRow(r0, n, r)
    <2>1. /\ ch \in Chains /\ Comm(ch) = Comm(chain)
          /\ \E n \in 0 .. r0.ba :
               /\ \A r : Bytes(chain, Used(chain), r)
                           = Bytes(ch, Used(ch), r) + (IF RowOf(r0) = r THEN n ELSE 0)
               /\ ~(HasAccumulator(r0) /\ Subtractable(r0)) => n = 0
               /\ /\ HasAccumulator(r0) /\ Subtractable(r0)
                  /\ InEntry(ZeroClass(r0), r0.base, r0.ba)
                  => n = r0.ba
      BY <1>2, <1>3, SubtractMoves DEF ch
    <2> QED
      BY <2>1 DEF Taken, InRow
  <1>8. Settling'
    BY <1>1, <1>2, <1>5, <1>6 DEF Settling, InProgress
  <1>9. PICK n : /\ Taken(r0, n)
                 /\ \A r : Bytes(chain, Used(chain), r) = Bytes(ch, Used(ch), r) + InRow(r0, n, r)
    BY <1>6
  <1>10. ASSUME NEW r
         PROVE  Held(r) \in Nat /\ Held(r)' \in Nat /\ Held(r) = Held(r)' + InRow(r0, n, r)
    <2>1. /\ Held(r) = Bytes(chain, Used(chain), r) + SeqBytes(container, r)
          /\ Held(r)' = Bytes(ch, Used(ch), r) + SeqBytes(container, r)
      BY <1>1, HeldIs DEF HeldIn
    <2>2. SeqBytes(container, r) = 0
      BY <1>2, SeqBytesFacts DEF CacheInv, Typed, CacheTypes
    <2>3. Bytes(ch, Used(ch), r) \in Nat
      BY <1>6, CacheBytes
    <2>4. InRow(r0, n, r) \in Nat
      BY <1>9 DEF InRow, Taken
    <2> QED
      BY <1>9, <2>1, <2>2, <2>3, <2>4
  <1> QED
    BY <1>1, <1>3, <1>8, <1>9, <1>10 DEF r0

\* SIGINT between purges: all that is held is committed and goes with the exit.
LEMMA ExitMoves ==
  ASSUME CacheInv, CacheInv', Settling, ExitNow, pc \in {"idle", "insert", "safe"}
  PROVE  /\ Settling'
         /\ \A r : /\ Held(r) = BytesAt(Range(queue), r) /\ Held(r) \in Nat
                   /\ Held(r)' = 0
PROOF
  <1>1. /\ pc' = "exited" /\ chain' = Revalidate(Range(queue)) /\ UNCHANGED container
        /\ UNCHANGED urgent
    BY DEF ExitNow
  <1>2. /\ Range(queue) = Used(chain) /\ container = << >>
        /\ chain \in Chains /\ chain' \in Chains
    BY DEF CacheInv, Phase, Filled, Typed, CacheTypes, Chains
  <1>3. Used(chain') = {}
    BY <1>1, <1>2, RevalidateKeeps
  <1>4. Settling'
    BY <1>1 DEF Settling, InProgress
  <1>5. ASSUME NEW r
        PROVE  Held(r) = BytesAt(Range(queue), r) /\ Held(r) \in Nat /\ Held(r)' = 0
    <2>1. SeqBytes(container, r) = 0
      BY <1>2, SeqBytesFacts DEF CacheInv, Typed, CacheTypes
    <2>2. Held(r) = Bytes(chain, Used(chain), r) + 0
      BY <2>1, HeldIs DEF HeldIn
    <2>3. Held(r)' = Bytes(chain', Used(chain'), r) + 0
      BY <1>1, <2>1, HeldIs DEF HeldIn
    <2>4. Bytes(chain, Used(chain), r) \in Nat /\ Bytes(chain', Used(chain'), r) = 0
      BY <1>2, <1>3, CacheBytes
    <2>5. BytesAt(Range(queue), r) = Bytes(chain, Used(chain), r)
      <3>1. BytesAt(Range(queue), r) = RawBytes(chain, Used(chain), r)
        BY <1>2 DEF BytesAt, RawBytes, EntryAt
      <3>2. Used(chain) \subseteq Cells(chain)
        BY DEF Used
      <3>3. RawBytes(chain, Used(chain), r) = Bytes(chain, Used(chain), r)
        BY <1>2, <3>2, BytesRaw
      <3> QED
        BY <3>1, <3>3
    <2> QED
      BY <2>2, <2>3, <2>4, <2>5
  <1> QED
    BY <1>4, <1>5

-----------------------------------------------------------------------------
\* Nothing is held to begin with.
LEMMA InitHeld ==
  ASSUME Init
  PROVE  Settling /\ \A r : Held(r) = 0
PROOF
  <1>1. /\ pc = "idle" /\ container = << >> /\ chain \in Chains
        /\ \A b \in Buckets : chain[b] = <<FreeEntry>>
    BY InitInv DEF Init, CacheInv, Typed, CacheTypes, Chains
  <1>2. \A p \in Cells(chain) : chain[p[1]][p[2]].valid = "free"
    <2>1. \A p \in Cells(chain) : p[1] \in Buckets /\ p[2] \in 1 .. Len(chain[p[1]])
      BY <1>1, CellsOf
    <2> QED
      BY <1>1, <2>1 DEF FreeEntry
  <1>3. InUse = {} /\ Comm(chain) = {}
    <2>1. InUse = Used(chain)
      BY DEF InUse, Used, Places, Cells, EntryAt
    <2> QED
      BY <1>2, <2>1 DEF Used, Comm
  <1>4. Settling
    BY <1>1, <1>3 DEF Settling, InProgress
  <1>5. ASSUME NEW r PROVE Held(r) = 0
    <2>1. BytesAt({}, r) = 0
      <3>1. BytesAt({}, r) = RawBytes(chain, {}, r)
        BY DEF BytesAt, RawBytes, EntryAt
      <3> QED
        BY <1>1, <3>1, BytesRaw, BytesFacts
    <2>2. BytesIn(container, r) = 0
      <3>1. BytesIn(container, r) = RawSeqBytes(container, r)
        BY DEF BytesIn, RawSeqBytes
      <3>2. container \in Seq(Entry)
        BY <1>1
      <3> QED
        BY <1>1, <3>1, <3>2, SeqBytesFacts
    <2>3. Held(r) = BytesAt(InUse, r) + BytesIn(container, r)
      BY <1>1 DEF Held
    <2> QED
      BY <1>3, <2>1, <2>2, <2>3
  <1> QED
    BY <1>4, <1>5

(***************************************************************************)
(* The steps of the ledger, in terms of what is held of each row.          *)
(***************************************************************************)
LEMMA LedgerStutter ==
  ASSUME \A r \in Rows : Held(r)' = Held(r), UNCHANGED <<written, lost>>
  PROVE  UNCHANGED L!vars
PROOF
  <1>1. [r \in Rows |-> Held(r)]' = [r \in Rows |-> Held(r)]
    OBVIOUS
  <1> QED
    BY <1>1 DEF L!vars

\* More is held of one row.
LEMMA LedgerAccount ==
  ASSUME NEW k \in Rows, Held(k)' > Held(k),
         \A r \in Rows \ {k} : Held(r)' = Held(r), UNCHANGED <<written, lost>>
  PROVE  L!Next
PROOF
  <1>1. L!Account(k)
    BY DEF L!Account
  <1> QED
    BY <1>1 DEF L!Next

\* Of each row all that is held is written, or nothing of it.
LEMMA LedgerWrite ==
  ASSUME CacheInv, NEW P,
         \A r \in Rows : /\ Held(r) \in Nat /\ BytesAt(P, r) \in Nat /\ Held(r)' \in Nat
                         /\ Held(r) = Held(r)' + BytesAt(P, r)
                         /\ BytesAt(P, r) = 0 \/ Held(r)' = 0,
         written' = AddBytes(written, P), UNCHANGED lost
  PROVE  L!Next
PROOF
  <1>1. written \in [Rows -> Nat]
    BY DEF CacheInv, Typed, LedgerTypes
  <1>2. [r \in Rows |-> Held(r)]' = L!Clear([r \in Rows |-> Held(r)])
    BY DEF L!Clear, L!Settled
  <1>3. written' = L!AddHeld(written)
    <2>1. \A r \in Rows : written'[r] = L!AddHeld(written)[r]
      BY <1>1 DEF AddBytes, L!AddHeld, L!Settled
    <2> QED
      BY <2>1 DEF AddBytes, L!AddHeld
  <1>4. L!Write
    BY <1>2, <1>3 DEF L!Write
  <1> QED
    BY <1>4 DEF L!Next

\* Of each row all that is held is dropped, or nothing of it.
LEMMA LedgerDrop ==
  ASSUME CacheInv, NEW P,
         \A r \in Rows : /\ Held(r) \in Nat /\ BytesAt(P, r) \in Nat /\ Held(r)' \in Nat
                         /\ Held(r) = Held(r)' + BytesAt(P, r)
                         /\ BytesAt(P, r) = 0 \/ Held(r)' = 0,
         lost' = AddBytes(lost, P), UNCHANGED written
  PROVE  L!Next
PROOF
  <1>1. lost \in [Rows -> Nat]
    BY DEF CacheInv, Typed, LedgerTypes
  <1>2. [r \in Rows |-> Held(r)]' = L!Clear([r \in Rows |-> Held(r)])
    BY DEF L!Clear, L!Settled
  <1>3. lost' = L!AddHeld(lost)
    <2>1. \A r \in Rows : lost'[r] = L!AddHeld(lost)[r]
      BY <1>1 DEF AddBytes, L!AddHeld, L!Settled
    <2> QED
      BY <2>1 DEF AddBytes, L!AddHeld
  <1>4. L!Drop
    BY <1>2, <1>3 DEF L!Drop
  <1> QED
    BY <1>4 DEF L!Next

\* Without classes no accumulator is taken out.
LEMMA NothingTaken ==
  ASSUME Classes = {0}, NEW r0 \in Record, NEW n, Taken(r0, n)
  PROVE  n = 0
PROOF
  <1>1. r0.key.class = 0
    BY DEF Record, Keys
  <1> QED
    BY <1>1 DEF Taken, HasAccumulator

\* Every step of the cache is a step of the ledger or none.
LEMMA LedgerStep ==
  ASSUME Classes = {0}, ExitWindow \subseteq {"idle", "insert", "safe"},
         CacheInv, CacheInv', Settling, [Next]_vars
  PROVE  Settling' /\ [L!Next]_L!vars
PROOF
  <1> DEFINE Stutters == Settling' /\ (\A r : Held(r)' = Held(r)) /\ UNCHANGED <<written, lost>>
  <1>s. ASSUME Stutters PROVE Settling' /\ [L!Next]_L!vars
    BY <1>s, LedgerStutter
  <1>1. ASSUME \/ \E f \in Flows, c \in Classes, n \in Sizes, d \in Stamps :
                    Receive(f, c, n, base + d)
               \/ WriterExit \/ UpdateTimeReference \/ PurgeDone \/ WriteBeyond
               \/ UNCHANGED vars
        PROVE  Stutters
    <2>1. Settling' /\ \A r : Held(r)' = Held(r)
      BY <1>1, OtherMoves
    <2>2. UNCHANGED <<written, lost>>
      <3>1. CASE \E f \in Flows, c \in Classes, n \in Sizes, d \in Stamps :
                   Receive(f, c, n, base + d)
        BY <3>1 DEF Receive
      <3>2. CASE WriterExit
        BY <3>2 DEF WriterExit, ledgerVars
      <3>3. CASE UpdateTimeReference
        BY <3>3 DEF UpdateTimeReference, ledgerVars
      <3>4. CASE PurgeDone
        BY <3>4 DEF PurgeDone, ledgerVars
      <3>5. CASE UNCHANGED vars
        BY <3>5 DEF vars, ledgerVars
      <3>6. CASE WriteBeyond
        BY <3>6 DEF WriteBeyond, ledgerVars
      <3> QED
        BY <1>1, <3>1, <3>2, <3>3, <3>4, <3>5, <3>6
    <2> QED
      BY <2>1, <2>2
  <1>2. ASSUME MarkFlush \/ Flush PROVE Stutters
    BY <1>2, MarkFlushMoves, FlushMoves DEF MarkFlush, Flush, ledgerVars
  <1>3. ASSUME InsertPending PROVE Stutters
    <2>1. UNCHANGED <<written, lost>>
      BY <1>3, Zenon DEF InsertPending, CacheInv, Typed, LedgerTypes
    <2> QED
      BY <1>3, <2>1, PendingMoves
  <1>4. ASSUME FinishedEntries PROVE Stutters
    <2>1. Settling' /\ CurrentRecord \in Record
      BY <1>4, FinishedMoves
    <2>2. PICK n : /\ Taken(CurrentRecord, n)
                   /\ \A r : /\ Held(r) \in Nat /\ Held(r)' \in Nat
                             /\ Held(r) = Held(r)' + InRow(CurrentRecord, n, r)
      BY <1>4, FinishedMoves
    <2>3. n = 0
      BY <2>1, <2>2, NothingTaken
    <2>4. \A r : Held(r)' = Held(r)
      BY <2>2, <2>3 DEF InRow
    <2>5. UNCHANGED <<written, lost>>
      BY <1>4 DEF FinishedEntries, ledgerVars
    <2> QED
      BY <2>1, <2>4, <2>5
  <1>5. ASSUME Insert PROVE Settling' /\ [L!Next]_L!vars
    <2>1. Settling' /\ CurrentRecord \in Record /\ rec' = KeepAccumulator(CurrentRecord)
      BY <1>5, InsertMoves
    <2>2. PICK n : /\ Taken(CurrentRecord, n)
                   /\ \A r : /\ Held(r) \in Nat /\ Held(r)' \in Nat
                             /\ Held(r) >= InRow(CurrentRecord, n, r)
                             /\ Held(r)' = Held(r) - InRow(CurrentRecord, n, r)
                                           + Amount(NewEntry(rec'), r)
      BY <1>5, InsertMoves
    <2>3. n = 0
      BY <2>1, <2>2, NothingTaken
    <2>k. PICK k : k = RowOf(NewEntry(rec'))
      OBVIOUS
    <2>4. NewEntry(rec').bytes \in Nat /\ NewEntry(rec').bytes > 0
      <3>1. rec \in Record /\ CurrentRecord.bytes = rec.bytes /\ rec.bytes > 0
        <4>1. rec.bytes > 0
          BY <1>5 DEF Insert, Settling, InProgress
        <4> QED
          BY <4>1 DEF CacheInv, Typed, StepTypes, Record, CurrentRecord
      <3>2. rec'.bytes = CurrentRecord.bytes /\ rec' \in Record
        BY <2>1 DEF KeepAccumulator, Record
      <3> QED
        BY <3>1, <3>2 DEF NewEntry, Record
    <2>5. \A r : Held(r)' = Held(r) + (IF k = r THEN NewEntry(rec').bytes ELSE 0)
      BY <2>2, <2>3, <2>k DEF InRow, Amount
    <2>6. UNCHANGED <<written, lost>>
      BY <1>5 DEF Insert, ledgerVars
    <2>t. \A r : Held(r) \in Nat
      BY <2>2
    <2>7. CASE k \in Rows
      <3>1. Held(k)' > Held(k) /\ \A r \in Rows \ {k} : Held(r)' = Held(r)
        BY <2>4, <2>5, <2>t
      <3> QED
        BY <2>1, <2>6, <2>7, <3>1, LedgerAccount
    <2>8. CASE k \notin Rows
      <3>1. \A r \in Rows : Held(r)' = Held(r)
        BY <2>5, <2>8, <2>t
      <3> QED
        BY <2>1, <2>6, <3>1, LedgerStutter
    <2> QED
      BY <2>7, <2>8
  <1>6. ASSUME ForkWriter PROVE Settling' /\ [L!Next]_L!vars
    <2>1. /\ Settling'
          /\ \A r : /\ BytesAt(Committed, r) \in Nat /\ Held(r)' \in Nat
                    /\ Held(r) = Held(r)' + BytesAt(Committed, r)
                    /\ BytesAt(Committed, r) = 0 \/ Held(r)' = 0
      BY <1>6, ForkMoves
    <2> DEFINE P == Committed
    <2>2. \/ written' = AddBytes(written, P) /\ UNCHANGED lost
          \/ lost' = AddBytes(lost, P) /\ UNCHANGED written
      BY <1>6 DEF ForkWriter
    <2>3. \A r \in Rows : /\ Held(r) \in Nat /\ BytesAt(P, r) \in Nat /\ Held(r)' \in Nat
                          /\ Held(r) = Held(r)' + BytesAt(P, r)
                          /\ BytesAt(P, r) = 0 \/ Held(r)' = 0
      BY <2>1
    <2> HIDE DEF P
    <2> QED
      BY <2>1, <2>2, <2>3, LedgerWrite, LedgerDrop
  <1>7. ASSUME ExitNow PROVE Settling' /\ [L!Next]_L!vars
    <2>0. pc \in {"idle", "insert", "safe"}
      BY <1>7 DEF ExitNow
    <2>1. /\ Settling'
          /\ \A r : /\ Held(r) = BytesAt(Range(queue), r) /\ Held(r) \in Nat
                    /\ Held(r)' = 0
      BY <1>7, <2>0, ExitMoves
    <2> DEFINE P == Range(queue)
    <2>2. \/ written' = AddBytes(written, P) /\ UNCHANGED lost
          \/ lost' = AddBytes(lost, P) /\ UNCHANGED written
      BY <1>7 DEF ExitNow
    <2>3. \A r \in Rows : /\ Held(r) \in Nat /\ BytesAt(P, r) \in Nat /\ Held(r)' \in Nat
                          /\ Held(r) = Held(r)' + BytesAt(P, r)
                          /\ BytesAt(P, r) = 0 \/ Held(r)' = 0
      BY <2>1
    <2> HIDE DEF P
    <2> QED
      BY <2>1, <2>2, <2>3, LedgerWrite, LedgerDrop
  <1> HIDE DEF Stutters
  <1> QED
    BY <1>s, <1>1, <1>2, <1>3, <1>4, <1>5, <1>6, <1>7 DEF Next, PluginStep

\* The cache implements the ledger as long as there are no classes and SIGINT comes
\* outside of a purge: what P_cache_insert() accounts to a row stays with it through
\* P_cache_mark_flush(), P_cache_flush() and P_cache_insert_pending(), until all of
\* it goes to a writer at once, or is dropped at once (dump_writers_get_flags()
\* CHLD_ALERT, a failed fork()).
THEOREM LedgerImplemented ==
  ASSUME Classes = {0}, ExitWindow \subseteq {"idle", "insert", "safe"}
  PROVE  Spec => ImplementsLedger
PROOF
  <1>1. Init => CacheInv /\ Settling /\ L!Init
    <2> SUFFICES ASSUME Init PROVE CacheInv /\ Settling /\ L!Init
      OBVIOUS
    <2>1. Settling /\ \A r : Held(r) = 0
      BY InitHeld
    <2>2. L!Init
      BY <2>1 DEF L!Init, Init, ZeroRows
    <2> QED
      BY <2>1, <2>2, InitInv
  <1>2. CacheInv /\ Settling /\ [Next]_vars => CacheInv' /\ Settling' /\ [L!Next]_L!vars
    BY StepInv, LedgerStep, SMTT(30)
  <1> QED
    BY <1>1, <1>2, PTL DEF Spec, ImplementsLedger, L!Spec

-----------------------------------------------------------------------------
(***************************************************************************)
(* Conservation with classes: accumulators move from class zero to the     *)
(* class of the flow.                                                      *)
(***************************************************************************)

\* Counting an entry in: what is there before and after.
LEMMA GrownUsed ==
  ASSUME NEW c \in Chains, NEW d \in Chains, NEW e \in Entry, e.valid = "inuse",
         Grown(c, d, e)
  PROVE  /\ \A p \in Cells(d) : \/ p \in Cells(c) /\ d[p[1]][p[2]] = c[p[1]][p[2]]
                                \/ Same(d[p[1]][p[2]], e)
         /\ \A u \in Used(c) : /\ u \in Used(d) /\ Same(d[u[1]][u[2]], c[u[1]][u[2]])
                               /\ c[u[1]][u[2]].bytes <= d[u[1]][u[2]].bytes
         /\ \E p \in Used(d) :
              /\ Same(d[p[1]][p[2]], e) /\ e.bytes <= d[p[1]][p[2]].bytes
              /\ Unique(d) => \A u \in Used(c) :
                   Same(c[u[1]][u[2]], e)
                     => c[u[1]][u[2]].bytes + e.bytes <= d[p[1]][p[2]].bytes
PROOF
  <1>1. PICK p \in Cells(d) :
          /\ \A u \in Cells(d) \ {p} : u \in Cells(c) /\ d[u[1]][u[2]] = c[u[1]][u[2]]
          /\ \/ /\ p \in Used(c) /\ Used(d) = Used(c) /\ Same(c[p[1]][p[2]], e)
                /\ d[p[1]][p[2]] = [c[p[1]][p[2]] EXCEPT !.bytes = @ + e.bytes]
             \/ p \notin Used(c) /\ Used(d) = Used(c) \cup {p} /\ d[p[1]][p[2]] = e
    BY DEF Grown
  <1>2. /\ Used(c) \subseteq Cells(c) /\ Used(d) \subseteq Cells(d)
        /\ \A u \in Used(c) : c[u[1]][u[2]] \in Entry
    BY CellsOf DEF Used
  <1>3. e.bytes \in Nat /\ \A u \in Used(c) : c[u[1]][u[2]].bytes \in Nat
    BY <1>2, SMTT(30) DEF Entry
  <1>4. CASE /\ p \in Used(c) /\ Used(d) = Used(c) /\ Same(c[p[1]][p[2]], e)
             /\ d[p[1]][p[2]] = [c[p[1]][p[2]] EXCEPT !.bytes = @ + e.bytes]
    <2>1. /\ Same(d[p[1]][p[2]], c[p[1]][p[2]]) /\ Same(d[p[1]][p[2]], e)
          /\ d[p[1]][p[2]].bytes = c[p[1]][p[2]].bytes + e.bytes
      <3>1. c[p[1]][p[2]] \in Entry
        BY <1>2, <1>4
      <3> QED
        BY <1>4, <3>1 DEF Same, Entry
    <2>2. \A u \in Cells(d) : \/ u \in Cells(c) /\ d[u[1]][u[2]] = c[u[1]][u[2]]
                              \/ Same(d[u[1]][u[2]], e)
      BY <1>1, <2>1
    <2>3. \A u \in Used(c) : /\ u \in Used(d) /\ Same(d[u[1]][u[2]], c[u[1]][u[2]])
                             /\ c[u[1]][u[2]].bytes <= d[u[1]][u[2]].bytes
      <3> SUFFICES ASSUME NEW u \in Used(c)
                   PROVE  /\ u \in Used(d) /\ Same(d[u[1]][u[2]], c[u[1]][u[2]])
                          /\ c[u[1]][u[2]].bytes <= d[u[1]][u[2]].bytes
        OBVIOUS
      <3>1. CASE u = p
        <4>1. c[p[1]][p[2]].bytes <= d[p[1]][p[2]].bytes
          <5>1. c[p[1]][p[2]].bytes \in Nat
            BY <1>3, <1>4
          <5> QED
            BY <1>3, <2>1, <5>1
        <4> QED
          BY <1>4, <2>1, <3>1, <4>1
      <3>2. CASE u # p
        BY <1>1, <1>2, <1>3, <1>4, <3>2 DEF Same
      <3> QED
        BY <3>1, <3>2
    <2>4. p \in Used(d) /\ e.bytes <= d[p[1]][p[2]].bytes
      BY <1>3, <1>4, <2>1
    <2>5. ASSUME Unique(d), NEW u \in Used(c), Same(c[u[1]][u[2]], e)
          PROVE  c[u[1]][u[2]].bytes + e.bytes <= d[p[1]][p[2]].bytes
      <3>1. u = p
        BY <2>1, <2>3, <2>4, <2>5 DEF Unique, Same
      <3> QED
        BY <1>3, <2>1, <3>1, SMTT(30)
    <2> QED
      BY <2>1, <2>2, <2>3, <2>4, <2>5
  <1>5. CASE p \notin Used(c) /\ Used(d) = Used(c) \cup {p} /\ d[p[1]][p[2]] = e
    <2>1. \A u \in Cells(d) : \/ u \in Cells(c) /\ d[u[1]][u[2]] = c[u[1]][u[2]]
                              \/ Same(d[u[1]][u[2]], e)
      BY <1>1, <1>5 DEF Same
    <2>2. \A u \in Used(c) : u \in Used(d) /\ u # p /\ d[u[1]][u[2]] = c[u[1]][u[2]]
      BY <1>1, <1>2, <1>5
    <2>3. \A u \in Used(c) : /\ u \in Used(d) /\ Same(d[u[1]][u[2]], c[u[1]][u[2]])
                             /\ c[u[1]][u[2]].bytes <= d[u[1]][u[2]].bytes
      BY <1>3, <2>2 DEF Same
    <2>4. p \in Used(d) /\ Same(d[p[1]][p[2]], e) /\ e.bytes <= d[p[1]][p[2]].bytes
      BY <1>3, <1>5 DEF Same
    <2>5. ASSUME Unique(d), NEW u \in Used(c), Same(c[u[1]][u[2]], e) PROVE FALSE
      BY <1>5, <2>2, <2>4, <2>5 DEF Unique, Same
    <2> QED
      BY <2>1, <2>3, <2>4, <2>5
  <1> QED
    BY <1>1, <1>4, <1>5

\* What is of the key and timeslot of an entry, of one set aside or of the record
\* under way is traced.
Seen(e) ==
  \/ \E q \in Cells(chain) : Same(e, chain[q[1]][q[2]])
  \/ \E i \in DOMAIN container : Same(e, container[i])
  \/ InProgress /\ Same(e, rec)

\* What a step must keep for every entry to stay one that was seen.
LEMMA TracesKept ==
  ASSUME Traces, UNCHANGED <<cls, accSlots>>,
         \A p \in Cells(chain') : Seen(chain'[p[1]][p[2]]),
         \A i \in DOMAIN container' : Seen(container'[i]),
         InProgress' => Seen(rec')
  PROVE  Traces'
PROOF
  <1>1. ASSUME Classes # {0}, NEW e, Seen(e)
        PROVE  \A f \in Flows : e.key = Zero(f) /\ e.base > 0 /\ cls[f] = 0
                                  => e.base \in accSlots[f]
    BY <1>1 DEF Seen, Traces, Traced, Same
  <1>2. ASSUME Classes # {0}
        PROVE  /\ (\A p \in Cells(chain) : Traced(chain[p[1]][p[2]]))'
               /\ (\A i \in DOMAIN container : Traced(container[i]))'
               /\ (InProgress => Traced(rec))'
    <2>1. (\A p \in Cells(chain) : Traced(chain[p[1]][p[2]]))'
      BY <1>1, <1>2 DEF Traced
    <2>2. (\A i \in DOMAIN container : Traced(container[i]))'
      BY <1>1, <1>2 DEF Traced
    <2>3. (InProgress => Traced(rec))'
      BY <1>1, <1>2 DEF Traced
    <2> QED
      BY <2>1, <2>2, <2>3
  <1> QED
    BY <1>2 DEF Traces

\* What is held of a row is a number of bytes.
LEMMA HeldType ==
  ASSUME CacheInv, CacheInv', NEW r
  PROVE  Held(r) \in Nat /\ Held(r)' \in Nat
PROOF
  <1>1. /\ chain \in Chains /\ chain' \in Chains
        /\ container \in Seq(Entry) /\ container' \in Seq(Entry)
    BY DEF CacheInv, Typed, CacheTypes, Chains
  <1>2. ASSUME NEW at, NEW c \in Chains, NEW q \in Seq(Entry)
        PROVE  HeldIn(at, c, q, r) \in Nat
    <2>1. /\ Bytes(c, Used(c), r) \in Nat /\ Bytes(c, Comm(c), r) \in Nat
          /\ Bytes(c, Used(c) \cup Comm(c), r) = Bytes(c, Used(c), r) + Bytes(c, Comm(c), r)
          /\ SeqBytes(q, r) \in Nat
      BY CacheBytes, SeqBytesFacts
    <2> QED
      BY <2>1 DEF HeldIn
  <1> QED
    BY <1>1, <1>2, HeldIs

\* The same of one state.
LEMMA HeldNow ==
  ASSUME CacheInv, NEW r
  PROVE  Held(r) \in Nat
PROOF
  <1>1. chain \in Chains /\ container \in Seq(Entry)
    BY DEF CacheInv, Typed, CacheTypes, Chains
  <1> DEFINE P == IF pc = "marked" THEN InUse \cup Committed ELSE InUse
  <1>2. InUse \subseteq Cells(chain) /\ Committed \subseteq Cells(chain)
    BY DEF InUse, Committed, Places, Cells
  <1>3. P \subseteq Cells(chain)
    BY <1>2
  <1>4. Held(r) = BytesAt(P, r) + BytesIn(container, r)
    BY DEF Held
  <1> HIDE DEF P
  <1>5. BytesAt(P, r) \in Nat
    BY <1>1, <1>3, BytesType
  <1>6. BytesIn(container, r) \in Nat
    <2>1. BytesIn(container, r) = RawSeqBytes(container, r)
      BY DEF BytesIn, RawSeqBytes
    <2> QED
      BY <1>1, <2>1, SeqBytesFacts
  <1> QED
    BY <1>4, <1>5, <1>6

Tracking == Accumulated /\ Traces /\ Backed /\ Carried /\ Balanced

\* The one call for a record takes it as it is.
LEMMA CurrentIs ==
  ASSUME CacheInv, Carried, pc = "insert"
  PROVE  /\ CurrentRecord = rec /\ calls = <<KeepSrc>> /\ rec.base > 0 /\ rec \in Record
         /\ Tail(calls) = << >> /\ Len(calls) = 1
PROOF
  <1>1. calls = <<KeepSrc>> /\ rec.base > 0
    BY DEF Carried, InProgress
  <1>2. rec \in Record
    BY DEF CacheInv, Typed, StepTypes, Record
  <1> QED
    BY <1>1, <1>2 DEF CurrentRecord

\* Unless accumulators are mixed, what is taken out of the entry of class zero is
\* what the record brings along.
LEMMA TakenAll ==
  ASSUME CacheInv, Carried, pc = "insert", ~mixed, NEW n, Taken(rec, n)
  PROVE  KeepAccumulator(rec) \in Record /\ KeepAccumulator(rec).ba = n
         /\ KeepAccumulator(rec).bytes = rec.bytes /\ KeepAccumulator(rec).key = rec.key
         /\ KeepAccumulator(rec).base = rec.base
PROOF
  <1>1. /\ rec \in Record /\ (rec.key.class = 0 => rec.ba = 0)
        /\ HasAccumulator(rec) /\ rec.ok =>
             \/ \A p \in Cells(chain) : ~Matches(chain[p[1]][p[2]], ZeroClass(rec), rec.base)
             \/ InEntry(ZeroClass(rec), rec.base, rec.ba)
    BY CurrentIs DEF Carried, InProgress
  <1>2. /\ KeepAccumulator(rec) \in Record
        /\ KeepAccumulator(rec).bytes = rec.bytes /\ KeepAccumulator(rec).key = rec.key
        /\ KeepAccumulator(rec).base = rec.base
        /\ KeepAccumulator(rec).ba = IF HasAccumulator(rec) /\ ~Subtractable(rec) THEN 0
                                     ELSE rec.ba
    BY <1>1 DEF KeepAccumulator, Record
  <1>3. CASE ~HasAccumulator(rec)
    <2>1. rec.ba = 0
      BY <1>1, <1>3 DEF HasAccumulator, Record
    <2> QED
      BY <1>2, <1>3, <2>1 DEF Taken
  <1>4. CASE HasAccumulator(rec) /\ ~Subtractable(rec)
    BY <1>2, <1>4 DEF Taken
  <1>5. CASE HasAccumulator(rec) /\ Subtractable(rec)
    <2> DEFINE b == Hash(ZeroClass(rec))
               S == Stops(chain[b], ZeroClass(rec), rec.base)
               i == Min(S)
    <2>1. b \in Buckets /\ chain \in Chains
      BY <1>1, CacheAssumption
      DEF ZeroClass, Record, Keys, CacheInv, Typed, CacheTypes, Chains
    <2>2. rec.ok /\ S # {} /\ Matches(chain[b][i], ZeroClass(rec), rec.base)
          /\ chain[b] \in Seq(Entry)
      BY <1>5, <2>1 DEF Subtractable, Found, Chains
    <2>3. i \in 1 .. Len(chain[b])
      BY <2>2, StopsOf
    <2>4. <<b, i>> \in Cells(chain)
      <3>1. Len(chain[b]) \in 1 .. saUsed + 1 /\ saUsed \in 0 .. ScratchNodes /\ ScratchNodes \in Nat
        BY <2>1, CacheAssumption DEF CacheInv, Sized, Typed, CacheTypes
      <3>2. i \in 1 .. ScratchNodes + 1 /\ i <= Len(chain[b])
        BY <2>3, <3>1
      <3> QED
        BY <2>1, <3>2 DEF Cells
    <2> HIDE DEF b, i, S
    <2>5. InEntry(ZeroClass(rec), rec.base, rec.ba)
      <3> DEFINE p == <<b, i>>
      <3>1. p \in Cells(chain) /\ p[1] = b /\ p[2] = i
        BY <2>4
      <3> HIDE DEF p
      <3>2. Matches(chain[p[1]][p[2]], ZeroClass(rec), rec.base)
        BY <2>2, <3>1
      <3> QED
        BY <1>1, <1>5, <2>2, <3>1, <3>2
    <2> QED
      BY <1>2, <1>5, <2>5 DEF Taken
  <1> QED
    BY <1>3, <1>4, <1>5

\* A record that comes brings its accumulator along, or adds to it.
LEMMA ReceiveTracks ==
  ASSUME ~SumHosts, CacheInv, CacheInv', Settling, Tracking,
         NEW f \in Flows, NEW c \in Classes, NEW n \in Sizes, NEW d \in Stamps,
         Receive(f, c, n, base + d)
  PROVE  Tracking'
PROOF
  <1>k. PICK t : t = base + d
    OBVIOUS
  <1> DEFINE key == [src |-> f[1], dst |-> f[2], class |-> c]
  <1>1. /\ pc = "idle" /\ pc' = "insert" /\ t \in Slots /\ (cls[f] # 0 => c = cls[f])
        /\ rec' = [key |-> key, base |-> t, bytes |-> n,
                   ba |-> IF c = 0 THEN 0 ELSE acc[f], ok |-> fresh[f]]
        /\ calls' = <<KeepSrc>>
        /\ fed' = [r \in Rows |-> IF r \in {<<f, t>>} THEN fed[r] + n ELSE fed[r]]
        /\ HandleClassAccumulators(f, c, n, t)
        /\ UNCHANGED <<chain, container, written, lost, urgent>>
    BY <1>k DEF Receive, ClearDst, InsertFunc, cacheVars
  <1>2. n \in Nat /\ n > 0 /\ t \in Nat /\ t > 0 /\ f = <<f[1], f[2]>>
        /\ \A g \in Flows : g = <<g[1], g[2]>>
    BY <1>1, CacheAssumption DEF Slots
  <1>3. /\ acc \in [Flows -> Nat] /\ fresh \in [Flows -> BOOLEAN]
        /\ cls \in [Flows -> Classes] /\ accSlots \in [Flows -> SUBSET Slots]
        /\ mixed \in BOOLEAN /\ fed \in [Rows -> Nat] /\ chain \in Chains
    BY DEF CacheInv, Typed, ClassTypes, LedgerTypes, CacheTypes, Chains
  <1>4. /\ rec'.key = key /\ rec'.base = t /\ rec'.bytes = n /\ rec'.ok = fresh[f]
        /\ rec'.ba = (IF c = 0 THEN 0 ELSE acc[f])
        /\ key.src = f[1] /\ key.dst = f[2] /\ key.class = c
    BY <1>1
  <1>5. ~InProgress /\ InProgress' /\ \A g \in Flows : Ahead(g) = 0
    BY <1>1 DEF InProgress, Ahead
  <1>6. \A g \in Flows : (key = Zero(g)) <=> (g = f /\ c = 0)
    BY <1>2 DEF Zero
  <1>7. \A g \in Flows : Of(g, key) => g = f
    BY <1>2, <1>4 DEF Of
  <1>8. \A g \in Flows : Ahead(g)' = (IF g = f /\ c = 0 THEN n ELSE 0)
    BY <1>1, <1>4, <1>6 DEF Ahead, Zero
  <1>9. c = 0 => cls[f] = 0
    BY <1>1
  <1> HIDE DEF key
  <1>a. /\ Accumulated /\ Traces /\ Backed /\ Carried /\ Balanced
    BY DEF Tracking
  <1>10. \/ Classes = {0} /\ UNCHANGED classVars
         \/ /\ Classes # {0} /\ c = 0 /\ UNCHANGED <<cls, mixed>>
            /\ acc' = [acc EXCEPT ![f] = @ + n]
            /\ fresh' = [fresh EXCEPT ![f] = acc[f] = 0 \/ @]
            /\ accSlots' = [accSlots EXCEPT ![f] = @ \cup {t}]
         \/ /\ c # 0 /\ acc' = [acc EXCEPT ![f] = 0] /\ cls' = [cls EXCEPT ![f] = c]
            /\ accSlots' = [accSlots EXCEPT ![f] = {}] /\ UNCHANGED fresh
            /\ mixed' = (mixed \/ (t \in accSlots[f] /\ accSlots[f] # {t}))
    BY <1>1 DEF HandleClassAccumulators
  <1>11. Accumulated'
    <2>1. CASE Classes = {0} /\ UNCHANGED classVars
      BY <1>a, <2>1 DEF Accumulated, classVars
    <2>2. CASE /\ Classes # {0} /\ c = 0 /\ UNCHANGED <<cls, mixed>>
               /\ acc' = [acc EXCEPT ![f] = @ + n]
               /\ fresh' = [fresh EXCEPT ![f] = acc[f] = 0 \/ @]
               /\ accSlots' = [accSlots EXCEPT ![f] = @ \cup {t}]
      BY <1>3, <1>9, <1>a, <2>2 DEF Accumulated
    <2>3. CASE /\ c # 0 /\ acc' = [acc EXCEPT ![f] = 0] /\ cls' = [cls EXCEPT ![f] = c]
               /\ accSlots' = [accSlots EXCEPT ![f] = {}] /\ UNCHANGED fresh
               /\ mixed' = (mixed \/ (t \in accSlots[f] /\ accSlots[f] # {t}))
      BY <1>3, <1>a, <2>3 DEF Accumulated
    <2> QED
      BY <1>10, <2>1, <2>2, <2>3
  <1>12. Traces'
    <2> SUFFICES ASSUME Classes # {0} PROVE Traces'
      BY DEF Traces
    <2>0. \A g \in Flows : cls'[g] = 0 => cls[g] = 0 /\ accSlots[g] \subseteq accSlots'[g]
      BY <1>3, <1>10 DEF classVars
    <2>1. (\A p \in Cells(chain) : Traced(chain[p[1]][p[2]]))'
      BY <1>1, <1>a, <2>0 DEF Traces, Traced
    <2>2. (\A i \in DOMAIN container : Traced(container[i]))'
      BY <1>1, <1>a, <2>0 DEF Traces, Traced
    <2>3. Traced(rec)'
      <3>1. c = 0 => t \in accSlots'[f]
        BY <1>3, <1>10
      <3> QED
        BY <1>4, <1>6, <3>1 DEF Traced
    <2> QED
      BY <2>1, <2>2, <2>3 DEF Traces
  <1>13. Backed'
    <2> SUFFICES ASSUME ~mixed', NEW g \in Flows, NEW s \in Slots,
                        cls'[g] = 0, fresh'[g], accSlots'[g] = {s}, acc'[g] > Ahead(g)'
                 PROVE  InEntry(Zero(g), s, acc[g] - Ahead(g))'
      BY DEF Backed, Zero
    <2>0. ~mixed
      BY <1>10 DEF classVars
    <2>1. acc'[g] - Ahead(g)' = acc[g] /\ cls[g] = 0 /\ fresh[g] /\ accSlots[g] = {s} /\ acc[g] > 0
      <3>1. CASE Classes = {0} /\ UNCHANGED classVars
        <4>1. acc'[g] = 0
          BY <1>a, <3>1 DEF Accumulated, classVars
        <4> QED
          BY <1>2, <1>8, <4>1
      <3>2. CASE /\ Classes # {0} /\ c = 0 /\ UNCHANGED <<cls, mixed>>
                 /\ acc' = [acc EXCEPT ![f] = @ + n]
                 /\ fresh' = [fresh EXCEPT ![f] = acc[f] = 0 \/ @]
                 /\ accSlots' = [accSlots EXCEPT ![f] = @ \cup {t}]
        <4>1. CASE g = f
          <5>1. acc'[f] = acc[f] + n /\ Ahead(f)' = n /\ acc[f] \in Nat
            BY <1>3, <1>8, <3>2
          <5>2. acc[f] > 0 /\ acc'[f] - Ahead(f)' = acc[f]
            BY <1>2, <4>1, <5>1
          <5>3. accSlots[f] # {} /\ accSlots'[f] = accSlots[f] \cup {t} /\ accSlots[f] \subseteq {s}
            BY <1>3, <1>a, <3>2, <4>1, <5>2 DEF Accumulated
          <5>4. fresh[f] /\ cls[f] = 0
            BY <1>3, <1>9, <3>2, <4>1, <5>2
          <5> QED
            BY <4>1, <5>2, <5>3, <5>4
        <4>2. CASE g # f
          <5>1. Ahead(g)' = 0 /\ acc'[g] = acc[g] /\ acc[g] \in Nat
            BY <1>3, <1>8, <3>2, <4>2
          <5>2. acc'[g] - Ahead(g)' = acc[g] /\ acc[g] > 0
            BY <5>1
          <5> QED
            BY <1>3, <3>2, <4>2, <5>2
        <4> QED
          BY <4>1, <4>2
      <3>3. CASE /\ c # 0 /\ acc' = [acc EXCEPT ![f] = 0] /\ cls' = [cls EXCEPT ![f] = c]
                 /\ accSlots' = [accSlots EXCEPT ![f] = {}] /\ UNCHANGED fresh
                 /\ mixed' = (mixed \/ (t \in accSlots[f] /\ accSlots[f] # {t}))
        <4>1. g # f
          BY <1>3, <3>3
        <4>2. Ahead(g)' = 0 /\ acc'[g] = acc[g] /\ acc[g] \in Nat
          BY <1>3, <1>8, <3>3, <4>1
        <4>3. acc'[g] - Ahead(g)' = acc[g] /\ acc[g] > 0
          BY <4>2
        <4> QED
          BY <1>3, <3>3, <4>1, <4>3
      <3> QED
        BY <1>10, <3>1, <3>2, <3>3
    <2>2. acc[g] > Ahead(g) /\ acc[g] - Ahead(g) = acc[g]
      BY <1>3, <1>5, <2>1
    <2>3. InEntry(Zero(g), s, acc[g])
      BY <1>1, <1>a, <2>0, <2>1, <2>2 DEF Backed
    <2>4. PICK m : m = acc[g]
      OBVIOUS
    <2>5. InEntry(Zero(g), s, m)'
      BY <1>1, <2>3, <2>4 DEF InEntry, Zero
    <2> QED
      BY <2>1, <2>4, <2>5 DEF InEntry, Zero
  <1>14. Carried'
    <2>1. /\ calls' = <<KeepSrc>> /\ rec'.base > 0
          /\ rec'.key.class = 0 => rec'.ba = 0
          /\ rec'.key.class # 0 => \A g \in Flows : Of(g, rec'.key) => cls'[g] # 0
      <3>1. c # 0 => cls'[f] # 0
        BY <1>3, <1>10
      <3> QED
        BY <1>1, <1>2, <1>4, <1>7, <3>1
    <2>2. ASSUME ~mixed', HasAccumulator(rec)', rec'.ok
          PROVE  (\/ \A p \in Cells(chain) : ~Matches(chain[p[1]][p[2]], ZeroClass(rec), rec.base)
                  \/ InEntry(ZeroClass(rec), rec.base, rec.ba))'
      <3>1. c # 0 /\ rec'.ba = acc[f] /\ acc[f] > 0 /\ fresh[f] /\ Classes # {0}
        BY <1>4, <2>2 DEF HasAccumulator
      <3>2. cls[f] = 0 /\ accSlots[f] # {}
        BY <1>a, <3>1 DEF Accumulated
      <3>3. ~mixed /\ (t \notin accSlots[f] \/ accSlots[f] = {t})
        BY <1>10, <2>2, <3>1
      <3>4. ZeroClass(rec)' = Zero(f) /\ rec'.base = t
        BY <1>4 DEF ZeroClass, Zero, key
      <3>5. CASE t \notin accSlots[f]
        <4>1. \A p \in Cells(chain) : ~Matches(chain[p[1]][p[2]], Zero(f), t)
          BY <1>2, <1>a, <3>1, <3>2, <3>5 DEF Traces, Traced, Matches
        <4>2. (\A p \in Cells(chain) : ~Matches(chain[p[1]][p[2]], ZeroClass(rec), rec.base))'
          BY <1>1, <3>4, <4>1 DEF Matches
        <4> QED
          BY <4>2
      <3>6. CASE accSlots[f] = {t}
        <4>1. acc[f] > Ahead(f) /\ acc[f] - Ahead(f) = acc[f]
          BY <1>3, <1>5, <3>1
        <4>2. InEntry(Zero(f), t, acc[f])
          BY <1>1, <1>a, <3>1, <3>2, <3>3, <3>6, <4>1 DEF Backed
        <4>3. InEntry(ZeroClass(rec), rec.base, rec.ba)'
          BY <1>1, <3>1, <3>4, <4>2 DEF InEntry, Matches
        <4> QED
          BY <4>3
      <3> QED
        BY <3>3, <3>5, <3>6
    <2> QED
      BY <1>1, <2>1, <2>2 DEF Carried
  <1>15. Balanced'
    <2> SUFFICES ASSUME ~mixed', NEW r \in Rows
                 PROVE  fed'[r] = Held(r)' + written'[r] + lost'[r] + ToCome(r)'
      BY DEF Balanced
    <2>1. ~mixed /\ Held(r)' = Held(r)
      <3>1. ~mixed
        BY <1>10 DEF classVars
      <3>2. \E g \in Flows, k \in Classes, m \in Sizes, s \in Stamps :
              Receive(g, k, m, base + s)
        OBVIOUS
      <3>3. \A k : Held(k)' = Held(k)
        BY <3>2, OtherMoves
      <3> QED
        BY <3>1, <3>3
    <2>2. fed[r] = Held(r) + written[r] + lost[r] + 0
      BY <1>5, <1>a, <2>1 DEF Balanced, ToCome
    <2>3. RowOf(rec)' = <<f, t>>
      BY <1>2, <1>4 DEF RowOf
    <2>4. ToCome(r)' = IF r = <<f, t>> THEN n ELSE 0
      BY <1>1, <1>2, <1>4, <1>5, <2>3 DEF ToCome
    <2>5. Held(r) \in Nat /\ written[r] \in Nat /\ lost[r] \in Nat /\ fed[r] \in Nat
      BY HeldType DEF CacheInv, Typed, LedgerTypes
    <2>6. fed'[r] = fed[r] + (IF r = <<f, t>> THEN n ELSE 0)
      BY <1>1, <2>5
    <2> QED
      BY <1>1, <1>2, <2>1, <2>2, <2>4, <2>5, <2>6
  <1> QED
    BY <1>11, <1>12, <1>13, <1>14, <1>15 DEF Tracking

\* What an accumulator still counts is not taken out of the cache.
LEMMA SubtractSpares ==
  ASSUME CacheInv, Carried, pc = "insert", NEW f \in Flows, cls[f] = 0, NEW t, NEW m,
         InEntry(Zero(f), t, m)
  PROVE  \E u \in Used(SubtractAccumulator(rec)) :
           LET e == SubtractAccumulator(rec)[u[1]][u[2]]
           IN Matches(e, Zero(f), t) /\ m <= e.bytes
PROOF
  <1> DEFINE ch == SubtractAccumulator(rec)
  <1>1. rec \in Record /\ Filled(chain, queue, saUsed)
    BY CurrentIs DEF CacheInv, Phase
  <1>2. /\ Used(ch) = Used(chain)
        /\ \A p \in Cells(chain) :
              \/ ch[p[1]][p[2]] = chain[p[1]][p[2]]
              \/ HasAccumulator(rec) /\ Matches(chain[p[1]][p[2]], ZeroClass(rec), rec.base)
    BY <1>1, SubtractMoves
  <1> HIDE DEF ch
  <1>3. PICK u \in Used(chain) :
          Matches(chain[u[1]][u[2]], Zero(f), t) /\ m <= chain[u[1]][u[2]].bytes
    BY DEF InEntry
  <1>4. u \in Cells(chain)
    BY DEF Used
  <1>5. ASSUME HasAccumulator(rec), Matches(chain[u[1]][u[2]], ZeroClass(rec), rec.base)
        PROVE  FALSE
    <2>1. ZeroClass(rec) = Zero(f)
      BY <1>3, <1>5 DEF Matches
    <2>2. ZeroClass(rec).src = rec.key.src /\ ZeroClass(rec).dst = rec.key.dst
      BY <1>1 DEF ZeroClass, Record, Keys
    <2>3. Of(f, rec.key)
      BY <2>1, <2>2 DEF Of, Zero
    <2> QED
      BY <1>5, <2>3 DEF Carried, InProgress, HasAccumulator
  <1> QED
    BY <1>2, <1>3, <1>4, <1>5 DEF ch

\* A record that is accounted is in the entry of its key, with what its accumulator
\* counts.
LEMMA InsertTracks ==
  ASSUME ~SumHosts, CacheInv, CacheInv', Settling, Tracking, Insert
  PROVE  Tracking'
PROOF
  <1> DEFINE ch == SubtractAccumulator(rec)
             e == NewEntry(KeepAccumulator(rec))
  <1>a. /\ Accumulated /\ Traces /\ Backed /\ Carried /\ Balanced
    BY SMTT(30) DEF Tracking
  <1>1. /\ pc = "insert" /\ CurrentRecord = rec /\ rec \in Record /\ rec.base > 0
        /\ pc' = "idle" /\ calls = <<KeepSrc>>
    BY <1>a, CurrentIs DEF Insert
  <1>2. /\ rec' = KeepAccumulator(rec)
        /\ UNCHANGED <<urgent, container, timeVars, classVars, ledgerVars>>
    BY <1>1 DEF Insert
  <1>3. /\ Filled(chain, queue, saUsed) /\ Filled(chain', queue', saUsed')
        /\ container = << >>
        /\ chain \in Chains /\ chain' \in Chains
    BY <1>1, InsertFills DEF CacheInv, Phase, Typed, CacheTypes, Chains
  <1>4. /\ KeepAccumulator(rec) \in Record /\ e \in Entry /\ e.valid = "inuse"
        /\ Grown(ch, chain', e)
    BY <1>1, InsertFills, RecordTypes DEF CacheInv, Typed, NewEntry
  <1>5. /\ KeepAccumulator(rec).key = rec.key /\ KeepAccumulator(rec).base = rec.base
        /\ KeepAccumulator(rec).bytes = rec.bytes
    BY <1>1 DEF KeepAccumulator, Record
  <1>6. /\ e.key = rec.key /\ e.base = rec.base
        /\ e.bytes = rec.bytes + KeepAccumulator(rec).ba /\ rec.bytes <= e.bytes
        /\ rec.bytes \in Nat /\ e.bytes \in Nat
    BY <1>1, <1>4, <1>5 DEF NewEntry, Record
  <1>7. /\ ch \in Chains /\ Cells(ch) = Cells(chain) /\ Used(ch) = Used(chain)
        /\ \A p \in Cells(chain) : Same(ch[p[1]][p[2]], chain[p[1]][p[2]])
    BY <1>1, <1>3, SubtractMoves
  <1>s. /\ \A f \in Flows : \A t, m : cls[f] = 0 /\ InEntry(Zero(f), t, m) =>
             \E u \in Used(ch) : Matches(ch[u[1]][u[2]], Zero(f), t) /\ m <= ch[u[1]][u[2]].bytes
    BY <1>1, <1>a, SubtractSpares
  <1> HIDE DEF ch, e
  <1>8. /\ \A p \in Cells(chain') :
              \/ p \in Cells(ch) /\ chain'[p[1]][p[2]] = ch[p[1]][p[2]]
              \/ Same(chain'[p[1]][p[2]], e)
        /\ \A u \in Used(ch) : /\ u \in Used(chain')
                               /\ Same(chain'[u[1]][u[2]], ch[u[1]][u[2]])
                               /\ ch[u[1]][u[2]].bytes <= chain'[u[1]][u[2]].bytes
        /\ \E p \in Used(chain') :
             /\ Same(chain'[p[1]][p[2]], e) /\ e.bytes <= chain'[p[1]][p[2]].bytes
             /\ \A u \in Used(ch) :
                   Same(ch[u[1]][u[2]], e)
                     => ch[u[1]][u[2]].bytes + e.bytes <= chain'[p[1]][p[2]].bytes
    BY <1>3, <1>4, <1>7, GrownUsed DEF Filled
  <1>9. \A u \in Used(ch) : ch[u[1]][u[2]].bytes \in Nat
    BY <1>7, CellsOf DEF Used, Entry
  <1>10. \A p \in Used(chain') : chain'[p[1]][p[2]].bytes \in Nat
    BY <1>3, CellsOf DEF Used, Entry
  <1>11. Accumulated'
    BY <1>2, <1>a DEF Accumulated, classVars
  <1>12. Traces'
    <2>1. \A p \in Cells(chain') : Seen(chain'[p[1]][p[2]])
      <3> SUFFICES ASSUME NEW p \in Cells(chain') PROVE Seen(chain'[p[1]][p[2]])
        OBVIOUS
      <3>1. CASE p \in Cells(ch) /\ chain'[p[1]][p[2]] = ch[p[1]][p[2]]
        BY <1>7, <3>1 DEF Seen
      <3>2. CASE Same(chain'[p[1]][p[2]], e)
        BY <1>1, <1>6, <3>2 DEF Seen, Same, InProgress
      <3> QED
        BY <1>8, <3>1, <3>2
    <2>2. \A i \in DOMAIN container' : Seen(container'[i])
      BY <1>2 DEF Seen, Same
    <2>3. ~InProgress'
      BY <1>1 DEF InProgress
    <2>4. UNCHANGED <<cls, accSlots>>
      BY <1>2 DEF classVars
    <2> QED
      BY <1>a, <2>1, <2>2, <2>3, <2>4, TracesKept
  <1>13. Backed'
    <2>c. UNCHANGED <<cls, fresh, accSlots, acc, mixed>>
      BY <1>2 DEF classVars
    <2> SUFFICES ASSUME ~mixed, NEW f \in Flows, NEW t \in Slots,
                        cls[f] = 0, fresh[f], accSlots[f] = {t}, acc[f] > 0
                 PROVE  InEntry(Zero(f), t, acc[f])'
      <3>1. \A f \in Flows : Ahead(f)' = 0
        BY <1>1 DEF Ahead
      <3>2. \A f \in Flows : acc'[f] - 0 = acc'[f]
        BY DEF CacheInv, Typed, ClassTypes
      <3> QED
        BY <2>c, <3>1, <3>2 DEF Backed, InEntry, Zero
    <2>t. acc[f] \in Nat
      BY DEF CacheInv, Typed, ClassTypes
    <2>1. CASE rec.key = Zero(f)
      <3>1. Ahead(f) = rec.bytes /\ Classes # {0}
        BY <1>1, <1>a, <2>1 DEF Ahead, Accumulated
      <3>2. rec.base = t
        BY <1>1, <1>a, <2>1, <3>1 DEF Traces, Traced, InProgress
      <3>3. PICK p \in Used(chain') :
              /\ Same(chain'[p[1]][p[2]], e) /\ e.bytes <= chain'[p[1]][p[2]].bytes
              /\ \A u \in Used(ch) :
                    Same(ch[u[1]][u[2]], e)
                      => ch[u[1]][u[2]].bytes + e.bytes <= chain'[p[1]][p[2]].bytes
        BY <1>8
      <3>4. Matches(chain'[p[1]][p[2]], Zero(f), t) /\ chain'[p[1]][p[2]].bytes \in Nat
        BY <1>6, <1>10, <2>1, <3>2, <3>3 DEF Same, Matches
      <3>5. acc[f] <= chain'[p[1]][p[2]].bytes
        <4>1. CASE acc[f] <= rec.bytes
          BY <1>6, <2>t, <3>3, <3>4, <4>1
        <4>2. CASE acc[f] > rec.bytes
          <5>1. InEntry(Zero(f), t, acc[f] - rec.bytes)
            BY <1>1, <1>a, <3>1, <4>2 DEF Backed
          <5>2. PICK u \in Used(ch) : Matches(ch[u[1]][u[2]], Zero(f), t)
                                      /\ acc[f] - rec.bytes <= ch[u[1]][u[2]].bytes
            BY <1>s, <5>1
          <5>3. Same(ch[u[1]][u[2]], e)
            BY <1>6, <2>1, <3>2, <5>2 DEF Same, Matches
          <5>4. ch[u[1]][u[2]].bytes + e.bytes <= chain'[p[1]][p[2]].bytes
            BY <3>3, <5>3
          <5> QED
            BY <1>6, <1>9, <2>t, <3>4, <5>2, <5>4
        <4> QED
          BY <1>6, <2>t, <4>1, <4>2
      <3> QED
        BY <2>c, <3>4, <3>5 DEF InEntry, Matches, Zero
    <2>2. CASE rec.key # Zero(f)
      <3>1. Ahead(f) = 0
        BY <2>2 DEF Ahead
      <3>2. InEntry(Zero(f), t, acc[f])
        <4>1. acc[f] - Ahead(f) = acc[f] /\ acc[f] > Ahead(f)
          BY <2>t, <3>1
        <4> QED
          BY <1>1, <1>a, <4>1 DEF Backed
      <3>3. PICK u \in Used(ch) : Matches(ch[u[1]][u[2]], Zero(f), t)
                                  /\ acc[f] <= ch[u[1]][u[2]].bytes
        BY <1>s, <3>2
      <3>4. u \in Used(chain') /\ acc[f] <= chain'[u[1]][u[2]].bytes
            /\ Matches(chain'[u[1]][u[2]], Zero(f), t)
        <4>1. /\ u \in Used(chain') /\ Same(chain'[u[1]][u[2]], ch[u[1]][u[2]])
              /\ ch[u[1]][u[2]].bytes <= chain'[u[1]][u[2]].bytes
          BY <1>8
        <4> QED
          BY <1>9, <1>10, <2>t, <3>3, <4>1 DEF Same, Matches
      <3> QED
        BY <2>c, <3>4 DEF InEntry, Matches, Zero
    <2> QED
      BY <2>1, <2>2
  <1>14. Carried'
    BY <1>1 DEF Carried, InProgress
  <1>15. Balanced'
    <2> SUFFICES ASSUME ~mixed, NEW r \in Rows
                 PROVE  fed'[r] = Held(r)' + written'[r] + lost'[r] + ToCome(r)'
      BY <1>2 DEF Balanced, classVars
    <2>1. PICK n : /\ Taken(rec, n)
                   /\ \A k : /\ Held(k) \in Nat /\ Held(k)' \in Nat
                             /\ Held(k) >= InRow(rec, n, k)
                             /\ Held(k)' = Held(k) - InRow(rec, n, k)
                                           + Amount(NewEntry(rec'), k)
      BY <1>1, InsertMoves
    <2>2. KeepAccumulator(rec).ba = n /\ n \in Nat
      BY <1>1, <1>a, <2>1, TakenAll DEF Taken
    <2>3. ToCome(r)' = 0 /\ ToCome(r) = IF RowOf(rec) = r THEN rec.bytes ELSE 0
      <3>1. rec.bytes + 0 = rec.bytes
        BY <1>6
      <3> QED
        BY <1>1, <3>1 DEF ToCome, InProgress
    <2>4. NewEntry(rec') = e
      BY <1>2 DEF e
    <2>5. Amount(e, r) = IF RowOf(rec) = r THEN rec.bytes + n ELSE 0
      BY <1>6, <2>2 DEF Amount, RowOf
    <2>6. /\ Held(r) \in Nat /\ Held(r)' = Held(r) - InRow(rec, n, r) + Amount(e, r)
      BY <2>1, <2>4
    <2>7. written[r] \in Nat /\ lost[r] \in Nat /\ fed[r] \in Nat
      BY DEF CacheInv, Typed, LedgerTypes
    <2>8. fed[r] = Held(r) + written[r] + lost[r] + ToCome(r)
      BY <1>a DEF Balanced
    <2>9. UNCHANGED <<fed, written, lost>>
      BY <1>2 DEF ledgerVars
    <2> QED
      BY <1>6, <2>2, <2>3, <2>5, <2>6, <2>7, <2>8, <2>9 DEF InRow
  <1> QED
    BY <1>11, <1>12, <1>13, <1>14, <1>15 DEF Tracking

\* A record that finds the cache full still has its accumulator to be accounted.
LEMMA FinishedTracks ==
  ASSUME ~SumHosts, CacheInv, CacheInv', Settling, Tracking, FinishedEntries
  PROVE  Tracking'
PROOF
  <1> DEFINE ch == SubtractAccumulator(rec)
  <1>a. /\ Accumulated /\ Traces /\ Backed /\ Carried /\ Balanced
    BY DEF Tracking
  <1>1. /\ pc = "insert" /\ CurrentRecord = rec /\ rec \in Record /\ rec.base > 0
        /\ pc' = "safe" /\ calls = <<KeepSrc>>
    BY <1>a, CurrentIs DEF FinishedEntries
  <1>2. /\ rec' = KeepAccumulator(rec) /\ chain' = ch
        /\ UNCHANGED <<urgent, calls, container, timeVars, classVars, ledgerVars>>
    BY <1>1 DEF FinishedEntries
  <1>3. Filled(chain, queue, saUsed) /\ chain \in Chains
    BY <1>1 DEF CacheInv, Phase, Typed, CacheTypes, Chains
  <1>4. /\ rec' \in Record /\ rec'.key = rec.key /\ rec'.base = rec.base
        /\ rec'.bytes = rec.bytes /\ (rec'.ba = 0 \/ rec'.ba = rec.ba)
    BY <1>1, <1>2 DEF KeepAccumulator, Record
  <1>7. /\ Cells(ch) = Cells(chain) /\ Used(ch) = Used(chain)
        /\ \A p \in Cells(chain) : Same(ch[p[1]][p[2]], chain[p[1]][p[2]])
    BY <1>1, <1>3, SubtractMoves
  <1>s. /\ \A f \in Flows : \A t, m : cls[f] = 0 /\ InEntry(Zero(f), t, m) =>
             \E u \in Used(ch) : Matches(ch[u[1]][u[2]], Zero(f), t) /\ m <= ch[u[1]][u[2]].bytes
    BY <1>1, <1>a, SubtractSpares
  <1> HIDE DEF ch
  <1>c. UNCHANGED <<cls, fresh, accSlots, acc, mixed, fed, written, lost>>
    BY <1>2 DEF classVars, ledgerVars
  <1>p. InProgress /\ InProgress'
    BY <1>1 DEF InProgress
  <1>11. Accumulated'
    BY <1>c, <1>a DEF Accumulated
  <1>12. Traces'
    <2>1. \A p \in Cells(chain') : Seen(chain'[p[1]][p[2]])
      BY <1>2, <1>7 DEF Seen
    <2>2. \A i \in DOMAIN container' : Seen(container'[i])
      BY <1>2 DEF Seen, Same
    <2>3. Seen(rec')
      BY <1>4, <1>p DEF Seen, Same
    <2> QED
      BY <1>a, <1>c, <2>1, <2>2, <2>3, TracesKept
  <1>13. Backed'
    <2>1. \A f \in Flows : Ahead(f)' = Ahead(f)
      BY <1>1, <1>4 DEF Ahead, Zero
    <2> SUFFICES ASSUME ~mixed, NEW f \in Flows, NEW t \in Slots,
                        cls[f] = 0, fresh[f], accSlots[f] = {t}, acc[f] > Ahead(f)
                 PROVE  InEntry(Zero(f), t, acc[f] - Ahead(f))'
      BY <1>c, <2>1 DEF Backed, Zero
    <2>2. PICK m : m = acc[f] - Ahead(f)
      OBVIOUS
    <2>3. InEntry(Zero(f), t, m)
      BY <1>1, <1>a, <2>2 DEF Backed
    <2>4. InEntry(Zero(f), t, m)'
      <3>1. PICK u \in Used(ch) : Matches(ch[u[1]][u[2]], Zero(f), t) /\ m <= ch[u[1]][u[2]].bytes
        BY <1>s, <2>3
      <3> QED
        BY <1>2, <3>1 DEF InEntry, Matches, Zero
    <2>5. acc'[f] - Ahead(f)' = m
      BY <1>c, <2>1, <2>2
    <2> QED
      BY <2>4, <2>5 DEF InEntry, Zero
  <1>14. Carried'
    <2>1. /\ calls' = <<KeepSrc>> /\ rec'.base > 0
          /\ rec'.key.class = 0 => rec'.ba = 0
          /\ rec'.key.class # 0 => \A g \in Flows : Of(g, rec'.key) => cls'[g] # 0
      BY <1>1, <1>2, <1>4, <1>a, <1>c, <1>p DEF Carried
    <2> QED
      BY <1>1, <2>1 DEF Carried
  <1>15. Balanced'
    <2> SUFFICES ASSUME ~mixed, NEW r \in Rows
                 PROVE  fed'[r] = Held(r)' + written'[r] + lost'[r] + ToCome(r)'
      BY <1>c DEF Balanced
    <2>1. PICK n : /\ Taken(rec, n)
                   /\ \A k : /\ Held(k) \in Nat /\ Held(k)' \in Nat
                             /\ Held(k) = Held(k)' + InRow(rec, n, k)
      BY <1>1, FinishedMoves
    <2>2. rec'.ba = n /\ n \in Nat /\ rec.bytes \in Nat
      BY <1>1, <1>2, <1>a, <2>1, TakenAll DEF Taken, Record
    <2>3. /\ ToCome(r) = IF RowOf(rec) = r THEN rec.bytes ELSE 0
          /\ ToCome(r)' = IF RowOf(rec) = r THEN rec.bytes + n ELSE 0
      <3>1. rec.bytes + 0 = rec.bytes
        BY <2>2
      <3>2. RowOf(rec)' = RowOf(rec)
        BY <1>4 DEF RowOf
      <3> QED
        BY <1>1, <1>4, <1>p, <2>2, <3>1, <3>2 DEF ToCome
    <2>7. written[r] \in Nat /\ lost[r] \in Nat /\ fed[r] \in Nat
      BY DEF CacheInv, Typed, LedgerTypes
    <2>8. fed[r] = Held(r) + written[r] + lost[r] + ToCome(r)
      BY <1>a DEF Balanced
    <2>9. Held(r) \in Nat /\ Held(r)' \in Nat /\ Held(r) = Held(r)' + InRow(rec, n, r)
      BY <2>1
    <2> QED
      BY <1>c, <2>2, <2>3, <2>7, <2>8, <2>9 DEF InRow
  <1> QED
    BY <1>11, <1>12, <1>13, <1>14, <1>15 DEF Tracking

\* Steps that leave the classifier and what is received alone, outside the
\* insertion of a record.
LEMMA PurgeTracks ==
  ASSUME CacheInv, CacheInv', Tracking,
         UNCHANGED <<rec, calls, acc, cls, accSlots, fed>>, InProgress' = InProgress,
         pc # "insert", pc' \in {"marked", "forked", "flushed", "exited"},
         \A p \in Cells(chain') : Seen(chain'[p[1]][p[2]]),
         \A i \in DOMAIN container' : Seen(container'[i]),
         mixed => mixed',
         (pc = "flushed" \/ pc' # "flushed") => UNCHANGED <<mixed, fresh>>,
         pc' = "flushed" /\ pc # "flushed" /\ ~mixed' =>
           (\A f \in Flows : fresh'[f] => acc[f] = 0) /\ (urgent' => rec.ba = 0),
         UNCHANGED urgent \/ pc' # "flushed",
         \A r \in Rows : Held(r) + written[r] + lost[r] = Held(r)' + written'[r] + lost'[r]
  PROVE  Tracking'
PROOF
  <1>a. /\ Accumulated /\ Traces /\ Backed /\ Carried /\ Balanced
    BY DEF Tracking
  <1>1. Accumulated'
    BY <1>a DEF Accumulated
  <1>2. Traces'
    <2>1. InProgress' => Seen(rec')
      BY DEF Seen, Same
    <2> QED
      BY <1>a, <2>1, TracesKept
  <1>3. Backed'
    BY DEF Backed
  <1>4. Carried'
    <2>1. InProgress' =>
            /\ calls' = <<KeepSrc>> /\ rec'.base > 0
            /\ rec'.key.class = 0 => rec'.ba = 0
            /\ rec'.key.class # 0 => \A g \in Flows : Of(g, rec'.key) => cls'[g] # 0
      BY <1>a DEF Carried
    <2>2. pc' = "flushed" /\ ~mixed' =>
            /\ \A f \in Flows : fresh'[f] => acc'[f] = 0
            /\ urgent' => rec'.ba = 0
      BY <1>a DEF Carried
    <2>3. pc' # "insert"
      OBVIOUS
    <2> QED
      BY <2>1, <2>2, <2>3 DEF Carried
  <1>5. Balanced'
    <2> SUFFICES ASSUME ~mixed', NEW r \in Rows
                 PROVE  fed'[r] = Held(r)' + written'[r] + lost'[r] + ToCome(r)'
      BY DEF Balanced
    <2>1. ~mixed
      OBVIOUS
    <2>2. ToCome(r)' = ToCome(r)
      <3>1. RowOf(rec)' = RowOf(rec)
        BY DEF RowOf
      <3> QED
        BY <3>1 DEF ToCome
    <2>3. fed[r] = Held(r) + written[r] + lost[r] + ToCome(r)
      BY <1>a, <2>1 DEF Balanced
    <2>4. Held(r) + written[r] + lost[r] = Held(r)' + written'[r] + lost'[r]
      OBVIOUS
    <2> QED
      BY <2>2, <2>3, <2>4
  <1> QED
    BY <1>1, <1>2, <1>3, <1>4, <1>5 DEF Tracking

\* A purge moves no accumulator; a timed one starts them anew, an urgent one that
\* meets any mixes them.
LEMMA MarkTracks ==
  ASSUME CacheInv, CacheInv', Settling, Tracking, MarkFlush
  PROVE  Tracking'
PROOF
  <1>1. /\ pc \in {"idle", "safe"} /\ pc' = "marked" /\ urgent' = (pc = "safe")
        /\ container' = SetAside
        /\ chain' = Revalidate({p \in Range(queue) : Due(EntryAt(p))})
        /\ UNCHANGED <<rec, calls, queue, saUsed, timeVars, classVars, ledgerVars>>
    BY DEF MarkFlush
  <1>2. /\ Filled(chain, queue, saUsed) /\ chain \in Chains
    BY <1>1 DEF CacheInv, Typed, CacheTypes, Chains, Phase
  <1>3. InProgress' = InProgress
    BY <1>1 DEF InProgress
  <1>4. \A p \in Cells(chain') : Seen(chain'[p[1]][p[2]])
    <2> DEFINE C == {p \in Range(queue) : Due(EntryAt(p))}
    <2>1. /\ Cells(chain') = Cells(chain)
          /\ \A b \in Buckets :
               \A i \in 1 .. Len(chain[b]) :
                  /\ <<b, i>> \in Range(queue) =>
                       chain'[b][i] = [chain[b][i] EXCEPT !.valid =
                                         IF <<b, i>> \in C THEN "committed" ELSE "free"]
                  /\ <<b, i>> \notin Range(queue) => chain'[b][i] = chain[b][i]
      BY <1>1, <1>2, RevalidateKeeps
    <2> HIDE DEF C
    <2> SUFFICES ASSUME NEW p \in Cells(chain)
                 PROVE  Same(chain'[p[1]][p[2]], chain[p[1]][p[2]])
      BY <2>1 DEF Seen
    <2>2. /\ p[1] \in Buckets /\ p[2] \in 1 .. Len(chain[p[1]]) /\ p = <<p[1], p[2]>>
          /\ chain[p[1]][p[2]] \in Entry
      BY <1>2, CellsOf
    <2>3. \/ chain'[p[1]][p[2]] = chain[p[1]][p[2]]
          \/ chain'[p[1]][p[2]] = [chain[p[1]][p[2]] EXCEPT !.valid =
                                     IF p \in C THEN "committed" ELSE "free"]
      BY <2>1, <2>2
    <2> QED
      BY <2>2, <2>3 DEF Same, Entry
  <1>5. \A i \in DOMAIN container' : Seen(container'[i])
    <2>1. /\ SetAside \in Seq(Entry) /\ Len(SetAside) = Len(Pending)
          /\ \A i \in 1 .. Len(Pending) :
               Pending[i] \in Cells(chain) /\ SetAside[i] = EntryAt(Pending[i])
      <3>1. DOMAIN Pending = 1 .. Len(Pending)
        BY <1>2, SetAsideIs, LenProperties
      <3> QED
        BY <1>2, <3>1, SetAsideIs DEF Range, Used
    <2>2. DOMAIN SetAside = 1 .. Len(Pending)
      BY <2>1, LenProperties
    <2> QED
      BY <1>1, <2>1, <2>2 DEF Seen, Same, EntryAt
  <1>6. \A r \in Rows : Held(r) + written[r] + lost[r] = Held(r)' + written'[r] + lost'[r]
    BY <1>1, MarkFlushMoves DEF ledgerVars
  <1> QED
    BY <1>1, <1>3, <1>4, <1>5, <1>6, PurgeTracks DEF classVars, ledgerVars

\* Handing entries to a writer, or dropping them, keeps the account.
LEMMA ForkTracks ==
  ASSUME CacheInv, CacheInv', Settling, Tracking, ForkWriter
  PROVE  Tracking'
PROOF
  <1>1. /\ pc = "marked" /\ pc' = "forked"
        /\ UNCHANGED <<urgent, rec, calls, chain, container, classVars, fed>>
        /\ \/ written' = AddBytes(written, Committed) /\ UNCHANGED lost
           \/ lost' = AddBytes(lost, Committed) /\ UNCHANGED written
    BY DEF ForkWriter, cacheVars
  <1>2. InProgress' = InProgress
    BY <1>1 DEF InProgress
  <1>3. \A r \in Rows : Held(r) + written[r] + lost[r] = Held(r)' + written'[r] + lost'[r]
    <2> SUFFICES ASSUME NEW r \in Rows
                 PROVE  Held(r) + written[r] + lost[r] = Held(r)' + written'[r] + lost'[r]
      OBVIOUS
    <2>1. PICK B : B = BytesAt(Committed, r)
      OBVIOUS
    <2>2. B \in Nat /\ Held(r)' \in Nat /\ Held(r) = Held(r)' + B
      BY <2>1, ForkMoves
    <2>3. \/ written'[r] = written[r] + B /\ UNCHANGED lost
          \/ lost'[r] = lost[r] + B /\ UNCHANGED written
      BY <1>1, <2>1 DEF AddBytes
    <2>4. written[r] \in Nat /\ lost[r] \in Nat
      BY DEF CacheInv, Typed, LedgerTypes
    <2> QED
      BY <2>2, <2>3, <2>4
  <1>4. /\ \A p \in Cells(chain') : Seen(chain'[p[1]][p[2]])
        /\ \A i \in DOMAIN container' : Seen(container'[i])
    BY <1>1 DEF Seen, Same
  <1> QED
    BY <1>1, <1>2, <1>3, <1>4, PurgeTracks DEF classVars

\* P_cache_flush() keeps the account.
LEMMA FlushTracks ==
  ASSUME CacheInv, CacheInv', Settling, Tracking, Flush
  PROVE  Tracking'
PROOF
  <1>1. /\ pc = "forked" /\ pc' = "flushed"
        /\ UNCHANGED <<urgent, rec, calls, container, acc, cls, accSlots, ledgerVars>>
        /\ chain' = [b \in Buckets |->
                       IF <<b, 1>> \in Range(queue)
                       THEN <<[chain[b][1] EXCEPT !.valid = "free"]>>
                       ELSE chain[b]]
        /\ \/ /\ urgent /\ UNCHANGED fresh
              /\ mixed' = (mixed \/ rec.ba > 0 \/ \E f \in Flows : acc[f] > 0)
           \/ ~urgent /\ fresh' = [f \in Flows |-> FALSE] /\ UNCHANGED mixed
    BY DEF Flush
  <1>2. InProgress' = InProgress
    BY <1>1 DEF InProgress
  <1>3. /\ chain \in Chains /\ chain' \in Chains /\ Sized(chain, queue, saUsed)
        /\ acc \in [Flows -> Nat] /\ rec.ba \in Nat
    BY DEF CacheInv, Typed, CacheTypes, Chains, ClassTypes, StepTypes
  <1>4. \A p \in Cells(chain') : Seen(chain'[p[1]][p[2]])
    <2> SUFFICES ASSUME NEW p \in Cells(chain')
                 PROVE  Seen(chain'[p[1]][p[2]])
      OBVIOUS
    <2>1. p[1] \in Buckets /\ p[2] \in 1 .. Len(chain'[p[1]]) /\ p = <<p[1], p[2]>>
      BY <1>3, CellsOf
    <2>2. CASE <<p[1], 1>> \in Range(queue)
      <3>1. chain'[p[1]] = <<[chain[p[1]][1] EXCEPT !.valid = "free"]>>
        BY <1>1, <2>1, <2>2
      <3> DEFINE u == <<p[1], 1>>
      <3>2. u \in Cells(chain) /\ u[1] = p[1] /\ u[2] = 1
        BY <1>3, <2>2 DEF Sized
      <3> HIDE DEF u
      <3>3. chain[p[1]][1] \in Entry
        BY <1>3, <3>2, CellsOf
      <3> DEFINE e == [chain[p[1]][1] EXCEPT !.valid = "free"]
      <3>4. Same(e, chain[p[1]][1])
        BY <3>3 DEF Entry, Same
      <3> HIDE DEF e
      <3>5. chain'[p[1]] = <<e>>
        BY <3>1 DEF e
      <3>6. p[2] = 1
        BY <2>1, <3>5
      <3> QED
        BY <3>2, <3>4, <3>5, <3>6 DEF Seen
    <2>3. CASE <<p[1], 1>> \notin Range(queue)
      <3>1. chain'[p[1]] = chain[p[1]]
        BY <1>1, <2>1, <2>3
      <3>2. p \in Cells(chain)
        BY <3>1 DEF Cells
      <3> QED
        BY <3>1, <3>2 DEF Seen, Same
    <2> QED
      BY <2>2, <2>3
  <1>5. \A i \in DOMAIN container' : Seen(container'[i])
    BY <1>1 DEF Seen, Same
  <1>6. \A r \in Rows : Held(r) + written[r] + lost[r] = Held(r)' + written'[r] + lost'[r]
    BY <1>1, FlushMoves DEF ledgerVars
  <1>7. mixed => mixed'
    BY <1>1
  <1>8. ~mixed' => (\A f \in Flows : fresh'[f] => acc[f] = 0) /\ (urgent' => rec.ba = 0)
    <2>1. ASSUME urgent, ~mixed'
          PROVE  (\A f \in Flows : fresh'[f] => acc[f] = 0) /\ (urgent' => rec.ba = 0)
      <3>1. mixed' = (mixed \/ rec.ba > 0 \/ \E f \in Flows : acc[f] > 0)
        BY <1>1, <2>1
      <3>2. ~(rec.ba > 0) /\ \A f \in Flows : ~(acc[f] > 0)
        BY <2>1, <3>1
      <3>3. \A m \in Nat : ~(m > 0) => m = 0
        OBVIOUS
      <3>4. \A f \in Flows : acc[f] \in Nat
        BY <1>3
      <3> QED
        BY <1>3, <3>2, <3>3, <3>4
    <2>2. CASE ~urgent
      BY <1>1, <2>2
    <2> QED
      BY <2>1, <2>2
  <1> QED
    BY <1>1, <1>2, <1>4, <1>5, <1>6, <1>7, <1>8, PurgeTracks DEF ledgerVars

\* Putting a pending entry back keeps the account.
LEMMA PendingTracks ==
  ASSUME CacheInv, CacheInv', Settling, Tracking, InsertPending
  PROVE  Tracking'
PROOF
  <1> DEFINE e == [Head(container) EXCEPT !.valid = "inuse"]
  <1>1. /\ pc = "flushed" /\ pc' = "flushed" /\ container # << >>
        /\ UNCHANGED <<urgent, rec, calls, classVars, fed, written>>
        /\ UNCHANGED lost
    BY Zenon DEF InsertPending, CacheInv, Typed, LedgerTypes
  <1>2. container' = Tail(container) /\ Grown(chain, chain', e)
    BY InsertPendingInv
  <1>3. chain \in Chains /\ chain' \in Chains /\ container \in Seq(Entry)
    BY DEF CacheInv, Typed, CacheTypes, Chains
  <1>4. Head(container) \in Entry /\ 1 \in DOMAIN container /\ Head(container) = container[1]
    BY <1>1, <1>3, HeadTailProperties, LenProperties, EmptySeq
  <1>5. e \in Entry /\ e.valid = "inuse" /\ Same(e, container[1])
    BY <1>4 DEF Entry, Same
  <1> HIDE DEF e
  <1>6. \A p \in Cells(chain') : Seen(chain'[p[1]][p[2]])
    <2>1. \A p \in Cells(chain') : \/ p \in Cells(chain) /\ chain'[p[1]][p[2]] = chain[p[1]][p[2]]
                                   \/ Same(chain'[p[1]][p[2]], e)
      BY <1>2, <1>3, <1>5, GrownUsed
    <2> QED
      BY <1>4, <1>5, <2>1 DEF Seen, Same
  <1>7. \A i \in DOMAIN container' : Seen(container'[i])
    <2>1. \A i \in DOMAIN container' : i + 1 \in DOMAIN container /\ container'[i] = container[i + 1]
      BY <1>1, <1>2, <1>3
    <2> QED
      BY <2>1 DEF Seen, Same
  <1>8. InProgress' = InProgress
    BY <1>1 DEF InProgress
  <1>9. \A r \in Rows : Held(r) + written[r] + lost[r] = Held(r)' + written'[r] + lost'[r]
    BY <1>1, PendingMoves
  <1> QED
    BY <1>1, <1>6, <1>7, <1>8, <1>9, PurgeTracks DEF classVars

\* A purge that is over takes the record up again, if one met it.
LEMMA DoneTracks ==
  ASSUME ~SumHosts, CacheInv, CacheInv', Settling, Tracking, PurgeDone
  PROVE  Tracking'
PROOF
  <1>a. /\ Accumulated /\ Traces /\ Backed /\ Carried /\ Balanced
    BY DEF Tracking
  <1>1. /\ pc = "flushed" /\ container = << >> /\ pc' = IF urgent THEN "insert" ELSE "idle"
        /\ UNCHANGED <<urgent, chain, container, acc, cls, accSlots, fresh, mixed,
                       fed, written, lost>>
    BY DEF PurgeDone, cacheVars, classVars, ledgerVars, CacheInv, Typed, StepTypes
  <1>2. rec \in Record /\ acc \in [Flows -> Nat]
    BY DEF CacheInv, Typed, StepTypes, ClassTypes, Record
  <1>3. InProgress' = InProgress /\ InProgress = urgent
    BY <1>1 DEF InProgress, CacheInv, Typed, StepTypes
  <1>4. rec' = rec /\ (urgent => calls' = <<KeepSrc>>)
    <2>1. CASE ~urgent
      BY <2>1 DEF PurgeDone
    <2>2. CASE urgent
      <3>1. calls = <<KeepSrc>>
        BY <1>a, <1>3, <2>2 DEF Carried
      <3>2. /\ rec' = [rec EXCEPT !.key = ClearDst(rec.key)]
            /\ calls' = InsertFunc(rec.key) \o Tail(calls)
        BY <2>2 DEF PurgeDone
      <3>3. ClearDst(rec.key) = rec.key /\ InsertFunc(rec.key) = <<KeepSrc>>
        BY DEF ClearDst, InsertFunc
      <3>4. rec' = rec
        BY <1>2, <3>2, <3>3 DEF Record
      <3>5. <<KeepSrc>> \o << >> = <<KeepSrc>>
        OBVIOUS
      <3>6. calls' = <<KeepSrc>>
        BY <3>1, <3>2, <3>3, <3>5
      <3> QED
        BY <3>4, <3>6
    <2> QED
      BY <2>1, <2>2
  <1>5. Accumulated'
    BY <1>1, <1>a DEF Accumulated
  <1>6. Traces'
    BY <1>1, <1>3, <1>4, <1>a DEF Traces, Traced
  <1>7. ~mixed => (\A f \in Flows : fresh[f] => acc[f] = 0) /\ (urgent => rec.ba = 0)
    BY <1>1, <1>a DEF Carried
  <1>8. Backed'
    <2>1. rec.bytes \in Nat
      BY <1>2 DEF Record
    <2>2. \A f \in Flows : Ahead(f)' \in Nat
      BY <1>4, <2>1 DEF Ahead
    <2>3. ~mixed => \A f \in Flows : fresh[f] => ~(acc[f] > Ahead(f)')
      BY <1>7, <2>2
    <2> QED
      BY <1>1, <2>3 DEF Backed
  <1>9. Carried'
    <2>1. InProgress' =>
            /\ calls' = <<KeepSrc>> /\ rec'.base > 0
            /\ rec'.key.class = 0 => rec'.ba = 0
            /\ rec'.key.class # 0 => \A g \in Flows : Of(g, rec'.key) => cls'[g] # 0
      BY <1>1, <1>3, <1>4, <1>a DEF Carried
    <2>2. ASSUME pc' = "insert", ~mixed' PROVE ~HasAccumulator(rec)'
      BY <1>1, <1>4, <1>7, <2>2 DEF HasAccumulator
    <2>3. pc' # "flushed"
      BY <1>1
    <2> QED
      BY <2>1, <2>2, <2>3 DEF Carried
  <1>10. Balanced'
    <2> SUFFICES ASSUME ~mixed, NEW r \in Rows
                 PROVE  fed[r] = Held(r)' + written[r] + lost[r] + ToCome(r)'
      BY <1>1 DEF Balanced
    <2>1. Held(r)' = Held(r)
      BY OtherMoves
    <2>2. ToCome(r)' = ToCome(r)
      <3>1. RowOf(rec)' = RowOf(rec)
        BY <1>4 DEF RowOf
      <3>2. urgent => rec.ba = 0
        BY <1>7
      <3> QED
        BY <1>1, <1>3, <1>4, <3>1, <3>2 DEF ToCome
    <2> QED
      BY <1>a, <2>1, <2>2 DEF Balanced
  <1> QED
    BY <1>5, <1>6, <1>8, <1>9, <1>10 DEF Tracking

\* Writers that end, the clock and SIGINT between records.
LEMMA OtherTracks ==
  ASSUME CacheInv, CacheInv', Settling, Tracking,
         WriterExit \/ UpdateTimeReference \/ UNCHANGED vars
  PROVE  Tracking'
PROOF
  <1>a. /\ Accumulated /\ Traces /\ Backed /\ Carried /\ Balanced
    BY DEF Tracking
  <1>1. UNCHANGED <<pc, urgent, rec, calls, chain, container, acc, fresh, cls, accSlots,
                    mixed, fed, written, lost>>
    BY DEF WriterExit, UpdateTimeReference, vars, cacheVars, classVars, ledgerVars
  <1>2. InProgress' = InProgress
    BY <1>1 DEF InProgress
  <1>3. Accumulated' /\ Traces'
    BY <1>1, <1>2, <1>a DEF Accumulated, Traces, Traced
  <1>4. \A k, t, m : InEntry(k, t, m)' = InEntry(k, t, m)
    BY <1>1 DEF InEntry, Matches
  <1>5. Backed'
    <2>1. \A f \in Flows : Ahead(f)' = Ahead(f)
      BY <1>1 DEF Ahead, Zero
    <2> SUFFICES ASSUME pc \in {"idle", "insert", "safe"}, ~mixed,
                        NEW f \in Flows, NEW t \in Slots,
                        cls[f] = 0, fresh[f], accSlots[f] = {t}, acc[f] > Ahead(f)
                 PROVE  InEntry(Zero(f), t, acc[f] - Ahead(f))'
      BY <1>1, <2>1 DEF Backed, Zero
    <2>2. InEntry(Zero(f), t, acc[f] - Ahead(f))
      BY <1>a DEF Backed
    <2>3. acc'[f] - Ahead(f)' = acc[f] - Ahead(f)
      BY <1>1, <2>1
    <2> QED
      BY <1>1, <2>2, <2>3 DEF InEntry, Matches, Zero
  <1>6. Carried'
    <2>1. ZeroClass(rec)' = ZeroClass(rec) /\ HasAccumulator(rec)' = HasAccumulator(rec)
      BY <1>1 DEF ZeroClass, HasAccumulator
    <2> QED
      BY <1>1, <1>2, <1>a, <2>1 DEF Carried, InEntry, Matches
  <1>7. Balanced'
    <2>1. \A r \in Rows : Held(r)' = Held(r)
      BY OtherMoves
    <2>2. \A r \in Rows : ToCome(r)' = ToCome(r)
      BY <1>1, <1>2 DEF ToCome, RowOf
    <2> QED
      BY <1>1, <1>a, <2>1, <2>2 DEF Balanced
  <1> QED
    BY <1>3, <1>5, <1>6, <1>7 DEF Tracking

\* SIGINT between records ends the plugin with nothing left to account.
LEMMA ExitTracks ==
  ASSUME CacheInv, CacheInv', Settling, Tracking, ExitNow, pc = "idle"
  PROVE  Tracking'
PROOF
  <1>1. /\ pc' = "exited" /\ chain' = Revalidate(Range(queue))
        /\ UNCHANGED <<urgent, rec, calls, container, classVars, fed>>
        /\ \/ written' = AddBytes(written, Range(queue)) /\ UNCHANGED lost
           \/ lost' = AddBytes(lost, Range(queue)) /\ UNCHANGED written
    BY DEF ExitNow
  <1>2. chain \in Chains
    BY DEF CacheInv, Typed, CacheTypes, Chains
  <1>3. InProgress' = InProgress
    BY <1>1 DEF InProgress
  <1>4. \A p \in Cells(chain') : Seen(chain'[p[1]][p[2]])
    <2> DEFINE C == Range(queue)
    <2>1. /\ Cells(chain') = Cells(chain)
          /\ \A b \in Buckets :
               \A i \in 1 .. Len(chain[b]) :
                  /\ <<b, i>> \in Range(queue) =>
                       chain'[b][i] = [chain[b][i] EXCEPT !.valid =
                                         IF <<b, i>> \in C THEN "committed" ELSE "free"]
                  /\ <<b, i>> \notin Range(queue) => chain'[b][i] = chain[b][i]
      BY <1>1, <1>2, RevalidateKeeps
    <2> HIDE DEF C
    <2> SUFFICES ASSUME NEW p \in Cells(chain)
                 PROVE  Same(chain'[p[1]][p[2]], chain[p[1]][p[2]])
      BY <2>1 DEF Seen
    <2>2. /\ p[1] \in Buckets /\ p[2] \in 1 .. Len(chain[p[1]]) /\ p = <<p[1], p[2]>>
          /\ chain[p[1]][p[2]] \in Entry
      BY <1>2, CellsOf
    <2>3. \/ chain'[p[1]][p[2]] = chain[p[1]][p[2]]
          \/ chain'[p[1]][p[2]] = [chain[p[1]][p[2]] EXCEPT !.valid =
                                     IF p \in C THEN "committed" ELSE "free"]
      BY <2>1, <2>2
    <2> QED
      BY <2>2, <2>3 DEF Same, Entry
  <1>5. \A i \in DOMAIN container' : Seen(container'[i])
    BY <1>1 DEF Seen, Same
  <1>6. \A r \in Rows : Held(r) + written[r] + lost[r] = Held(r)' + written'[r] + lost'[r]
    <2> SUFFICES ASSUME NEW r \in Rows
                 PROVE  Held(r) + written[r] + lost[r] = Held(r)' + written'[r] + lost'[r]
      OBVIOUS
    <2>1. PICK B : B = BytesAt(Range(queue), r)
      OBVIOUS
    <2>2. Held(r) \in Nat /\ Held(r)' = 0 /\ Held(r) = B
      BY <2>1, ExitMoves
    <2>3. \/ written'[r] = written[r] + B /\ UNCHANGED lost
          \/ lost'[r] = lost[r] + B /\ UNCHANGED written
      BY <1>1, <2>1 DEF AddBytes
    <2>4. written[r] \in Nat /\ lost[r] \in Nat
      BY DEF CacheInv, Typed, LedgerTypes
    <2> QED
      BY <2>2, <2>3, <2>4
  <1> QED
    BY <1>1, <1>3, <1>4, <1>5, <1>6, PurgeTracks DEF classVars

\* For every bucket, class and flow: what is received is in the cache, handed to a
\* writer or dropped with a warning, in its row, whatever moves from class zero to
\* a class on the way (P_cache_insert()), as long as no accumulator spans two
\* timeslots or meets an urgent purge, hosts are not summed and SIGINT comes
\* between two records.
THEOREM AllConserved ==
  ASSUME ~SumHosts, ExitWindow \subseteq {"idle"}
  PROVE  Spec => []Conserved
PROOF
  <1> DEFINE Inv == CacheInv /\ (pc # "astray" => Settling /\ Tracking)
  <1>1. Init => Inv
    <2> SUFFICES ASSUME Init PROVE Inv
      OBVIOUS
    <2>1. CacheInv /\ Settling /\ \A r : Held(r) = 0
      BY InitInv, InitHeld
    <2>2. /\ pc = "idle" /\ container = << >> /\ chain \in Chains
          /\ \A b \in Buckets : chain[b] = <<FreeEntry>>
          /\ \A f \in Flows : acc[f] = 0 /\ ~fresh[f]
          /\ \A r \in Rows : fed[r] = 0 /\ written[r] = 0 /\ lost[r] = 0
      BY <2>1 DEF Init, CacheInv, Typed, CacheTypes, Chains, ZeroRows
    <2>3. \A p \in Cells(chain) : chain[p[1]][p[2]].base = 0
      <3>1. \A p \in Cells(chain) : p[1] \in Buckets /\ p[2] \in 1 .. Len(chain[p[1]])
        BY <2>2, CellsOf
      <3> QED
        BY <2>2, <3>1 DEF FreeEntry
    <2>4. ~InProgress
      BY <2>2 DEF InProgress
    <2>5. Accumulated /\ Traces /\ Backed /\ Carried
      BY <2>2, <2>3, <2>4 DEF Accumulated, Traces, Traced, Backed, Carried
    <2>6. Balanced
      BY <2>1, <2>2, <2>4 DEF Balanced, ToCome
    <2> QED
      BY <2>1, <2>5, <2>6 DEF Tracking
  <1>2. Inv /\ [Next]_vars => Inv'
    <2>0. ASSUME CacheInv, [Next]_vars, pc = "astray" PROVE Inv'
      <3>1. CacheInv'
        BY <2>0, StepInv
      <3>2. pc' = "astray"
        BY <2>0
        DEF Next, PluginStep, Receive, Insert, FinishedEntries, ForkWriter, Flush,
            InsertPending, PurgeDone, MarkFlush, WriteBeyond, NeedsNode, WriterExit,
            UpdateTimeReference, ExitNow, vars
      <3> QED
        BY <3>1, <3>2
    <2> SUFFICES ASSUME CacheInv, Settling, Tracking, [Next]_vars PROVE Inv'
      BY <2>0
    <2>1. CacheInv'
      BY StepInv
    <2>2. ASSUME NEW f \in Flows, NEW c \in Classes, NEW n \in Sizes, NEW d \in Stamps,
                 Receive(f, c, n, base + d)
          PROVE  Settling' /\ Tracking'
      BY <2>1, <2>2, OtherMoves, ReceiveTracks
    <2>3. ASSUME Insert \/ FinishedEntries PROVE Settling' /\ Tracking'
      BY <2>1, <2>3, InsertMoves, InsertTracks, FinishedMoves, FinishedTracks
    <2>4. ASSUME MarkFlush \/ ForkWriter PROVE Settling' /\ Tracking'
      BY <2>1, <2>4, MarkFlushMoves, MarkTracks, ForkMoves, ForkTracks
    <2>5. ASSUME Flush \/ InsertPending PROVE Settling' /\ Tracking'
      BY <2>1, <2>5, FlushMoves, FlushTracks, PendingMoves, PendingTracks
    <2>6. ASSUME PurgeDone PROVE Settling' /\ Tracking'
      BY <2>1, <2>6, OtherMoves, DoneTracks
    <2>7. ASSUME WriterExit \/ UpdateTimeReference \/ UNCHANGED vars
          PROVE  Settling' /\ Tracking'
      BY <2>1, <2>7, OtherMoves, OtherTracks
    <2>8. ASSUME ExitNow PROVE Settling' /\ Tracking'
      <3>1. pc = "idle"
        BY <2>8 DEF ExitNow
      <3> QED
        BY <2>1, <2>8, <3>1, ExitMoves, ExitTracks
    <2>9. CASE WriteBeyond
      BY <2>1, <2>9 DEF WriteBeyond
    <2> QED
      BY <2>1, <2>2, <2>3, <2>4, <2>5, <2>6, <2>7, <2>8, <2>9 DEF Next, PluginStep
  <1>3. Inv => Conserved
    <2> SUFFICES ASSUME CacheInv, Balanced, pc \in {"idle", "exited"}, ~mixed,
                        NEW r \in Rows
                 PROVE  fed[r] = Held(r) + written[r] + lost[r]
      BY DEF Conserved, Tracking
    <2>1. fed[r] = Held(r) + written[r] + lost[r] + 0
      BY DEF Balanced, ToCome, InProgress
    <2>2. Held(r) \in Nat /\ written[r] \in Nat /\ lost[r] \in Nat
      BY HeldNow DEF CacheInv, Typed, LedgerTypes
    <2> QED
      BY <2>1, <2>2
  <1> HIDE DEF Inv
  <1> QED
    BY <1>1, <1>2, <1>3, PTL DEF Spec
=============================================================================
