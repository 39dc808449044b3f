--------------------------- MODULE ImtTableProofs ---------------------------
(***************************************************************************)
(* Proofs about ImtTable: the chains of the table, the account of bytes,   *)
(* and the walks of the queries, for every size of the table and of the    *)
(* pools, every hash function, every number of children, all records and   *)
(* all queries.                                                            *)
(***************************************************************************)
EXTENDS ImtTable, TableFacts

Size == Buckets + (MaxPools - 1) * PoolSize

\* Places are the natural numbers up to the size of the table.
LEMMA PlacesFacts ==
  /\ Size \in Nat /\ Buckets \in Nat \ {0} /\ Buckets <= Size
  /\ (MaxPools - 1) * PoolSize \in Nat
  /\ Places = 1 .. Size /\ Places \subseteq Nat /\ 0 \notin Places
  /\ IsFiniteSet(Places) /\ Cardinality(Places) = Size
  /\ \A b \in 1 .. Buckets : b \in Places
PROOF
  <1>1. Buckets \in Nat \ {0} /\ PoolSize \in Nat \ {0} /\ MaxPools - 1 \in Nat
    BY ImtTableAssumption
  <1>2. (MaxPools - 1) * PoolSize \in Nat
    BY <1>1
  <1>3. Size \in Nat /\ Buckets <= Size
    BY <1>1, <1>2 DEF Size
  <1>4. Places = 1 .. Size
    BY DEF Places, Size
  <1>5. IsFiniteSet(Places) /\ Cardinality(Places) = Size
    BY <1>3, <1>4, FS_Interval
  <1> QED
    BY <1>1, <1>2, <1>3, <1>4, <1>5

\* A sequence of one element.
LEMMA OneElement ==
  ASSUME NEW S, NEW s \in Seq(S), Len(s) = 1
  PROVE  s = <<s[1]>>
PROOF
  <1> DEFINE t == <<s[1]>>
  <1>1. s[1] \in S
    BY LenProperties
  <1>2. t \in Seq(S) /\ Len(t) = 1 /\ t[1] = s[1]
    BY <1>1
  <1> HIDE DEF t
  <1>3. \A i \in 1 .. Len(s) : s[i] = t[i]
    BY <1>2
  <1>4. s = t
    BY <1>2, <1>3, SeqEqual
  <1> QED
    BY <1>4 DEF t

-----------------------------------------------------------------------------
(***************************************************************************)
(* Chains.  Chain() follows pointers as often as there are places; what it *)
(* returns is the sequence that is linked and ends with a null pointer.    *)
(***************************************************************************)
IsChain(mem, b, s) ==
  /\ s \in Seq(Places) /\ Len(s) >= 1 /\ s[1] = b
  /\ \A i \in 1 .. Len(s) - 1 : mem[s[i]].next = s[i + 1] /\ s[i] < s[i + 1]
  /\ mem[s[Len(s)]].next = 0

IsPath(f, mem, b) ==
  f = [n \in Places |->
        IF n = 1 THEN <<b>>
        ELSE LET prev == f[n - 1]
                 next == mem[prev[Len(prev)]].next
             IN IF next = 0 THEN prev ELSE Append(prev, next)]

\* The elements of a chain are in the order of their places.
LEMMA ChainSorted ==
  ASSUME NEW mem, NEW b, NEW s, IsChain(mem, b, s)
  PROVE  \A i, j \in 1 .. Len(s) : i < j => s[i] < s[j]
PROOF
  <1>1. /\ Len(s) \in Nat /\ \A i \in 1 .. Len(s) : s[i] \in Nat
        /\ \A i \in 1 .. Len(s) - 1 : s[i] < s[i + 1]
    BY PlacesFacts, LenProperties DEF IsChain
  <1> DEFINE T == {j \in Nat : j \in 1 .. Len(s) =>
                     \A i \in 1 .. Len(s) : i < j => s[i] < s[j]}
  <1>2. 0 \in T
    OBVIOUS
  <1>3. \A j \in Nat : j \in T => j + 1 \in T
    <2> SUFFICES ASSUME NEW j \in T, j + 1 \in 1 .. Len(s),
                        NEW i \in 1 .. Len(s), i < j + 1
                 PROVE  s[i] < s[j + 1]
      OBVIOUS
    <2>1. j \in 1 .. Len(s) - 1 /\ j \in 1 .. Len(s)
      BY <1>1
    <2>2. s[j] < s[j + 1] /\ s[j] \in Nat /\ s[j + 1] \in Nat /\ s[i] \in Nat
      BY <1>1, <2>1
    <2>3. i = j \/ s[i] < s[j]
      BY <2>1
    <2> QED
      BY <2>2, <2>3
  <1> HIDE DEF T
  <1>4. Nat \subseteq T
    BY <1>2, <1>3, NatSetInduction
  <1> QED
    BY <1>4 DEF T

\* A chain is no longer than there are places.
LEMMA ChainFits ==
  ASSUME NEW mem, NEW b, NEW s, IsChain(mem, b, s)
  PROVE  Len(s) \in 1 .. Size
PROOF
  <1>1. /\ Len(s) \in Nat /\ Len(s) >= 1
        /\ \A i \in 1 .. Len(s) : s[i] \in 1 .. Size
        /\ \A i \in 1 .. Len(s) - 1 : s[i] < s[i + 1]
    BY PlacesFacts, LenProperties DEF IsChain
  <1> DEFINE T == {j \in Nat : j \in 1 .. Len(s) => s[j] >= j}
  <1>2. 0 \in T
    OBVIOUS
  <1>3. \A j \in Nat : j \in T => j + 1 \in T
    <2> SUFFICES ASSUME NEW j \in T,
                        j + 1 \in 1 .. Len(s) PROVE s[j + 1] >= j + 1
      OBVIOUS
    <2>1. CASE j = 0
      BY <1>1, <2>1, PlacesFacts
    <2>2. CASE j # 0
      <3>1. j \in 1 .. Len(s) - 1 /\ j \in 1 .. Len(s)
        BY <1>1, <2>2
      <3>2. s[j] < s[j + 1] /\ s[j] >= j /\ s[j] \in Nat /\ s[j + 1] \in Nat
        BY <1>1, <3>1, PlacesFacts
      <3> QED
        BY <3>2
    <2> QED
      BY <2>1, <2>2
  <1> HIDE DEF T
  <1>4. Nat \subseteq T
    BY <1>2, <1>3, NatSetInduction
  <1>5. s[Len(s)] >= Len(s) /\ s[Len(s)] \in 1 .. Size
    BY <1>1, <1>4 DEF T
  <1> QED
    BY <1>1, <1>5, PlacesFacts

\* What is linked from the bucket on is what Chain() returns.
LEMMA ChainIs ==
  ASSUME NEW mem, NEW b, NEW s, IsChain(mem, b, s)
  PROVE  ChainIn(mem, b) = s
PROOF
  <1> DEFINE most(n) == IF n < Len(s) THEN n ELSE Len(s)
             g == [n \in Places |-> SubSeq(s, 1, most(n))]
             path == CHOOSE f : IsPath(f, mem, b)
  <1>1. Len(s) \in 1 .. Size /\ Size \in Nat /\ Len(s) \in Nat
    BY ChainFits, PlacesFacts
  <1>2. s \in Seq(Places) /\ \A i \in 1 .. Len(s) : s[i] \in Places
    BY LenProperties DEF IsChain
  <1>3. \A n \in Places : /\ most(n) \in 1 .. Len(s)
                          /\ SubSeq(s, 1, most(n)) \in Seq(Places)
                          /\ Len(SubSeq(s, 1, most(n))) = most(n)
                          /\ \A i \in 1 .. most(n) : SubSeq(s, 1, most(n))[i]
                             = s[i]
    <2> TAKE n \in Places
    <2>1. most(n) \in 1 .. Len(s)
      BY <1>1, PlacesFacts
    <2> HIDE DEF most
    <2> QED
      BY <1>1, <1>2, <2>1
  <1>4. IsPath(g, mem, b)
    <2> SUFFICES ASSUME NEW n \in Places
                 PROVE  g[n] = IF n = 1 THEN <<b>>
                          ELSE LET prev == g[n - 1]
                                   next == mem[prev[Len(prev)]].next
                               IN IF next = 0 THEN prev ELSE Append(prev, next)
      BY DEF IsPath
    <2>1. CASE n = 1
      <3>1. most(n) = 1
        BY <1>1, <2>1
      <3>2. g[n] = SubSeq(s, 1, 1)
        BY <3>1
      <3>3. SubSeq(s, 1, 1) = <<s[1]>>
        <4>1. SubSeq(s, 1, 1) \in Seq(Places)
          BY <1>3, <3>1, <2>1
        <4>2. Len(SubSeq(s, 1, 1)) = 1 /\ SubSeq(s, 1, 1)[1] = s[1]
          BY <1>1, <1>2
        <4> QED
          BY <4>1, <4>2, OneElement
      <3> QED
        BY <2>1, <3>2, <3>3 DEF IsChain
    <2>2. CASE n # 1
      <3>1. n - 1 \in Places
        BY <2>2, PlacesFacts
      <3> DEFINE prev == g[n - 1]
      <3>2. /\ prev = SubSeq(s, 1, most(n - 1)) /\ most(n - 1) \in 1 .. Len(s)
            /\ Len(prev) = most(n - 1) /\ prev[Len(prev)] = s[most(n - 1)]
        BY <1>3, <3>1
      <3>3. CASE n - 1 < Len(s)
        <4>1. most(n - 1) = n - 1 /\ most(n) = n /\ n - 1 \in 1 .. Len(s) - 1
              /\ n \in 1 .. Len(s)
          BY <1>1, <2>2, <3>3, PlacesFacts
        <4>2. mem[prev[Len(prev)]].next = s[n] /\ s[n] # 0
          BY <1>2, <3>2, <4>1, PlacesFacts DEF IsChain
        <4>3. SubSeq(s, 1, n) = Append(SubSeq(s, 1, n - 1), s[n])
          BY <1>1, <1>2, <4>1
        <4> QED
          BY <2>2, <3>2, <4>1, <4>2, <4>3
      <3>4. CASE ~(n - 1 < Len(s))
        <4>1. most(n - 1) = Len(s) /\ most(n) = Len(s)
          BY <1>1, <2>2, <3>4, PlacesFacts
        <4>2. mem[prev[Len(prev)]].next = 0
          BY <3>2, <4>1 DEF IsChain
        <4> QED
          BY <2>2, <3>2, <4>1, <4>2
      <3> QED
        BY <3>3, <3>4, Zenon
    <2> QED
      BY <2>1, <2>2, ZenonT(30)
  <1>5. IsPath(path, mem, b)
    BY <1>4
  <1> HIDE DEF g, path, most
  <1> DEFINE T == {n \in Nat : n \in Places => path[n] = g[n]}
  <1>6. 0 \in T
    BY PlacesFacts
  <1>7. \A n \in Nat : n \in T => n + 1 \in T
    <2> SUFFICES ASSUME NEW n \in T,
                        n + 1 \in Places PROVE path[n + 1] = g[n + 1]
      OBVIOUS
    <2>1. n + 1 # 1 => n \in Places
      BY PlacesFacts
    <2>2. n + 1 # 1 => path[n] = g[n]
      BY <2>1
    <2>3. n \in Nat /\ (n + 1) - 1 = n
      OBVIOUS
    <2> DEFINE m == n + 1
    <2>4. m \in Places /\ m - 1 = n
      BY <2>3
    <2> HIDE DEF m
    <2>5. path[m] = IF m = 1 THEN <<b>>
                    ELSE LET prev == path[m - 1]
                             next == mem[prev[Len(prev)]].next
                         IN IF next = 0 THEN prev ELSE Append(prev, next)
      BY <1>5, <2>4, ZenonT(30) DEF IsPath
    <2>6. g[m] = IF m = 1 THEN <<b>>
                 ELSE LET prev == g[m - 1]
                          next == mem[prev[Len(prev)]].next
                      IN IF next = 0 THEN prev ELSE Append(prev, next)
      BY <1>4, <2>4, Zenon DEF IsPath
    <2>7. path[m] = g[m]
      BY <2>2, <2>4, <2>5, <2>6 DEF m
    <2> QED
      BY <2>7 DEF m
  <1> HIDE DEF T
  <1>8. Nat \subseteq T
    BY <1>6, <1>7, NatSetInduction
  <1>9. Size \in Places /\ path[Size] = g[Size]
    BY <1>1, <1>8, PlacesFacts DEF T
  <1>10. g[Size] = s
    BY <1>1, <1>2, <1>9 DEF g, most
  <1>11. ChainIn(mem, b) = path[Cardinality(Places)]
    BY DEF ChainIn, path, IsPath
  <1> QED
    BY <1>9, <1>10, <1>11, PlacesFacts

On(mem, c, b) == \E i \in 1 .. Len(ChainIn(mem, b)) : ChainIn(mem, b)[i] = c

\* The chains of a memory in which u elements were taken from the pools.
Wired(mem, u) ==
  /\ \A b \in 1 .. Buckets : IsChain(mem, b, ChainIn(mem, b))
  /\ \A b \in 1 .. Buckets, c \in Places : On(mem, c, b) => c <= Buckets + u
  /\ \A b, d \in 1 .. Buckets,
     c \in Places : On(mem, c, b) /\ On(mem, c, d) => b = d

\* Chains depend on the pointers only.
LEMMA ChainsKept ==
  ASSUME NEW mem, NEW u, Wired(mem, u), NEW new,
         \A c \in Places : new[c].next = mem[c].next
  PROVE  /\ \A b \in 1 .. Buckets : ChainIn(new, b) = ChainIn(mem, b)
         /\ \A b \in 1 .. Buckets : \A c : On(new, c, b) <=> On(mem, c, b)
         /\ Wired(new, u)
PROOF
  <1>1. ASSUME NEW b \in 1 .. Buckets
        PROVE  ChainIn(new, b) = ChainIn(mem, b)
               /\ IsChain(new, b, ChainIn(mem, b))
    <2> DEFINE s == ChainIn(mem, b)
    <2>1. IsChain(mem, b, s)
      BY DEF Wired
    <2> HIDE DEF s
    <2>2. Len(s) \in Nat /\ \A i \in 1 .. Len(s) : s[i] \in Places
      BY <2>1, LenProperties DEF IsChain
    <2>3. IsChain(new, b, s)
      BY <2>1, <2>2 DEF IsChain
    <2>4. ChainIn(new, b) = s
      BY <2>3, ChainIs
    <2> QED
      BY <2>3, <2>4 DEF s
  <1>2. \A b \in 1 .. Buckets : \A c : On(new, c, b) <=> On(mem, c, b)
    BY <1>1 DEF On
  <1> QED
    BY <1>1, <1>2 DEF Wired

\* Without pointers every chain is its bucket.
LEMMA ChainsEmpty ==
  ASSUME NEW mem, \A c \in Places : mem[c].next = 0
  PROVE  /\ \A b \in 1 .. Buckets : ChainIn(mem, b) = <<b>>
         /\ \A b \in 1 .. Buckets : \A c : On(mem, c, b) <=> c = b
         /\ Wired(mem, 0)
PROOF
  <1>1. ASSUME NEW b \in 1 .. Buckets
        PROVE  IsChain(mem, b, <<b>>) /\ ChainIn(mem, b) = <<b>>
    <2>1. b \in Places
      BY PlacesFacts
    <2>2. <<b>> \in Seq(Places) /\ Len(<<b>>) = 1 /\ <<b>>[1] = b
      BY <2>1
    <2>3. IsChain(mem, b, <<b>>)
      BY <2>1, <2>2 DEF IsChain
    <2> QED
      BY <2>3, ChainIs
  <1>2. \A b \in 1 .. Buckets : \A c : On(mem, c, b) <=> c = b
    <2> TAKE b \in 1 .. Buckets
    <2> TAKE c
    <2> DEFINE s == <<b>>
    <2>1. Len(s) = 1 /\ s[1] = b
      OBVIOUS
    <2>2. ChainIn(mem, b) = s
      BY <1>1
    <2> HIDE DEF s
    <2>3. On(mem, c, b) <=> \E i \in 1 .. 1 : s[i] = c
      BY <2>1, <2>2 DEF On
    <2> QED
      BY <2>1, <2>3
  <1>3. \A b \in 1 .. Buckets : IsChain(mem, b, ChainIn(mem, b))
    BY <1>1
  <1>4. Buckets \in Nat
    BY PlacesFacts
  <1>5. Wired(mem, 0)
    BY <1>2, <1>3, <1>4 DEF Wired
  <1> QED
    BY <1>1, <1>2, <1>5

\* An element of a chain is followed by the next larger place of the chain.
LEMMA ChainOrder ==
  ASSUME NEW mem, NEW u, Wired(mem, u), NEW b \in 1 .. Buckets
  PROVE  /\ On(mem, b, b)
         /\ \A c : On(mem, c, b) =>
              /\ c \in Places /\ b <= c
              /\ mem[c].next # 0 =>
                   /\ On(mem, mem[c].next, b) /\ c < mem[c].next
                   /\ \A d : On(mem, d, b) => d <= c \/ mem[c].next <= d
              /\ mem[c].next = 0 =>
                   /\ \A d : On(mem, d, b) => d <= c
                   /\ c = ChainIn(mem, b)[Len(ChainIn(mem, b))]
PROOF
  <1> DEFINE s == ChainIn(mem, b)
  <1>1. IsChain(mem, b, s)
    BY DEF Wired
  <1>2. \A c : On(mem, c, b) <=> \E i \in 1 .. Len(s) : s[i] = c
    BY DEF On
  <1> HIDE DEF s
  <1>3. /\ Len(s) \in Nat /\ Len(s) >= 1
        /\ \A i \in 1 .. Len(s) : s[i] \in Places
        /\ s[1] = b /\ mem[s[Len(s)]].next = 0
        /\ \A i \in 1 .. Len(s) - 1 : mem[s[i]].next = s[i + 1]
    BY <1>1, LenProperties DEF IsChain
  <1>4. \A i, j \in 1 .. Len(s) : i < j => s[i] < s[j]
    BY <1>1, ChainSorted
  <1>5. On(mem, b, b)
    BY <1>2, <1>3
  <1>6. ASSUME NEW c, On(mem, c, b)
        PROVE  /\ c \in Places /\ b <= c
               /\ mem[c].next # 0 =>
                    /\ On(mem, mem[c].next, b) /\ c < mem[c].next
                    /\ \A d : On(mem, d, b) => d <= c \/ mem[c].next <= d
               /\ mem[c].next = 0 => /\ \A d : On(mem, d, b) => d <= c
                                     /\ c = s[Len(s)]
    <2>1. PICK i \in 1 .. Len(s) : s[i] = c
      BY <1>2, <1>6
    <2>2. c \in Places /\ c \in Nat
      BY <1>3, <2>1, PlacesFacts
    <2>3. b <= c
      <3>1. 1 \in 1 .. Len(s) /\ b \in Nat
        BY <1>3
      <3>2. CASE i = 1
        BY <1>3, <2>1, <3>1, <3>2
      <3>3. CASE i # 1
        BY <1>3, <1>4, <2>1, <2>2, <3>1, <3>3
      <3> QED
        BY <3>2, <3>3
    <2>4. CASE i = Len(s)
      <3>1. mem[c].next = 0
        BY <1>3, <2>1, <2>4
      <3>2. ASSUME NEW d, On(mem, d, b) PROVE d <= c
        <4>1. PICK j \in 1 .. Len(s) : s[j] = d
          BY <1>2, <3>2
        <4>2. d \in Nat /\ (j = i \/ j < i)
          BY <1>3, <2>4, <4>1, PlacesFacts
        <4> QED
          BY <1>4, <2>1, <2>2, <4>1, <4>2
      <3> QED
        BY <2>1, <2>2, <2>3, <2>4, <3>1, <3>2
    <2>5. CASE i # Len(s)
      <3>1. i \in 1 .. Len(s) - 1 /\ i + 1 \in 1 .. Len(s)
        BY <1>3, <2>5
      <3>2. mem[c].next = s[i + 1] /\ s[i + 1] \in Places /\ s[i + 1] # 0
        BY <1>3, <2>1, <3>1, PlacesFacts
      <3>3. c < s[i + 1] /\ On(mem, s[i + 1], b)
        BY <1>2, <1>4, <2>1, <3>1
      <3>4. ASSUME NEW d, On(mem, d, b) PROVE d <= c \/ s[i + 1] <= d
        <4>1. PICK j \in 1 .. Len(s) : s[j] = d
          BY <1>2, <3>4
        <4>2. d \in Nat /\ s[i + 1] \in Nat
          BY <1>3, <3>2, <4>1, PlacesFacts
        <4>3. j = i \/ j < i \/ j = i + 1 \/ i + 1 < j
          BY <3>1
        <4> QED
          BY <1>4, <2>1, <2>2, <3>1, <4>1, <4>2, <4>3
      <3> QED
        BY <2>2, <2>3, <3>2, <3>3, <3>4
    <2> QED
      BY <2>4, <2>5
  <1> QED
    BY <1>5, <1>6 DEF s

\* A new element at the end of a chain.
LEMMA ChainExtended ==
  ASSUME NEW mem, NEW u \in Nat, Wired(mem, u), NEW b \in 1 .. Buckets,
         NEW last, last = ChainIn(mem, b)[Len(ChainIn(mem, b))],
         NEW new \in Places, new = Buckets + u + 1,
         NEW ext, ext[last].next = new, ext[new].next = 0,
         \A c \in Places \ {last, new} : ext[c].next = mem[c].next
  PROVE  /\ \A d \in 1 .. Buckets : \A c :
              On(ext, c, d) <=> On(mem, c, d) \/ (c = new /\ d = b)
         /\ Wired(ext, u + 1)
PROOF
  <1> DEFINE s == ChainIn(mem, b)
             t == Append(s, new)
  <1>1. /\ \A d \in 1 .. Buckets : IsChain(mem, d, ChainIn(mem, d))
        /\ \A d \in 1 .. Buckets,
           c \in Places : On(mem, c, d) => c <= Buckets + u
        /\ \A d, e \in 1 .. Buckets,
           c \in Places : On(mem, c, d) /\ On(mem, c, e) => d = e
    BY DEF Wired
  <1>2. IsChain(mem, b, s) /\ last = s[Len(s)]
    BY <1>1
  <1>s. \A c : On(mem, c, b) <=> \E i \in 1 .. Len(s) : s[i] = c
    BY DEF On
  <1> HIDE DEF s
  <1>3. /\ s \in Seq(Places) /\ Len(s) \in Nat /\ Len(s) >= 1 /\ s[1] = b
        /\ \A i \in 1 .. Len(s) : s[i] \in Places /\ s[i] \in Nat
        /\ \A i \in 1 .. Len(s) - 1 : mem[s[i]].next = s[i + 1]
           /\ s[i] < s[i + 1]
    BY <1>2, LenProperties, PlacesFacts DEF IsChain
  <1>4. On(mem, last, b) /\ last \in Places
    BY <1>2, <1>3, <1>s
  <1>5. \A d \in 1 .. Buckets : \A c : On(mem, c, d) => c \in Places /\ c # new
    <2> TAKE d \in 1 .. Buckets
    <2> TAKE c
    <2> HAVE On(mem, c, d)
    <2>1. c \in Places
      BY ChainOrder
    <2>2. c <= Buckets + u /\ c \in Nat /\ Buckets \in Nat
      BY <1>1, <2>1, PlacesFacts
    <2> QED
      BY <2>1, <2>2
  <1>6. last < new /\ last # new
    <2>1. last <= Buckets + u /\ last \in Nat /\ Buckets \in Nat
      BY <1>1, <1>4, PlacesFacts
    <2> QED
      BY <2>1
  <1>7. /\ t \in Seq(Places) /\ Len(t) = Len(s) + 1 /\ t[Len(s) + 1] = new
        /\ \A i \in 1 .. Len(s) : t[i] = s[i]
    BY <1>3
  <1> HIDE DEF t
  <1>8. IsChain(ext, b, t)
    <2>1. t[1] = b /\ Len(t) >= 1
      BY <1>3, <1>7
    <2>2. ext[t[Len(t)]].next = 0
      BY <1>7
    <2>3. ASSUME NEW i \in 1 .. Len(t) - 1
          PROVE  ext[t[i]].next = t[i + 1] /\ t[i] < t[i + 1]
      <3>1. i \in 1 .. Len(s) /\ t[i] = s[i]
        BY <1>3, <1>7
      <3>2. CASE i = Len(s)
        BY <1>2, <1>6, <1>7, <3>1, <3>2
      <3>3. CASE i # Len(s)
        <4>1. i \in 1 .. Len(s) - 1 /\ i + 1 \in 1 .. Len(s)
              /\ t[i + 1] = s[i + 1]
          BY <1>3, <1>7, <3>1, <3>3
        <4>2. s[i] # last
          <5>1. Len(s) \in 1 .. Len(s) /\ i < Len(s)
            BY <1>3, <4>1
          <5>2. s[i] < s[Len(s)]
            BY <1>2, <3>1, <5>1, ChainSorted
          <5> QED
            BY <1>2, <1>3, <3>1, <5>1, <5>2
        <4>3. s[i] # new /\ s[i] \in Places
          BY <1>3, <1>5, <1>s, <3>1
        <4> QED
          BY <1>3, <3>1, <4>1, <4>2, <4>3
      <3> QED
        BY <3>2, <3>3
    <2> QED
      BY <1>7, <2>1, <2>2, <2>3 DEF IsChain
  <1>9. ChainIn(ext, b) = t
    BY <1>8, ChainIs
  <1>10. ASSUME NEW d \in 1 .. Buckets, d # b
         PROVE  IsChain(ext, d, ChainIn(mem, d))
                /\ ChainIn(ext, d) = ChainIn(mem, d)
    <2> DEFINE r == ChainIn(mem, d)
    <2>1. IsChain(mem, d, r)
      BY <1>1
    <2>2. \A c : On(mem, c, d) <=> \E i \in 1 .. Len(r) : r[i] = c
      BY DEF On
    <2> HIDE DEF r
    <2>3. Len(r) \in Nat /\ Len(r) >= 1
          /\ \A i \in 1 .. Len(r) : r[i] \in Places
      BY <2>1, LenProperties DEF IsChain
    <2>4. ASSUME NEW i \in 1 .. Len(r) PROVE ext[r[i]].next = mem[r[i]].next
      <3>1. On(mem, r[i], d) /\ r[i] \in Places
        BY <2>2, <2>3
      <3>2. r[i] # new /\ r[i] # last
        BY <1>1, <1>4, <1>5, <1>10, <3>1
      <3> QED
        BY <3>1, <3>2
    <2>5. ext[r[Len(r)]].next = 0
      BY <2>1, <2>3, <2>4 DEF IsChain
    <2>6. \A i \in 1 .. Len(r) - 1 : ext[r[i]].next = r[i + 1]
          /\ r[i] < r[i + 1]
      BY <2>1, <2>3, <2>4 DEF IsChain
    <2>7. IsChain(ext, d, r)
      BY <2>1, <2>5, <2>6 DEF IsChain
    <2> QED
      BY <2>7, ChainIs DEF r
  <1>11. \A c : On(ext, c, b) <=> On(mem, c, b) \/ c = new
    <2> TAKE c
    <2>1. On(ext, c, b) <=> \E i \in 1 .. Len(t) : t[i] = c
      BY <1>9 DEF On
    <2>2. On(ext, c, b) => On(mem, c, b) \/ c = new
      <3> SUFFICES ASSUME NEW i \in 1 .. Len(t),
                          t[i] = c PROVE On(mem, c, b) \/ c = new
        BY <2>1
      <3>1. i \in 1 .. Len(s) \/ i = Len(s) + 1
        BY <1>3, <1>7
      <3> QED
        BY <1>7, <1>s, <3>1
    <2>3. On(mem, c, b) => On(ext, c, b)
      <3> SUFFICES ASSUME NEW i \in 1 .. Len(s), s[i] = c PROVE On(ext, c, b)
        BY <1>s
      <3>1. i \in 1 .. Len(t) /\ t[i] = c
        BY <1>3, <1>7
      <3> QED
        BY <2>1, <3>1
    <2>4. c = new => On(ext, c, b)
      <3>1. Len(s) + 1 \in 1 .. Len(t)
        BY <1>3, <1>7
      <3> QED
        BY <1>7, <2>1, <3>1
    <2> QED
      BY <2>2, <2>3, <2>4
  <1>12. \A d \in 1 .. Buckets : \A c :
           On(ext, c, d) <=> On(mem, c, d) \/ (c = new /\ d = b)
    <2> TAKE d \in 1 .. Buckets
    <2> TAKE c
    <2>1. CASE d = b
      BY <1>11, <2>1
    <2>2. CASE d # b
      <3>1. ChainIn(ext, d) = ChainIn(mem, d)
        BY <1>10, <2>2
      <3>2. On(ext, c, d) <=> On(mem, c, d)
        BY <3>1 DEF On
      <3> QED
        BY <2>2, <3>2
    <2> QED
      BY <2>1, <2>2
  <1>13. Wired(ext, u + 1)
    <2>1. \A d \in 1 .. Buckets : IsChain(ext, d, ChainIn(ext, d))
      BY <1>8, <1>9, <1>10
    <2>2. \A d \in 1 .. Buckets,
          c \in Places : On(ext, c, d) => c <= Buckets + (u + 1)
      BY <1>1, <1>12, PlacesFacts
    <2>3. \A d, e \in 1 .. Buckets,
          c \in Places : On(ext, c, d) /\ On(ext, c, e) => d = e
      BY <1>1, <1>5, <1>12
    <2> QED
      BY <2>1, <2>2, <2>3 DEF Wired
  <1> QED
    BY <1>12, <1>13

\* A place is in a chain once, or not at all.
LEMMA OnOnce ==
  ASSUME NEW mem, NEW u, Wired(mem, u), NEW b \in 1 .. Buckets, NEW c
  PROVE  Cardinality({i \in DOMAIN ChainIn(mem, b) : ChainIn(mem, b)[i] = c}) =
           IF On(mem, c, b) THEN 1 ELSE 0
PROOF
  <1> DEFINE s == ChainIn(mem, b)
             I == {i \in DOMAIN s : s[i] = c}
  <1>1. IsChain(mem, b, s)
    BY DEF Wired
  <1>2. On(mem, c, b) <=> \E i \in 1 .. Len(s) : s[i] = c
    BY DEF On
  <1> HIDE DEF s
  <1>3. DOMAIN s = 1 .. Len(s) /\ \A i \in 1 .. Len(s) : s[i] \in Nat
    BY <1>1, LenProperties, PlacesFacts DEF IsChain
  <1>4. \A i, j \in 1 .. Len(s) : i < j => s[i] < s[j]
    BY <1>1, ChainSorted
  <1>5. CASE On(mem, c, b)
    <2>1. PICK i \in 1 .. Len(s) : s[i] = c
      BY <1>2, <1>5
    <2>2. I = {i}
      <3> SUFFICES ASSUME NEW j \in 1 .. Len(s), s[j] = c PROVE j = i
        BY <1>3, <2>1
      <3>1. ~(i < j) /\ ~(j < i)
        BY <1>3, <1>4, <2>1
      <3> QED
        BY <3>1
    <2> QED
      BY <1>5, <2>2, FS_Singleton DEF s
  <1>6. CASE ~On(mem, c, b)
    <2>1. I = {}
      BY <1>2, <1>3, <1>6
    <2> QED
      BY <1>6, <2>1, FS_EmptySet DEF s
  <1> QED
    BY <1>5, <1>6

-----------------------------------------------------------------------------
(***************************************************************************)
(* The invariant: types, the memory and its chains, the calls of           *)
(* process_query_data(), and how far each walk has come.                   *)
(***************************************************************************)
Cell(u) ==
  [key : Keys \cup {0}, bytes : Nat, type : BOOLEAN, flag : BOOLEAN,
   next : {0} \cup (Buckets + 1 .. Buckets + u)]

\* Elements with a key are in the chain of their bucket; those without are
\* blank, and what was not taken from a pool yet has none.
Memory(mem, u) ==
  /\ mem \in [Places -> Cell(u)]
  /\ Wired(mem, u)
  /\ \A c \in Places :
       /\ mem[c].key # 0 => On(mem, c, Hash[mem[c].key])
       /\ mem[c].key = 0 => mem[c].bytes = 0 /\ mem[c].next = 0 /\ ~mem[c].type
       /\ ~mem[c].type => mem[c].bytes = 0
       /\ c > Buckets => (mem[c].key = 0 <=> c > Buckets + u)

\* One element per key, none of them at zero.
Lone(mem) ==
  /\ \A c \in Places : mem[c].key # 0 => mem[c].bytes # 0
  /\ \A c, d \in Places : mem[c].key = mem[d].key => c = d \/ mem[c].key = 0

Scalars ==
  /\ used \in 0 .. (MaxPools - 1) * PoolSize
  /\ mapped \in 2 .. MaxPools
  /\ lru \in [1 .. Buckets -> Places \cup {0}]
  /\ no_more_space \in BOOLEAN /\ lock \in BOOLEAN /\ go_to_clear \in BOOLEAN
  /\ raced \subseteq Keys /\ holed \in BOOLEAN /\ clears \in Nat
  /\ count \in [records : Nat, queries : Nat]
  /\ book \in [Keys -> [fed : Nat, taken : Nat, gone : Nat]]

Request == [exact : BOOLEAN, all : BOOLEAN, keys : SUBSET Keys]
Whole(todo) ==
  \A i \in 1 .. Len(todo) : todo[i].exact => \E k \in Keys : todo[i].keys = {k}
Snapshot ==
  [key : Keys \cup {0}, bytes : Nat, type : BOOLEAN, flag : BOOLEAN, next : {0}]
Call ==
  [pc : {"idle", "visit", "reset", "move", "end"}, at : Nat, idx : Nat,
   todo : Seq(Request), reset : BOOLEAN, seen : Snapshot, mapped : Nat,
   since : Nat, far : SUBSET Places, old : SUBSET Places, got : SUBSET Places,
   twice : BOOLEAN]

CallOK(s) ==
  s.pc # "idle" =>
    /\ s.at \in Places /\ PoolOf(s.at) <= s.mapped /\ s.mapped >= 2
    /\ s.idx \in 1 .. Buckets /\ s.todo # << >> /\ Whole(s.todo)
    /\ s.pc = "reset" => s.seen.key \in Keys /\ Visible(s.seen)

\* The plugin has all primitives on its heap, a child what was there before.
Heap(p, s) ==
  s.far \subseteq IF p = 0 \/ s.pc = "idle" THEN {} ELSE Places

Calls ==
  /\ srv \in [Procs -> Call]
  /\ \A p \in Procs :
       CallOK(srv[p]) /\ Heap(p, srv[p]) /\ srv[p].since <= clears

TableInv ==
  Scalars /\ Memory(cells, used) /\ (holed \/ Lone(cells)) /\ Calls

\* What a walk has left behind: the buckets before its own, unless it is for a
\* whole key, and of its own bucket what is before the element at hand, or is
\* that element when it has been tested.
Behind(mem, s, c) ==
  \E b \in 1 .. Buckets :
    /\ On(mem, c, b)
    /\ \/ b < s.idx /\ ~Head(s.todo).exact
       \/ b = s.idx /\ (c < s.at \/ (c = s.at /\ s.pc # "visit"))

\* A walk through a table that was not erased since it began.
Walk(mem, s, h) ==
  /\ ~s.twice
  /\ s.pc # "end" => On(mem, s.at, s.idx)
  /\ Head(s.todo).exact => \A k \in Head(s.todo).keys : s.idx = Hash[k]
  /\ \A c \in s.old \ s.got : Visible(mem[c])
     /\ mem[c].key \in Head(s.todo).keys
  /\ Head(s.todo).all \/ \A c \in s.old \ s.got : c \notin s.far
  /\ s.pc # "end" => /\ \A c \in s.got : Behind(mem, s, c)
                     /\ \A c \in s.old : Behind(mem, s, c) => c \in s.got
  /\ s.pc = "end" \/ (s.pc = "reset" /\ Head(s.todo).exact) =>
       s.old \subseteq s.got \/ (Head(s.todo).exact /\ h)

Walks ==
  \A p \in Procs :
    srv[p].pc # "idle" /\ srv[p].since = clears => Walk(cells, srv[p], holed)

-----------------------------------------------------------------------------
(***************************************************************************)
(* Pools                                                                   *)
(***************************************************************************)
\* Division of natural numbers is monotonic.
LEMMA DivMonotonic ==
  ASSUME NEW n \in Nat \ {0}, NEW a \in Nat, NEW b \in Nat, a <= b
  PROVE  /\ a \div n \in Nat /\ b \div n \in Nat /\ a \div n <= b \div n
         /\ a < n * (a \div n) + n
PROOF
  <1>1. /\ a \div n \in Int /\ b \div n \in Int
        /\ n * (a \div n) <= a /\ a < n * (a \div n) + n
        /\ n * (b \div n) <= b /\ b < n * (b \div n) + n
    OBVIOUS
  <1>2. PICK p \in Int, q \in Int : p = a \div n /\ q = b \div n
    BY <1>1
  <1>3. /\ n * p <= a /\ a < n * p + n /\ n * q <= b /\ b < n * q + n
    BY <1>1, <1>2
  <1>4. \A z \in Int : z >= 1 => n * z >= n
    OBVIOUS
  <1>5. n * (p - q) = n * p - n * q /\ n * (-p) = -(n * p)
        /\ n * (-q) = -(n * q)
        /\ n * p \in Int /\ n * q \in Int
    OBVIOUS
  <1>6. ~(p - q >= 1)
    BY <1>3, <1>4, <1>5
  <1>7. ~(-p >= 1) /\ ~(-q >= 1)
    BY <1>3, <1>4, <1>5
  <1>8. p \in Nat /\ q \in Nat /\ p <= q
    BY <1>2, <1>6, <1>7
  <1> QED
    BY <1>1, <1>2, <1>8

\* Buckets are pool 1; pools follow in the order of places, and an element of
\* the last pool is a place.
LEMMA PoolFacts ==
  /\ \A c \in Nat : PoolOf(c) \in Nat /\ PoolOf(c) >= 1
  /\ \A c \in 1 .. Buckets : PoolOf(c) = 1
  /\ \A c \in Nat : c > Buckets => PoolOf(c) >= 2
  /\ \A c, d \in Nat : c <= d => PoolOf(c) <= PoolOf(d)
  /\ \A u \in Nat : PoolOf(Buckets + u + 1) <= MaxPools =>
       u + 1 <= (MaxPools - 1) * PoolSize /\ Buckets + u + 1 \in Places
PROOF
  <1>1. Buckets \in Nat \ {0} /\ PoolSize \in Nat \ {0} /\ MaxPools \in Nat
        /\ MaxPools >= 2
    BY ImtTableAssumption
  <1>2. ASSUME NEW c \in Nat, c > Buckets
        PROVE  /\ c - Buckets - 1 \in Nat
               /\ (c - Buckets - 1) \div PoolSize \in Nat
               /\ PoolOf(c) = 2 + (c - Buckets - 1) \div PoolSize
    <2>1. c - Buckets - 1 \in Nat
      BY <1>1, <1>2
    <2>2. (c - Buckets - 1) \div PoolSize \in Nat
      BY <1>1, <2>1, DivMonotonic
    <2> QED
      BY <1>1, <1>2, <2>1, <2>2 DEF PoolOf
  <1>3. \A c \in Nat : c <= Buckets => PoolOf(c) = 1
    BY DEF PoolOf
  <1>4. \A c \in Nat : PoolOf(c) \in Nat /\ PoolOf(c) >= 1
        /\ (c > Buckets => PoolOf(c) >= 2)
    <2> TAKE c \in Nat
    <2>1. CASE c > Buckets
      BY <1>2, <2>1
    <2>2. CASE ~(c > Buckets)
      BY <1>1, <1>3, <2>2
    <2> QED
      BY <2>1, <2>2
  <1>5. \A c, d \in Nat : c <= d => PoolOf(c) <= PoolOf(d)
    <2> SUFFICES ASSUME NEW c \in Nat, NEW d \in Nat,
                        c <= d PROVE PoolOf(c) <= PoolOf(d)
      OBVIOUS
    <2>1. CASE c > Buckets
      <3>1. d > Buckets /\ c - Buckets - 1 <= d - Buckets - 1
        BY <1>1, <2>1
      <3>2. c - Buckets - 1 \in Nat /\ d - Buckets - 1 \in Nat
        BY <1>2, <2>1, <3>1
      <3>3. (c - Buckets - 1) \div PoolSize <= (d - Buckets - 1) \div PoolSize
        BY <1>1, <3>1, <3>2, DivMonotonic
      <3>4. /\ (c - Buckets - 1) \div PoolSize \in Nat
            /\ (d - Buckets - 1) \div PoolSize \in Nat
            /\ PoolOf(c) = 2 + (c - Buckets - 1) \div PoolSize
            /\ PoolOf(d) = 2 + (d - Buckets - 1) \div PoolSize
        BY <1>2, <2>1, <3>1
      <3> QED
        BY <3>3, <3>4
    <2>2. CASE ~(c > Buckets)
      <3>1. PoolOf(c) = 1
        BY <1>1, <1>3, <2>2
      <3> QED
        BY <1>4, <3>1
    <2> QED
      BY <2>1, <2>2
  <1>6. ASSUME NEW u \in Nat, PoolOf(Buckets + u + 1) <= MaxPools
        PROVE  u + 1 <= (MaxPools - 1) * PoolSize /\ Buckets + u + 1 \in Places
    <2> DEFINE c == Buckets + u + 1
               q == u \div PoolSize
    <2>1. c \in Nat /\ c > Buckets /\ c - Buckets - 1 = u
      BY <1>1
    <2>2. PoolOf(c) = 2 + q /\ q \in Nat
      <3>1. PoolOf(c) = 2 + (c - Buckets - 1) \div PoolSize
            /\ (c - Buckets - 1) \div PoolSize \in Nat
        BY <1>2, <2>1
      <3> QED
        BY <2>1, <3>1
    <2>3. u < PoolSize * q + PoolSize
      BY <1>1, DivMonotonic
    <2>4. q <= MaxPools - 2
      BY <1>1, <1>6, <2>2
    <2> HIDE DEF q
    <2>5. PICK d \in Nat : d = MaxPools - 2 - q
      BY <1>1, <2>2, <2>4
    <2>6. (MaxPools - 1) * PoolSize = PoolSize * q + PoolSize * d + PoolSize
      <3>1. MaxPools - 1 = q + d + 1
        BY <1>1, <2>2, <2>5
      <3>2. (q + d + 1) * PoolSize = PoolSize * q + PoolSize * d + PoolSize
        BY <1>1, <2>2, <2>5
      <3> QED
        BY <3>1, <3>2
    <2>7. PoolSize * q \in Nat /\ PoolSize * d \in Nat
      BY <1>1, <2>2, <2>5
    <2>8. u + 1 <= (MaxPools - 1) * PoolSize
      BY <1>1, <2>3, <2>6, <2>7
    <2>9. (MaxPools - 1) * PoolSize \in Nat
      BY <1>1, <2>6, <2>7
    <2> QED
      BY <1>1, <2>8, <2>9 DEF Places
  <1> QED
    BY <1>1, <1>3, <1>4, <1>5, <1>6

-----------------------------------------------------------------------------
(***************************************************************************)
(* What the operations do to memory and calls                              *)
(***************************************************************************)
\* Keys have buckets.
LEMMA KeyFacts ==
  /\ 0 \notin Keys /\ Keys \subseteq Nat
  /\ \A k \in Keys : Hash[k] \in 1 .. Buckets /\ Hash[k] \in Places
PROOF
  BY ImtTableAssumption, PlacesFacts

\* Stores that leave pointers alone, and give a key only to an element of the
\* key's chain.
LEMMA MemoryKept ==
  ASSUME NEW mem, NEW u \in Nat, Memory(mem, u),
         NEW new \in [Places -> Cell(u)],
         \A c \in Places :
           /\ new[c].next = mem[c].next
           /\ \/ /\ new[c].key = mem[c].key
                 /\ new[c].key = 0 => new[c].bytes = 0 /\ ~new[c].type
                 /\ ~new[c].type => new[c].bytes = 0
              \/ /\ new[c].key \in Keys /\ On(mem, c, Hash[new[c].key])
                 /\ new[c].type
  PROVE  Memory(new, u)
PROOF
  <1>1. /\ Wired(new, u)
        /\ \A b \in 1 .. Buckets : \A c : On(new, c, b) <=> On(mem, c, b)
    BY ChainsKept DEF Memory
  <1>2. ASSUME NEW c \in Places
        PROVE  /\ new[c].key # 0 => On(new, c, Hash[new[c].key])
               /\ new[c].key = 0 => /\ new[c].bytes = 0 /\ new[c].next = 0
                                    /\ ~new[c].type
               /\ ~new[c].type => new[c].bytes = 0
               /\ c > Buckets => (new[c].key = 0 <=> c > Buckets + u)
    <2>1. CASE new[c].key = mem[c].key
      <3>1. new[c].key \in Keys \cup {0}
        BY DEF Cell
      <3>2. new[c].key # 0 => On(new, c, Hash[new[c].key])
        BY <1>1, <2>1, <3>1, KeyFacts DEF Memory
      <3>3. new[c].key \in Keys /\ new[c].type => new[c].key # 0
        BY KeyFacts
      <3> QED
        BY <2>1, <3>2, <3>3 DEF Memory
    <2>2. CASE /\ new[c].key \in Keys /\ On(mem, c, Hash[new[c].key])
               /\ new[c].type
      <3>1. new[c].key # 0 /\ Hash[new[c].key] \in 1 .. Buckets
        BY <2>2, KeyFacts
      <3>2. On(new, c, Hash[new[c].key])
        BY <1>1, <2>2, <3>1
      <3>3. c <= Buckets + u
        BY <2>2, <3>1 DEF Memory, Wired
      <3>4. c \in Nat /\ Buckets + u \in Nat
        BY PlacesFacts
      <3> QED
        BY <2>2, <3>1, <3>2, <3>3, <3>4
    <2> QED
      BY <2>1, <2>2
  <1> QED
    BY <1>1, <1>2 DEF Memory

\* Where the walk of an insertion stops: at the first element of the chain that
\* has the key or is at zero.
LEMMA StopsFacts ==
  ASSUME Memory(cells, used), NEW k \in Keys
  PROVE  /\ Stops(k) # 0 =>
              /\ On(cells, Stops(k), Hash[k]) /\ Stops(k) \in Places
              /\ cells[Stops(k)].key = k \/ cells[Stops(k)].bytes = 0
              /\ \A d : On(cells, d, Hash[k]) /\ d < Stops(k) =>
                   cells[d].key # k /\ cells[d].bytes # 0
         /\ Stops(k) = 0 =>
              \A d : On(cells, d, Hash[k]) => cells[d].key # k
                /\ cells[d].bytes # 0
PROOF
  <1> DEFINE s == ChainIn(cells, Hash[k])
             I == {i \in DOMAIN s : cells[s[i]].key = k
               \/ cells[s[i]].bytes = 0}
  <1>1. IsChain(cells, Hash[k], s)
    BY KeyFacts DEF Memory, Wired
  <1>2. \A d : On(cells, d, Hash[k]) <=> \E i \in 1 .. Len(s) : s[i] = d
    BY DEF On
  <1>3. Stops(k) = IF I = {} THEN 0 ELSE s[Min(I)]
    BY DEF Stops, Chain
  <1> HIDE DEF s
  <1>4. /\ DOMAIN s = 1 .. Len(s) /\ Len(s) \in Nat
        /\ \A i \in 1 .. Len(s) : s[i] \in Places /\ s[i] \in Nat /\ s[i] # 0
    BY <1>1, LenProperties, PlacesFacts DEF IsChain
  <1>5. \A i, j \in 1 .. Len(s) : i < j => s[i] < s[j]
    BY <1>1, ChainSorted
  <1>6. CASE I = {}
    <2>1. Stops(k) = 0
      BY <1>3, <1>6
    <2> QED
      BY <1>2, <1>4, <1>6, <2>1
  <1>7. CASE I # {}
    <2>1. I \subseteq Nat
      BY <1>4
    <2>2. Min(I) \in I /\ \A i \in I : Min(I) <= i
      BY <1>7, <2>1, MinOf
    <2>3. PICK m \in I : m = Min(I) /\ \A i \in I : m <= i
      BY <2>2
    <2>4. Stops(k) = s[m] /\ m \in 1 .. Len(s)
      BY <1>3, <1>4, <1>7, <2>3
    <2>5. Stops(k) # 0 /\ Stops(k) \in Places /\ On(cells, Stops(k), Hash[k])
      BY <1>2, <1>4, <2>4
    <2>6. cells[Stops(k)].key = k \/ cells[Stops(k)].bytes = 0
      BY <2>3, <2>4
    <2>7. ASSUME NEW d, On(cells, d, Hash[k]), d < Stops(k)
          PROVE  cells[d].key # k /\ cells[d].bytes # 0
      <3>1. PICK i \in 1 .. Len(s) : s[i] = d
        BY <1>2, <2>7
      <3>2. ~(m <= i)
        <4>1. m = i \/ s[m] < s[i] \/ ~(m <= i)
          BY <1>5, <2>4
        <4> QED
          BY <1>4, <2>4, <2>7, <3>1, <4>1
      <3>3. i \notin I
        BY <2>3, <3>2
      <3> QED
        BY <1>4, <3>1, <3>3
    <2> QED
      BY <2>5, <2>6, <2>7
  <1> QED
    BY <1>6, <1>7

\* A call that is the same but for what it could see from its start.
Shrunk(t, s) ==
  /\ t.pc = s.pc /\ t.at = s.at /\ t.idx = s.idx /\ t.todo = s.todo
  /\ t.reset = s.reset /\ t.seen = s.seen /\ t.mapped = s.mapped
  /\ t.since = s.since /\ t.got = s.got /\ t.twice = s.twice
  /\ t.old \subseteq s.old

\* Stores into the table.
LEMMA StoreFacts ==
  ASSUME NEW new, NEW calls \in [Procs -> Call], Store(new, calls)
  PROVE  /\ cells' = new /\ srv' \in [Procs -> Call]
         /\ \A p \in Procs :
              /\ Shrunk(srv'[p], calls[p])
              /\ \A c \in srv'[p].old :
                   c \in calls[p].got
                     \/ (Visible(new[c]) /\ new[c].key = cells[c].key)
              /\ \A c \in srv'[p].far :
                   c \in calls[p].far \/ new[c].key # cells[c].key
              /\ Heap(p, calls[p]) => Heap(p, srv'[p])
         /\ holed'
            = (holed \/ \E c \in Places : new[c].key # 0 /\ new[c].bytes = 0)
PROOF
  <1>1. /\ cells' = new
        /\ srv' = [p \in Procs |-> [calls[p] EXCEPT
             !.far = Far(p, new, calls[p]),
             !.old = {c \in @ : \/ c \in calls[p].got
                                \/ Visible(new[c]) /\ new[c].key = cells[c].key}]]
        /\ holed'
           = (holed \/ \E c \in Places : new[c].key # 0 /\ new[c].bytes = 0)
    BY DEF Store
  <1>2. ASSUME NEW p \in Procs
        PROVE  /\ srv'[p] \in Call /\ Shrunk(srv'[p], calls[p])
               /\ \A c \in srv'[p].old :
                    c \in calls[p].got
                      \/ (Visible(new[c]) /\ new[c].key = cells[c].key)
               /\ \A c \in srv'[p].far :
                    c \in calls[p].far \/ new[c].key # cells[c].key
               /\ Heap(p, calls[p]) => Heap(p, srv'[p])
    <2> DEFINE X == {c \in calls[p].old : \/ c \in calls[p].got
                                          \/ Visible(new[c])
                                             /\ new[c].key = cells[c].key}
               F == Far(p, new, calls[p])
    <2>1. srv'[p] = [calls[p] EXCEPT !.far = F, !.old = X]
      BY <1>1
    <2>2. calls[p] \in Call
      OBVIOUS
    <2>3. X \subseteq calls[p].old /\ X \in SUBSET Places
      BY <2>2 DEF Call
    <2>f. /\ F \in SUBSET Places
          /\ \A c \in F : c \in calls[p].far \/ new[c].key # cells[c].key
          /\ p = 0 \/ calls[p].pc = "idle" => F = calls[p].far
      BY <2>2 DEF Far, Call
    <2>4. \A c \in X : c \in calls[p].got
          \/ (Visible(new[c]) /\ new[c].key = cells[c].key)
      OBVIOUS
    <2> HIDE DEF X, F
    <2>5. srv'[p] \in Call
      BY <2>1, <2>2, <2>3, <2>f DEF Call
    <2>6. srv'[p].old = X /\ srv'[p].far = F
      BY <2>1, <2>2 DEF Call
    <2>7. Shrunk(srv'[p], calls[p])
      BY <2>1, <2>2, <2>3 DEF Call, Shrunk
    <2>8. Heap(p, calls[p]) => Heap(p, srv'[p])
      BY <2>6, <2>7, <2>f DEF Heap, Shrunk
    <2> QED
      BY <2>4, <2>5, <2>6, <2>7, <2>8, <2>f
  <1>3. srv' \in [Procs -> Call]
    BY <1>1, <1>2
  <1> QED
    BY <1>1, <1>2, <1>3

\* An element with other fields.
LEMMA CellUpdates ==
  ASSUME NEW u, NEW e \in Cell(u), NEW k \in Keys, NEW b \in Nat
  PROVE  /\ [e EXCEPT !.key = k, !.bytes = b, !.type = TRUE, !.flag = FALSE]
         \in Cell(u)
         /\ [e EXCEPT !.key = k, !.bytes = b, !.type = TRUE, !.next = 0]
            \in Cell(u)
PROOF
  <1>1. [e EXCEPT !.key = k, !.bytes = b, !.type = TRUE, !.flag = FALSE]
        \in Cell(u)
    BY DEF Cell
  <1>2. [e EXCEPT !.key = k, !.bytes = b, !.type = TRUE, !.next = 0] \in Cell(u)
    BY DEF Cell
  <1> QED
    BY <1>1, <1>2

\* An element of which the flag is raised, and one with counters reset.
LEMMA CellReset ==
  ASSUME NEW u, NEW e \in Cell(u)
  PROVE  /\ ResetCounters(e) \in Cell(u) /\ ResetCounters(e).key = e.key
         /\ ResetCounters(e).next = e.next /\ ResetCounters(e).bytes = 0
         /\ ~ResetCounters(e).type /\ ~ResetCounters(e).flag
         /\ [e EXCEPT !.flag = TRUE].key = e.key
         /\ [e EXCEPT !.flag = TRUE].next = e.next
         /\ [e EXCEPT !.flag = TRUE].bytes = e.bytes
         /\ [e EXCEPT !.flag = TRUE].type = e.type
         /\ [e EXCEPT !.flag = TRUE].flag
PROOF
  <1>1. /\ ResetCounters(e) \in Cell(u) /\ ResetCounters(e).key = e.key
        /\ ResetCounters(e).next = e.next /\ ResetCounters(e).bytes = 0
        /\ ~ResetCounters(e).type /\ ~ResetCounters(e).flag
    BY DEF ResetCounters, Cell
  <1>2. /\ [e EXCEPT !.flag = TRUE].key = e.key
        /\ [e EXCEPT !.flag = TRUE].next = e.next
        /\ [e EXCEPT !.flag = TRUE].bytes = e.bytes
        /\ [e EXCEPT !.flag = TRUE].flag
    BY DEF Cell
  <1>3. [e EXCEPT !.flag = TRUE].type = e.type
    BY DEF Cell
  <1> QED
    BY <1>1, <1>2, <1>3

\* A record for an element with its key.
LEMMA AddedFacts ==
  ASSUME NEW u, NEW e \in Cell(u), NEW n \in Nat
  PROVE  /\ Added(e, n) \in Cell(u) /\ Added(e, n).key = e.key
         /\ Added(e, n).next = e.next
         /\ Added(e, n).bytes = (IF e.flag THEN 0 ELSE e.bytes) + n
         /\ Visible(Added(e, n))
PROOF
  <1> DEFINE r == IF e.flag THEN ResetCounters(e) ELSE e
             b == IF e.flag THEN 0 ELSE e.bytes
             a == Added(e, n)
  <1>1. /\ r \in Cell(u) /\ r.key = e.key /\ r.next = e.next /\ r.bytes = b
        /\ ~r.flag /\ b \in Nat
    <2>1. CASE e.flag
      BY <2>1, CellReset
    <2>2. CASE ~e.flag
      <3>1. r = e /\ b = e.bytes /\ e.bytes \in Nat
        BY <2>2 DEF Cell
      <3> HIDE DEF r, b
      <3> QED
        BY <2>2, <3>1
    <2> QED
      BY <2>1, <2>2
  <1>2. a = [r EXCEPT !.bytes = r.bytes + n, !.type = TRUE]
    BY DEF Added
  <1> HIDE DEF r, b, a
  <1>3. r.bytes + n \in Nat
    BY <1>1
  <1>4. PICK x \in Nat : x = r.bytes + n
    BY <1>3
  <1>5. a = [r EXCEPT !.bytes = x, !.type = TRUE]
    BY <1>2, <1>4
  <1>6. a \in Cell(u)
    <2>1. [r EXCEPT !.bytes = x, !.type = TRUE] \in Cell(u)
      BY <1>1 DEF Cell
    <2> QED
      BY <1>5, <2>1
  <1>7. a.key = r.key /\ a.next = r.next /\ a.bytes = x
    BY <1>1, <1>5 DEF Cell
  <1>8. a.type
    BY <1>1, <1>5 DEF Cell
  <1>9. a.flag = r.flag
    BY <1>1, <1>5 DEF Cell
  <1>10. Visible(a)
    BY <1>1, <1>8, <1>9 DEF Visible
  <1> QED
    BY <1>1, <1>4, <1>6, <1>7, <1>10 DEF a, b

\* A record for an element at zero.
LEMMA ReusedFacts ==
  ASSUME NEW u, NEW e \in Cell(u), NEW k \in Keys, NEW n \in Nat
  PROVE  /\ Reused(e, k, n) \in Cell(u) /\ Reused(e, k, n).key = k
         /\ Reused(e, k, n).next = e.next /\ Reused(e, k, n).bytes = n
         /\ Visible(Reused(e, k, n))
PROOF
  <1> DEFINE a == Reused(e, k, n)
  <1>1. a = [e EXCEPT !.key = k, !.bytes = n, !.type = TRUE, !.flag = FALSE]
    BY SMTT(30) DEF Reused
  <1> HIDE DEF a
  <1>2. a \in Cell(u)
    BY <1>1, CellUpdates
  <1>3. a.key = k /\ a.next = e.next /\ a.bytes = n
    BY <1>1 DEF Cell
  <1>4. a.type /\ ~a.flag
    BY <1>1 DEF Cell
  <1> QED
    BY <1>2, <1>3, <1>4 DEF a, Visible

\* A record for an element just taken from a pool.
LEMMA FreshFacts ==
  ASSUME NEW u, NEW e \in Cell(u), NEW k \in Keys, NEW n \in Nat
  PROVE  /\ Fresh(e, k, n) \in Cell(u) /\ Fresh(e, k, n).key = k
         /\ Fresh(e, k, n).next = 0 /\ Fresh(e, k, n).bytes = e.bytes + n
         /\ Fresh(e, k, n).type /\ Fresh(e, k, n).flag = e.flag
PROOF
  <1> DEFINE a == Fresh(e, k, n)
  <1>1. a = [e EXCEPT !.key = k, !.bytes = e.bytes + n, !.type = TRUE,
        !.next = 0]
    BY DEF Fresh
  <1>2. e.bytes + n \in Nat
    BY DEF Cell
  <1>3. PICK x \in Nat : x = e.bytes + n
    BY <1>2
  <1> HIDE DEF a
  <1>4. a = [e EXCEPT !.key = k, !.bytes = x, !.type = TRUE, !.next = 0]
    BY <1>1, <1>3, SMTT(30)
  <1>5. a \in Cell(u)
    BY <1>4, CellUpdates
  <1>6. a.key = k /\ a.next = 0 /\ a.bytes = x
    BY <1>4 DEF Cell
  <1>7. a.type
    BY <1>4 DEF Cell
  <1>8. a.flag = e.flag
    BY <1>4 DEF Cell
  <1> QED
    BY <1>3, <1>5, <1>6, <1>7, <1>8 DEF a

\* What a query does to an element that it reported.
LEMMA ResetFacts ==
  ASSUME NEW u, NEW e \in Cell(u), NEW p
  PROVE  /\ Zero \in Cell(u) /\ ~Visible(Zero)
         /\ ResetElem(p, e) \in Cell(u) /\ ResetElem(p, e).key = e.key
         /\ ResetElem(p, e).next = e.next /\ ~Visible(ResetElem(p, e))
         /\ \/ ResetElem(p, e).bytes = 0 /\ ~ResetElem(p, e).type
            \/ /\ ResetElem(p, e).bytes = e.bytes
               /\ ResetElem(p, e).type = e.type
PROOF
  <1>1. Zero \in Cell(u) /\ ~Visible(Zero)
    BY DEF Zero, Cell, Visible
  <1>2. CASE p = 0 /\ Head(srv[p].todo).exact
    <2>1. ResetElem(p, e) = ResetCounters(e)
      BY <1>2 DEF ResetElem
    <2> QED
      BY <1>1, <2>1, CellReset DEF Visible
  <1>3. CASE ~(p = 0 /\ Head(srv[p].todo).exact)
    <2> DEFINE a == ResetElem(p, e)
    <2>1. a = [e EXCEPT !.flag = TRUE]
      BY <1>3 DEF ResetElem
    <2>2. a \in Cell(u)
      <3>1. [e EXCEPT !.flag = TRUE] \in Cell(u)
        BY DEF Cell
      <3> QED
        BY <2>1, <3>1
    <2> HIDE DEF a
    <2>3. a.key = e.key /\ a.next = e.next /\ a.bytes = e.bytes /\ a.flag
      BY <2>1, CellReset
    <2>4. a.type = e.type
      BY <2>1, CellReset
    <2> QED
      BY <1>1, <2>2, <2>3, <2>4 DEF a, Visible
  <1> QED
    BY <1>2, <1>3

\* A record for an element that is there: one element of the key's chain
\* changes, and can be seen afterwards.
LEMMA UpdateFacts ==
  ASSUME TableInv, NEW k \in Keys, NEW n \in Nat, Update(k, n)
  PROVE  \E c \in Places :
           /\ On(cells, c, Hash[k])
           /\ cells' \in [Places -> Cell(used)]
           /\ \A d \in Places \ {c} : cells'[d] = cells[d]
           /\ cells'[c].key = k /\ cells'[c].next = cells[c].next
           /\ Visible(cells'[c])
           /\ \/ /\ cells[c].key = k
                 /\ cells'[c].bytes
                    = (IF cells[c].flag THEN 0 ELSE cells[c].bytes) + n
              \/ /\ cells[c].key # k /\ cells[c].bytes = 0
                 /\ cells'[c].bytes = n
                 /\ \A d : On(cells, d, Hash[k]) /\ d < c => cells[d].key # k
           /\ lru' = [lru EXCEPT ![Hash[k]] = c]
PROOF
  <1>1. /\ Memory(cells, used) /\ used \in Nat /\ srv \in [Procs -> Call]
        /\ cells \in [Places -> Cell(used)]
        /\ lru \in [1 .. Buckets -> Places \cup {0}]
    BY DEF TableInv, Scalars, Calls, Memory
  <1> DEFINE last == lru[Hash[k]]
  <1>2. PICK c
        \in {IF last # 0 /\ cells[last].key = k THEN last ELSE Stops(k)} :
          /\ c # 0
          /\ Store([cells EXCEPT ![c] =
                      IF @.key = k THEN Added(@, n) ELSE Reused(@, k, n)], srv)
          /\ lru' = [lru EXCEPT ![Hash[k]] = c]
    BY DEF Update
  <1>3. /\ c \in Places /\ On(cells, c, Hash[k])
        /\ \/ cells[c].key = k
           \/ /\ cells[c].key # k /\ cells[c].bytes = 0
              /\ \A d : On(cells, d, Hash[k]) /\ d < c => cells[d].key # k
    <2>1. CASE last # 0 /\ cells[last].key = k
      <3>1. c = last /\ c \in Places
        BY <1>1, <1>2, <2>1, KeyFacts
      <3>2. On(cells, c, Hash[k])
        BY <1>1, <2>1, <3>1, KeyFacts DEF Memory
      <3> QED
        BY <2>1, <3>1, <3>2
    <2>2. CASE ~(last # 0 /\ cells[last].key = k)
      <3>1. c = Stops(k)
        BY <1>2, <2>2
      <3> QED
        BY <1>1, <1>2, <3>1, StopsFacts
    <2> QED
      BY <2>1, <2>2
  <1> DEFINE e == IF cells[c].key = k THEN Added(cells[c], n)
                  ELSE Reused(cells[c], k, n)
  <1>4. cells' = [cells EXCEPT ![c] = e]
    BY <1>1, <1>2, <1>3, StoreFacts
  <1>5. /\ e \in Cell(used) /\ e.key = k /\ e.next = cells[c].next /\ Visible(e)
        /\ cells[c].key = k =>
             e.bytes = (IF cells[c].flag THEN 0 ELSE cells[c].bytes) + n
        /\ cells[c].key # k => e.bytes = n
    <2>1. cells[c] \in Cell(used)
      BY <1>1, <1>3
    <2>2. CASE cells[c].key = k
      <3>1. e = Added(cells[c], n)
        BY <2>2
      <3> HIDE DEF e
      <3> QED
        BY <2>1, <2>2, <3>1, AddedFacts
    <2>3. CASE cells[c].key # k
      <3>1. e = Reused(cells[c], k, n)
        BY <2>3
      <3> HIDE DEF e
      <3> QED
        BY <2>1, <2>3, <3>1, ReusedFacts
    <2> QED
      BY <2>2, <2>3
  <1> HIDE DEF e
  <1>6. /\ cells' \in [Places -> Cell(used)] /\ cells'[c] = e
        /\ \A d \in Places \ {c} : cells'[d] = cells[d]
    BY <1>1, <1>3, <1>4, <1>5
  <1> QED
    BY <1>2, <1>3, <1>5, <1>6

\* A record for a key without an element: one is taken from a pool and chained
\* to the last of its bucket.  Of the others only flags of blank ones change.
LEMMA CreateFacts ==
  ASSUME TableInv, NEW k \in Keys, NEW n \in Nat, Missing(k), Create(k, n)
  PROVE  LET new == Buckets + used + 1
             mem == Taken(PoolOf(new))
         IN /\ used' = used + 1 /\ used' \in 0 .. (MaxPools - 1) * PoolSize
            /\ new \in Places /\ new \in Nat /\ PoolOf(new) \in 2 .. MaxPools
            /\ cells' \in [Places -> Cell(used')]
            /\ \A c \in Places \ {new} :
                 /\ cells'[c].key = cells[c].key
                 /\ cells'[c].bytes = cells[c].bytes
                 /\ cells'[c].type = cells[c].type
                 /\ cells[c].key # 0 => cells'[c].flag = cells[c].flag
            /\ cells'[new].key = k /\ cells'[new].bytes = n /\ cells'[new].type
            /\ cells'[new].flag = mem[new].flag
            /\ cells[new].key = 0
            /\ \A d \in 1 .. Buckets : \A c :
                 On(cells', c, d) <=> On(cells, c, d)
                   \/ (c = new /\ d = Hash[k])
            /\ Memory(cells', used')
            /\ \A c \in Places : cells[c].key # k
PROOF
  <1> DEFINE new == Buckets + used + 1
             pool == PoolOf(new)
             mem == Taken(pool)
             chain == ChainIn(cells, Hash[k])
             last == chain[Len(chain)]
  <1>1. /\ Memory(cells, used) /\ used \in Nat /\ srv \in [Procs -> Call]
        /\ cells \in [Places -> Cell(used)] /\ Wired(cells, used)
    BY DEF TableInv, Scalars, Calls, Memory
  <1>2. /\ pool <= MaxPools /\ used' = used + 1
        /\ Store([mem EXCEPT ![last].next = new, ![new] = Fresh(@, k, n)], srv)
    BY DEF Create, Chain
  <1>3. /\ used + 1 <= (MaxPools - 1) * PoolSize /\ new \in Places
        /\ new \in Nat
        /\ new > Buckets /\ pool >= 2 /\ pool \in Nat
    <2>1. new \in Nat /\ new > Buckets
      BY <1>1, PlacesFacts
    <2> QED
      BY <1>1, <1>2, <2>1, PoolFacts
  <1>4. used' \in 0 .. (MaxPools - 1) * PoolSize /\ used' \in Nat
    <2>1. (MaxPools - 1) * PoolSize \in Nat
      BY PlacesFacts
    <2> QED
      BY <1>1, <1>2, <1>3, <2>1
  <1>5. Hash[k] \in 1 .. Buckets /\ k # 0
    BY KeyFacts
  <1>6. On(cells, last, Hash[k]) /\ last \in Places /\ cells[last].next = 0
    <2>1. IsChain(cells, Hash[k], chain)
      BY <1>1, <1>5 DEF Wired
    <2>2. Len(chain) \in Nat /\ Len(chain) >= 1
      BY <2>1, LenProperties DEF IsChain
    <2>3. On(cells, last, Hash[k])
      BY <2>2 DEF On
    <2> QED
      BY <1>1, <1>5, <2>1, <2>3, ChainOrder DEF IsChain
  <1>7. last <= Buckets + used /\ last < new
    <2>1. last <= Buckets + used
      BY <1>1, <1>5, <1>6 DEF Wired
    <2> QED
      BY <1>1, <1>6, <2>1, PlacesFacts
  <1>8. \A c \in Places : PoolOf(c) = pool /\ NewPool => c > Buckets + used
    <2> SUFFICES ASSUME NEW c \in Places, PoolOf(c) = pool, NewPool,
                        ~(c > Buckets + used)
                 PROVE  FALSE
      OBVIOUS
    <2>1. c \in Nat /\ c <= Buckets + used /\ Buckets + used \in Nat
      BY <1>1, PlacesFacts
    <2>2. PoolOf(c) <= PoolOf(Buckets + used)
      BY <2>1, PoolFacts
    <2>3. PoolOf(Buckets + used) < pool
      BY DEF NewPool
    <2>4. PoolOf(c) \in Nat /\ PoolOf(Buckets + used) \in Nat /\ pool \in Nat
      BY <1>3, <2>1, PoolFacts
    <2> QED
      BY <2>2, <2>3, <2>4
  <1>9. /\ mem \in [Places -> Cell(used)]
        /\ \A c \in Places : \/ mem[c] = cells[c]
                             \/ mem[c] = Zero /\ c > Buckets + used
    <2>1. CASE NewPool
      <3>1. mem = [c \in Places |-> IF PoolOf(c) = pool THEN Zero ELSE cells[c]]
        BY <2>1 DEF Taken
      <3>2. Zero \in Cell(used)
        BY DEF Zero, Cell
      <3> HIDE DEF mem, pool
      <3>3. mem \in [Places -> Cell(used)]
        BY <1>1, <3>1, <3>2
      <3>4. \A c \in Places :
              mem[c] = IF PoolOf(c) = pool THEN Zero ELSE cells[c]
        BY <3>1
      <3> QED
        BY <1>8, <2>1, <3>3, <3>4
    <2>2. CASE ~NewPool
      <3>1. mem = cells
        BY <2>2 DEF Taken
      <3> HIDE DEF mem
      <3> QED
        BY <1>1, <3>1
    <2> QED
      BY <2>1, <2>2
  <1>10. \A c \in Places :
           /\ mem[c].key = cells[c].key /\ mem[c].bytes = cells[c].bytes
           /\ mem[c].type = cells[c].type /\ mem[c].next = cells[c].next
           /\ cells[c].key # 0 => mem[c].flag = cells[c].flag
    <2> TAKE c \in Places
    <2>1. CASE mem[c] = cells[c]
      BY <2>1
    <2>2. CASE mem[c] = Zero /\ c > Buckets + used
      <3>1. c > Buckets
        BY <1>1, <2>2, PlacesFacts
      <3>2. cells[c].key = 0 /\ cells[c].type \in BOOLEAN
        BY <1>1, <2>2, <3>1 DEF Memory, Cell
      <3>3. cells[c].bytes = 0 /\ cells[c].next = 0 /\ ~cells[c].type
        BY <1>1, <3>2 DEF Memory
      <3>4. cells[c].type = FALSE
        BY <3>2, <3>3
      <3>5. /\ mem[c].key = 0 /\ mem[c].bytes = 0 /\ mem[c].next = 0
            /\ mem[c].type = FALSE
        BY <2>2 DEF Zero
      <3> QED
        BY <3>2, <3>3, <3>4, <3>5
    <2> QED
      BY <1>9, <2>1, <2>2
  <1>11. mem[last] = cells[last] /\ mem[last] \in Cell(used)
         /\ mem[new] \in Cell(used)
    BY <1>3, <1>6, <1>7, <1>9, <1>1, PlacesFacts
  <1>12. cells[new].key = 0 /\ cells[new].bytes = 0 /\ cells[new].next = 0
    <2>1. new > Buckets /\ new > Buckets + used
      BY <1>1, PlacesFacts
    <2>2. cells[new].key = 0
      BY <1>1, <1>3, <2>1 DEF Memory
    <2> QED
      BY <1>1, <1>3, <2>2 DEF Memory
  <1> HIDE DEF mem, pool, new, last
  <1>13. cells' = [mem EXCEPT ![last].next = new, ![new] = Fresh(@, k, n)]
    BY <1>1, <1>2, StoreFacts
  <1>14. /\ cells'[last] = [mem[last] EXCEPT !.next = new]
         /\ cells'[new] = Fresh(mem[new], k, n)
         /\ \A c \in Places \ {last, new} : cells'[c] = mem[c]
         /\ cells' = [c \in Places |-> cells'[c]]
    <2>1. last \in Places /\ new \in Places /\ last # new
      BY <1>3, <1>6, <1>7, PlacesFacts
    <2>2. mem \in [Places -> Cell(used)]
      BY <1>9
    <2>3. cells'[new] = Fresh(mem[new], k, n)
      BY <1>13, <2>1, <2>2
    <2>4. cells'[last] = [mem[last] EXCEPT !.next = new]
      BY <1>13, <2>1, <2>2
    <2>5. \A c \in Places \ {last, new} : cells'[c] = mem[c]
      BY <1>13, <2>1, <2>2
    <2>6. cells' = [c \in Places |-> cells'[c]]
      BY <1>13, <2>1, <2>2
    <2> QED
      BY <2>3, <2>4, <2>5, <2>6
  <1>15. Cell(used) \subseteq Cell(used')
    BY <1>1, <1>2, PlacesFacts DEF Cell
  <1>16. /\ cells'[last] \in Cell(used') /\ cells'[last].key = mem[last].key
         /\ cells'[last].bytes = mem[last].bytes
         /\ cells'[last].type = mem[last].type
         /\ cells'[last].flag = mem[last].flag /\ cells'[last].next = new
    <2>1. new \in Buckets + 1 .. Buckets + used'
      BY <1>1, <1>2, PlacesFacts DEF new
    <2> QED
      BY <1>11, <1>14, <1>15, <2>1 DEF Cell
  <1>17. /\ cells'[new] \in Cell(used') /\ cells'[new].key = k
         /\ cells'[new].bytes = n /\ cells'[new].type
         /\ cells'[new].flag = mem[new].flag /\ cells'[new].next = 0
    <2>1. mem[new].bytes = 0
      BY <1>3, <1>10, <1>12
    <2> DEFINE f == Fresh(mem[new], k, n)
    <2>2. /\ f \in Cell(used) /\ f.key = k /\ f.next = 0 /\ f.type
          /\ f.bytes = mem[new].bytes + n /\ f.flag = mem[new].flag
      BY <1>11, FreshFacts
    <2>3. cells'[new] = f
      BY <1>14
    <2> HIDE DEF f
    <2> QED
      BY <1>15, <2>1, <2>2, <2>3
  <1>18. cells' \in [Places -> Cell(used')]
    <2>1. \A c \in Places : cells'[c] \in Cell(used')
      BY <1>9, <1>14, <1>15, <1>16, <1>17
    <2> QED
      BY <1>14, <2>1
  <1>19. \A c \in Places \ {new} :
           /\ cells'[c].key = cells[c].key /\ cells'[c].bytes = cells[c].bytes
           /\ cells'[c].type = cells[c].type
           /\ cells[c].key # 0 => cells'[c].flag = cells[c].flag
           /\ c # last => cells'[c].next = cells[c].next
    <2> TAKE c \in Places \ {new}
    <2>1. CASE c = last
      BY <1>11, <1>16, <2>1
    <2>2. CASE c # last
      <3>1. cells'[c] = mem[c]
        BY <1>14, <2>2
      <3> QED
        BY <1>10, <3>1
    <2> QED
      BY <2>1, <2>2
  <1>20. /\ \A d \in 1 .. Buckets : \A c :
              On(cells', c, d) <=> On(cells, c, d) \/ (c = new /\ d = Hash[k])
         /\ Wired(cells', used')
    <2>1. \A c \in Places \ {last, new} : cells'[c].next = cells[c].next
      BY <1>19
    <2> QED
      <3>1. /\ Wired(cells, used) /\ used \in Nat /\ Hash[k] \in 1 .. Buckets
            /\ new \in Places /\ used' = used + 1
        BY <1>1, <1>2, <1>3, <1>5
      <3>2. new = Buckets + used + 1
        BY DEF new
      <3>3. last = ChainIn(cells, Hash[k])[Len(ChainIn(cells, Hash[k]))]
        BY DEF last
      <3>4. cells'[last].next = new /\ cells'[new].next = 0
        BY <1>16, <1>17
      <3> QED
        BY <2>1, <3>1, <3>2, <3>3, <3>4, ChainExtended
  <1>21. Memory(cells', used')
    <2>1. ASSUME NEW c \in Places
          PROVE  /\ cells'[c].key # 0 => On(cells', c, Hash[cells'[c].key])
                 /\ cells'[c].key = 0 =>
                      /\ cells'[c].bytes = 0 /\ cells'[c].next = 0
                      /\ ~cells'[c].type
                 /\ ~cells'[c].type => cells'[c].bytes = 0
                 /\ c > Buckets => (cells'[c].key = 0 <=> c > Buckets + used')
      <3>1. CASE c = new
        <4>1. ~(c > Buckets + used')
          BY <1>1, <1>2, <3>1, PlacesFacts DEF new
        <4> QED
          BY <1>5, <1>17, <1>20, <3>1, <4>1
      <3>2. CASE c # new
        <4>1. /\ cells'[c].key = cells[c].key
              /\ cells'[c].bytes = cells[c].bytes
              /\ cells'[c].type = cells[c].type
          BY <1>19, <3>2
        <4>2. cells[c].key \in Keys \cup {0}
          BY <1>1 DEF Cell
        <4>3. cells'[c].key # 0 => On(cells', c, Hash[cells'[c].key])
          <5>1. cells[c].key # 0 => On(cells, c, Hash[cells[c].key])
            BY <1>1 DEF Memory
          <5> QED
            BY <1>20, <4>1, <4>2, <5>1, KeyFacts
        <4>4. cells'[c].key = 0 => cells'[c].next = 0
          <5>1. CASE c = last
            <6>1. cells[last].bytes # 0
              BY <1>1, <1>6, StopsFacts DEF Missing
            <6>2. cells[last].key # 0
              BY <1>1, <1>6, <6>1 DEF Memory
            <6> QED
              BY <4>1, <5>1, <6>2
          <5>2. CASE c # last
            BY <1>1, <1>19, <3>2, <4>1, <5>2 DEF Memory
          <5> QED
            BY <5>1, <5>2
        <4>5. c > Buckets + used <=> c > Buckets + used'
          <5>1. c \in Nat /\ c # Buckets + used + 1 /\ Buckets + used \in Nat
            BY <1>1, <3>2, PlacesFacts DEF new
          <5> QED
            BY <1>1, <1>2, <5>1, PlacesFacts
        <4> QED
          BY <1>1, <4>1, <4>3, <4>4, <4>5 DEF Memory
      <3> QED
        BY <3>1, <3>2
    <2> QED
      BY <1>18, <1>20, <2>1 DEF Memory
  <1>22. \A c \in Places : cells[c].key # k
    <2> SUFFICES ASSUME NEW c \in Places, cells[c].key = k PROVE FALSE
      OBVIOUS
    <2>1. On(cells, c, Hash[k])
      BY <1>1, <1>5 DEF Memory
    <2> QED
      BY <1>1, <2>1, StopsFacts DEF Missing
  <1>23. pool \in 2 .. MaxPools
    BY <1>2, <1>3, ImtTableAssumption
  <1> QED
    BY <1>2, <1>3, <1>4, <1>12, <1>17, <1>18, <1>19, <1>20, <1>21, <1>22, <1>23
       DEF new, mem, pool

\* A call that is to be replaced.
LEMMA IdleCall ==
  Idle \in Call /\ Idle.pc = "idle" /\ CallOK(Idle) /\ \A p : Heap(p, Idle)
PROOF
  <1>1. << >> \in Seq(Request)
    OBVIOUS
  <1>2. Zero \in Snapshot
    BY DEF Zero, Snapshot
  <1>3. Idle \in Call
    BY <1>1, <1>2 DEF Idle, Call
  <1> QED
    BY <1>3 DEF Idle, CallOK, Heap

First(r) == IF r.exact THEN Hash[CHOOSE k \in r.keys : TRUE] ELSE 1

\* A call that turns to a request.
LEMMA BeginFacts ==
  ASSUME NEW todo \in Seq(Request), todo # << >>, Whole(todo),
         NEW reset \in BOOLEAN, NEW pools \in Nat, pools >= 2, clears \in Nat,
         NEW far \in SUBSET Places, NEW t, t = Begin(todo, reset, pools, far)
  PROVE  /\ t \in Call /\ CallOK(t) /\ t.since = clears
         /\ t.pc = "visit" /\ t.at = t.idx /\ t.idx = First(Head(todo))
         /\ t.idx \in 1 .. Buckets /\ t.todo = todo /\ t.got = {} /\ ~t.twice
         /\ t.far = far
         /\ t.old
            = {c \in Places : /\ Visible(cells[c])
                              /\ cells[c].key \in Head(todo).keys
                              /\ Head(todo).all \/ c \notin far}
         /\ Head(todo).exact => \A k \in Head(todo).keys : t.idx = Hash[k]
         /\ Head(todo) \in Request
PROOF
  <1> DEFINE r == Head(todo)
             old == {c \in Places : /\ Visible(cells[c]) /\ cells[c].key \in r.keys
                                    /\ r.all \/ c \notin far}
             first == First(r)
  <1>1. r \in Request /\ r = todo[1] /\ 1 \in 1 .. Len(todo)
    BY HeadTailProperties, LenProperties, EmptySeq
  <1>2. /\ first \in 1 .. Buckets /\ first \in Places /\ first \in Nat
        /\ r.exact => \A k \in r.keys : first = Hash[k]
    <2>1. CASE r.exact
      <3>1. PICK k \in Keys : r.keys = {k}
        BY <1>1, <2>1 DEF Whole
      <3>2. first = Hash[k]
        BY <2>1, <3>1 DEF First
      <3> QED
        BY <3>1, <3>2, KeyFacts, PlacesFacts
    <2>2. CASE ~r.exact
      <3>1. first = 1
        BY <2>2 DEF First
      <3> QED
        BY <2>2, <3>1, PlacesFacts
    <2> QED
      BY <2>1, <2>2
  <1>3. t = [Idle EXCEPT !.pc = "visit", !.at = first, !.idx = first,
               !.todo = todo, !.reset = reset, !.mapped = pools,
               !.since = clears, !.far = far, !.old = old]
    BY DEF Begin, First
  <1>4. old \in SUBSET Places
    OBVIOUS
  <1> HIDE DEF r, old, first
  <1>5. t = [pc |-> "visit", at |-> first, idx |-> first, todo |-> todo,
             reset |-> reset, seen |-> Zero, mapped |-> pools, since |-> clears,
             far |-> far, old |-> old, got |-> {}, twice |-> FALSE]
    BY <1>3, ZenonT(30) DEF Idle
  <1>6. Zero \in Snapshot
    BY DEF Zero, Snapshot
  <1>7. t \in Call
    BY <1>2, <1>4, <1>5, <1>6 DEF Call
  <1>8. /\ t.pc = "visit" /\ t.at = first /\ t.idx = first /\ t.todo = todo
        /\ t.mapped = pools /\ t.since = clears /\ t.old = old /\ t.got = {}
        /\ t.far = far
    BY <1>5
  <1>9. ~t.twice
    BY <1>5
  <1>10. PoolOf(first) = 1
    BY <1>2, PoolFacts
  <1>11. CallOK(t)
    BY <1>2, <1>8, <1>10 DEF CallOK
  <1> QED
    BY <1>1, <1>2, <1>7, <1>8, <1>9, <1>11 DEF r, old, first

\* A call that is the same but for what it could see stays as it should be.
LEMMA CallShrunk ==
  ASSUME NEW s, NEW t, Shrunk(t, s), CallOK(s)
  PROVE  CallOK(t)
PROOF
  BY DEF Shrunk, CallOK

\* One call is replaced.
LEMMA CallReplaced ==
  ASSUME Calls, NEW p \in Procs, NEW t \in Call, CallOK(t), Heap(p, t),
         t.since <= clears,
         srv' = [srv EXCEPT ![p] = t], clears' = clears
  PROVE  /\ Calls' /\ srv'[p] = t
         /\ \A q \in Procs \ {p} : srv'[q] = srv[q]
PROOF
  <1>1. /\ srv \in [Procs -> Call]
        /\ \A q \in Procs :
             CallOK(srv[q]) /\ Heap(q, srv[q]) /\ srv[q].since <= clears
    BY DEF Calls
  <1>2. /\ srv' \in [Procs -> Call] /\ srv'[p] = t
        /\ \A q \in Procs \ {p} : srv'[q] = srv[q]
    BY <1>1
  <1>3. \A q \in Procs :
          CallOK(srv'[q]) /\ Heap(q, srv'[q]) /\ srv'[q].since <= clears'
    BY <1>1, <1>2
  <1> QED
    BY <1>2, <1>3 DEF Calls

\* Bytes that come in for a key, and bytes that are given up or reported.
LEMMA BookFacts ==
  ASSUME NEW book0 \in [Keys -> [fed : Nat, taken : Nat, gone : Nat]],
         NEW k \in Keys,
         NEW n \in Nat
  PROVE  /\ \A b : b = [book0 EXCEPT ![k].fed = @ + n] =>
              /\ b \in [Keys -> [fed : Nat, taken : Nat, gone : Nat]]
              /\ b[k].fed = book0[k].fed + n /\ b[k].taken = book0[k].taken
              /\ b[k].gone = book0[k].gone
              /\ \A j \in Keys \ {k} : b[j] = book0[j]
         /\ \A b : b = [book0 EXCEPT ![k].fed = @ + n, ![k].gone = @ + n] =>
              /\ b \in [Keys -> [fed : Nat, taken : Nat, gone : Nat]]
              /\ b[k].fed = book0[k].fed + n /\ b[k].taken = book0[k].taken
              /\ b[k].gone = book0[k].gone + n
              /\ \A j \in Keys \ {k} : b[j] = book0[j]
         /\ \A b : b = [book0 EXCEPT ![k].taken = @ + n] =>
              /\ b \in [Keys -> [fed : Nat, taken : Nat, gone : Nat]]
              /\ b[k].fed = book0[k].fed /\ b[k].taken = book0[k].taken + n
              /\ b[k].gone = book0[k].gone
              /\ \A j \in Keys \ {k} : b[j] = book0[j]
PROOF
  <1>1. ASSUME NEW b, b = [book0 EXCEPT ![k].fed = @ + n]
        PROVE  /\ b \in [Keys -> [fed : Nat, taken : Nat, gone : Nat]]
               /\ b[k].fed = book0[k].fed + n /\ b[k].taken = book0[k].taken
               /\ b[k].gone = book0[k].gone
               /\ \A j \in Keys \ {k} : b[j] = book0[j]
    BY <1>1
  <1>2. ASSUME NEW b, b = [book0 EXCEPT ![k].fed = @ + n, ![k].gone = @ + n]
        PROVE  /\ b \in [Keys -> [fed : Nat, taken : Nat, gone : Nat]]
               /\ b[k].fed = book0[k].fed + n /\ b[k].taken = book0[k].taken
               /\ b[k].gone = book0[k].gone + n
               /\ \A j \in Keys \ {k} : b[j] = book0[j]
    <2>1. book0[k].fed + n \in Nat /\ book0[k].gone + n \in Nat
      OBVIOUS
    <2>2. PICK x \in Nat, y \in Nat : x = book0[k].fed + n /\ y = book0[k].gone + n
      BY <2>1
    <2>3. b = [book0 EXCEPT ![k].fed = x, ![k].gone = y]
      BY <1>2, <2>2
    <2>4. b \in [Keys -> [fed : Nat, taken : Nat, gone : Nat]]
      BY <2>3
    <2>5. b[k].fed = x /\ b[k].taken = book0[k].taken /\ b[k].gone = y
      BY <2>3
    <2>6. \A j \in Keys \ {k} : b[j] = book0[j]
      BY <2>3
    <2> QED
      BY <2>2, <2>4, <2>5, <2>6
  <1>3. ASSUME NEW b, b = [book0 EXCEPT ![k].taken = @ + n]
        PROVE  /\ b \in [Keys -> [fed : Nat, taken : Nat, gone : Nat]]
               /\ b[k].fed = book0[k].fed /\ b[k].taken = book0[k].taken + n
               /\ b[k].gone = book0[k].gone
               /\ \A j \in Keys \ {k} : b[j] = book0[j]
    BY <1>3
  <1> QED
    BY <1>1, <1>2, <1>3

\* A store into the table that leaves the calls alone.
LEMMA CallsStored ==
  ASSUME TableInv, NEW new, Store(new, srv), clears' \in Nat, clears <= clears'
  PROVE  /\ Calls' /\ cells' = new
         /\ \A p \in Procs :
              /\ Shrunk(srv'[p], srv[p])
              /\ \A c \in srv'[p].old :
                   c \in srv[p].got
                     \/ (Visible(new[c]) /\ new[c].key = cells[c].key)
              /\ \A c \in srv'[p].far :
                   c \in srv[p].far \/ new[c].key # cells[c].key
         /\ holed'
            = (holed \/ \E c \in Places : new[c].key # 0 /\ new[c].bytes = 0)
         /\ holed' \in BOOLEAN
PROOF
  <1>1. /\ srv \in [Procs -> Call]
        /\ \A p \in Procs :
             CallOK(srv[p]) /\ Heap(p, srv[p]) /\ srv[p].since <= clears
    BY DEF TableInv, Calls
  <1>2. /\ cells' = new /\ srv' \in [Procs -> Call]
        /\ \A p \in Procs :
             /\ Shrunk(srv'[p], srv[p])
             /\ \A c \in srv'[p].old :
                  c \in srv[p].got
                    \/ (Visible(new[c]) /\ new[c].key = cells[c].key)
             /\ \A c \in srv'[p].far :
                  c \in srv[p].far \/ new[c].key # cells[c].key
             /\ Heap(p, srv[p]) => Heap(p, srv'[p])
        /\ holed'
           = (holed \/ \E c \in Places : new[c].key # 0 /\ new[c].bytes = 0)
    BY <1>1, StoreFacts
  <1>3. \A p \in Procs : CallOK(srv'[p]) /\ Heap(p, srv'[p])
    BY <1>1, <1>2, CallShrunk
  <1>4. \A p \in Procs : srv'[p].since <= clears'
    <2> TAKE p \in Procs
    <2>1. srv'[p].since = srv[p].since /\ srv[p].since \in Nat
          /\ srv[p].since <= clears
      BY <1>1, <1>2 DEF Shrunk, Call
    <2>2. clears \in Nat
      BY DEF TableInv, Scalars
    <2> QED
      BY <2>1, <2>2
  <1>5. Calls'
    BY <1>2, <1>3, <1>4 DEF Calls
  <1> QED
    BY <1>2, <1>5

\* A record for an element that is there keeps the table sound.
LEMMA UpdateSound ==
  ASSUME TableInv, NEW k \in Keys, NEW n \in Nat, Update(k, n),
         UNCHANGED <<lock, go_to_clear, clears>>,
         count' \in [records : Nat, queries : Nat]
  PROVE  TableInv'
PROOF
  <1>1. /\ Memory(cells, used) /\ used \in Nat /\ Wired(cells, used)
        /\ cells \in [Places -> Cell(used)] /\ Scalars /\ (holed \/ Lone(cells))
    BY DEF TableInv, Scalars, Memory
  <1>2. Store(cells', srv)
    <2>1. PICK mem : Store(mem, srv)
      BY DEF Update
    <2>2. cells' = mem
      BY <2>1 DEF Store
    <2> QED
      BY <2>1, <2>2
  <1>3. PICK c \in Places :
           /\ On(cells, c, Hash[k])
           /\ cells' \in [Places -> Cell(used)]
           /\ \A d \in Places \ {c} : cells'[d] = cells[d]
           /\ cells'[c].key = k /\ cells'[c].next = cells[c].next
           /\ Visible(cells'[c])
           /\ \/ cells[c].key = k
              \/ /\ cells[c].key # k /\ cells[c].bytes = 0
                 /\ \A d : On(cells, d, Hash[k]) /\ d < c => cells[d].key # k
           /\ lru' = [lru EXCEPT ![Hash[k]] = c]
    BY UpdateFacts
  <1>4. /\ Calls' /\ holed' \in BOOLEAN
        /\ holed'
           = (holed \/ \E d \in Places : cells'[d].key # 0
             /\ cells'[d].bytes = 0)
    <2>1. clears' \in Nat /\ clears <= clears'
      BY <1>1 DEF Scalars
    <2> QED
      BY <1>2, <2>1, CallsStored
  <1>5. Memory(cells', used)
    <2>1. ASSUME NEW d \in Places
          PROVE  /\ cells'[d].next = cells[d].next
                 /\ \/ /\ cells'[d].key = cells[d].key
                       /\ cells'[d].key = 0 => cells'[d].bytes = 0
                          /\ ~cells'[d].type
                       /\ ~cells'[d].type => cells'[d].bytes = 0
                    \/ /\ cells'[d].key \in Keys
                       /\ On(cells, d, Hash[cells'[d].key])
                       /\ cells'[d].type
      <3>1. CASE d = c
        <4>1. cells'[d].type
          BY <1>3, <3>1 DEF Visible
        <4> QED
          BY <1>3, <3>1, <4>1
      <3>2. CASE d # c
        <4>1. cells'[d] = cells[d]
          BY <1>3, <3>2
        <4> QED
          BY <1>1, <4>1 DEF Memory
      <3> QED
        BY <3>1, <3>2
    <2> QED
      BY <1>1, <1>3, <2>1, MemoryKept
  <1>6. used' = used /\ UNCHANGED <<mapped, no_more_space, raced>>
    BY DEF Update
  <1>7. holed' \/ Lone(cells')
    <2> SUFFICES ASSUME ~holed' PROVE Lone(cells')
      OBVIOUS
    <2>1. /\ Lone(cells)
          /\ \A d \in Places : cells'[d].key # 0 => cells'[d].bytes # 0
      BY <1>1, <1>4
    <2>2. ASSUME NEW d \in Places, d # c PROVE cells[d].key # k
      <3> SUFFICES ASSUME cells[d].key = k PROVE FALSE
        OBVIOUS
      <3>1. k # 0
        BY KeyFacts
      <3>2. cells[c].key # k
        BY <2>1, <2>2, <3>1 DEF Lone
      <3>3. cells[c].bytes = 0 /\ \A b : On(cells, b, Hash[k]) /\ b < c
            => cells[b].key # k
        BY <1>3, <3>2
      <3>4. cells[c].next = 0
        BY <1>1, <2>1, <3>3 DEF Lone, Memory
      <3>5. On(cells, d, Hash[k])
        BY <1>1, <3>1 DEF Memory
      <3>6. d <= c
        BY <1>1, <1>3, <3>4, <3>5, ChainOrder, KeyFacts
      <3>7. ~(d < c)
        BY <3>3, <3>5
      <3> QED
        BY <2>2, <3>6, <3>7, PlacesFacts
    <2>3. ASSUME NEW d \in Places, NEW b \in Places,
                 cells'[d].key = cells'[b].key
          PROVE  d = b \/ cells'[d].key = 0
      BY <1>3, <2>1, <2>2, <2>3 DEF Lone
    <2> QED
      BY <2>1, <2>3 DEF Lone
  <1>8. Scalars'
    <2>1. lru' \in [1 .. Buckets -> Places \cup {0}]
      BY <1>1, <1>3, KeyFacts DEF Scalars
    <2>2. book' \in [Keys -> [fed : Nat, taken : Nat, gone : Nat]]
      <3>1. book' = [book EXCEPT ![k].fed = @ + n]
        BY DEF Update
      <3>2. book \in [Keys -> [fed : Nat, taken : Nat, gone : Nat]]
        BY <1>1 DEF Scalars
      <3> QED
        BY <3>1, <3>2, BookFacts
    <2> QED
      BY <1>1, <1>4, <1>6, <2>1, <2>2 DEF Scalars
  <1> QED
    BY <1>4, <1>5, <1>6, <1>7, <1>8 DEF TableInv

\* The larger of two numbers is one of them.
LEMMA MaxOfTwo ==
  ASSUME NEW a \in Nat, NEW b \in Nat
  PROVE  Max({a, b}) \in {a, b}
PROOF
  <1>1. \E m \in {a, b} : \A n \in {a, b} : m >= n
    OBVIOUS
  <1> QED
    BY <1>1 DEF Max

\* So does one for a new element.
LEMMA CreateSound ==
  ASSUME TableInv, NEW k \in Keys, NEW n \in Nat, Missing(k), Create(k, n),
         UNCHANGED <<lock, go_to_clear, clears>>,
         count' \in [records : Nat, queries : Nat]
  PROVE  TableInv'
PROOF
  <1> DEFINE new == Buckets + used + 1
  <1>1. /\ Memory(cells, used) /\ used \in Nat
        /\ cells \in [Places -> Cell(used)] /\ Scalars /\ (holed \/ Lone(cells))
    BY DEF TableInv, Scalars, Memory
  <1>2. Store(cells', srv)
    BY Zenon DEF Create, Store
  <1>3. /\ used' = used + 1 /\ used' \in 0 .. (MaxPools - 1) * PoolSize
        /\ new \in Places /\ PoolOf(new) \in 2 .. MaxPools
        /\ \A c \in Places \ {new} : cells'[c].key = cells[c].key
        /\ cells'[new].key = k
        /\ Memory(cells', used')
        /\ \A c \in Places : cells[c].key # k
    BY CreateFacts
  <1>4. /\ Calls' /\ holed' \in BOOLEAN
        /\ holed'
           = (holed \/ \E d \in Places : cells'[d].key # 0
             /\ cells'[d].bytes = 0)
    <2>1. clears' \in Nat /\ clears <= clears'
      BY <1>1 DEF Scalars
    <2> QED
      BY <1>2, <2>1, CallsStored
  <1>5. /\ mapped' = Max({mapped, PoolOf(new)})
        /\ no_more_space' = no_more_space
        /\ lru' = [lru EXCEPT ![Hash[k]] = new]
        /\ book' = [book EXCEPT ![k].fed = @ + n]
        /\ raced' \in {raced, raced \cup {k}}
    BY DEF Create
  <1> HIDE DEF new
  <1>6. holed' \/ Lone(cells')
    <2> SUFFICES ASSUME ~holed' PROVE Lone(cells')
      OBVIOUS
    <2>1. /\ Lone(cells)
          /\ \A d \in Places : cells'[d].key # 0 => cells'[d].bytes # 0
      BY <1>1, <1>4
    <2>2. ASSUME NEW d \in Places, NEW b \in Places,
                 cells'[d].key = cells'[b].key
          PROVE  d = b \/ cells'[d].key = 0
      BY <1>3, <2>1, <2>2 DEF Lone
    <2> QED
      BY <2>1, <2>2 DEF Lone
  <1>7. Scalars'
    <2>1. lru' \in [1 .. Buckets -> Places \cup {0}]
      BY <1>1, <1>3, <1>5, KeyFacts DEF Scalars
    <2>2. book' \in [Keys -> [fed : Nat, taken : Nat, gone : Nat]]
      <3>1. book \in [Keys -> [fed : Nat, taken : Nat, gone : Nat]]
        BY <1>1 DEF Scalars
      <3> QED
        BY <1>5, <3>1, BookFacts
    <2>3. mapped' \in 2 .. MaxPools
      <3>1. mapped \in 2 .. MaxPools
        BY <1>1 DEF Scalars
      <3>2. Max({mapped, PoolOf(new)}) \in {mapped, PoolOf(new)}
        BY <1>3, <3>1, MaxOfTwo
      <3> QED
        BY <1>3, <1>5, <3>1, <3>2
    <2>4. raced' \subseteq Keys
      BY <1>1, <1>5 DEF Scalars
    <2> QED
      BY <1>1, <1>3, <1>4, <1>5, <2>1, <2>2, <2>3, <2>4 DEF Scalars
  <1> QED
    BY <1>3, <1>4, <1>6, <1>7 DEF TableInv

\* Nothing but the account changes when there is no room.
LEMMA NoRoomSound ==
  ASSUME TableInv, NEW k \in Keys, NEW n \in Nat, NoRoom(k, n),
         UNCHANGED <<lock, go_to_clear, clears>>,
         count' \in [records : Nat, queries : Nat]
  PROVE  TableInv'
PROOF
  <1>1. UNCHANGED <<cells, used, mapped, lru, srv, raced, holed>>
        /\ no_more_space' = TRUE
    BY DEF NoRoom
  <1>2. book' \in [Keys -> [fed : Nat, taken : Nat, gone : Nat]]
    BY BookFacts, ZenonT(30) DEF TableInv, Scalars, NoRoom
  <1>3. Scalars'
    BY <1>1, <1>2 DEF TableInv, Scalars
  <1>4. Memory(cells, used)' /\ (holed \/ Lone(cells))' /\ Calls'
    BY <1>1 DEF TableInv, Memory, Wired, IsChain, On, Lone, Calls
  <1> QED
    BY <1>3, <1>4 DEF TableInv

\* Shown() is a number.
LEMMA ShownType ==
  ASSUME NEW mem, NEW u, mem \in [Places -> Cell(u)], NEW k
  PROVE  Shown(mem, k) \in Nat
PROOF
  <1> DEFINE f == [c \in Places |-> mem[c].bytes]
             S == {c \in Places : Visible(mem[c]) /\ mem[c].key = k}
  <1>1. \A c \in S : f[c] \in Nat
    BY DEF Cell
  <1>2. IsFiniteSet(S)
    BY PlacesFacts, FS_Subset
  <1> HIDE DEF f, S
  <1>3. SumFunctionOnSet(f, S) \in Nat
    BY <1>1, <1>2, SumType
  <1> QED
    BY <1>3 DEF Shown, f, S

\* An erased table is sound.
LEMMA ClearSound ==
  ASSUME TableInv, Clear
  PROVE  /\ TableInv'
         /\ clears' = clears + 1
         /\ \A p \in Procs : srv'[p].since = srv[p].since
PROOF
  <1>1. /\ Scalars /\ cells \in [Places -> Cell(used)]
    BY DEF TableInv, Memory
  <1>2. Store(Cleared, srv) /\ clears' = clears + 1 /\ used' = 0
    BY DEF Clear
  <1>3. /\ Calls' /\ cells' = Cleared /\ holed' \in BOOLEAN
        /\ \A p \in Procs : Shrunk(srv'[p], srv[p])
    <2>1. clears' \in Nat /\ clears <= clears'
      BY <1>1, <1>2 DEF Scalars
    <2> QED
      BY <1>2, <2>1, CallsStored
  <1>4. cells' = [c \in Places |-> Zero]
    BY <1>3 DEF Cleared
  <1>5. /\ \A c \in Places : /\ cells'[c].key = 0 /\ cells'[c].bytes = 0
                             /\ cells'[c].next = 0 /\ ~cells'[c].type
    BY <1>4 DEF Zero
  <1>6. cells' \in [Places -> Cell(0)]
    <2>1. Zero \in Cell(0)
      BY DEF Zero, Cell
    <2> QED
      BY <1>4, <2>1
  <1>7. Memory(cells', 0)
    <2>1. Wired(cells', 0)
      BY <1>5, ChainsEmpty
    <2>2. \A c \in Places : c > Buckets => c > Buckets + 0
      BY PlacesFacts
    <2> QED
      BY <1>5, <1>6, <2>1, <2>2 DEF Memory
  <1>8. Lone(cells')
    BY <1>5 DEF Lone
  <1>9. Scalars'
    <2>1. book' \in [Keys -> [fed : Nat, taken : Nat, gone : Nat]]
      <3>1. book'
            = [k \in Keys |-> [book[k] EXCEPT !.gone = @ + Shown(cells, k)]]
        BY DEF Clear
      <3>2. ASSUME NEW k \in Keys
            PROVE  [book[k] EXCEPT !.gone = @ + Shown(cells, k)]
                     \in [fed : Nat, taken : Nat, gone : Nat]
        <4>1. Shown(cells, k) \in Nat
          BY <1>1, ShownType
        <4>2. book[k] \in [fed : Nat, taken : Nat, gone : Nat]
          BY <1>1 DEF Scalars
        <4>3. book[k].gone + Shown(cells, k) \in Nat
          BY <4>1, <4>2
        <4> QED
          BY <4>2, <4>3
      <3> QED
        BY <3>1, <3>2
    <2>2. (MaxPools - 1) * PoolSize \in Nat
      BY PlacesFacts
    <2>3. no_more_space' \in BOOLEAN /\ go_to_clear' \in BOOLEAN
      BY DEF Clear
    <2>4. UNCHANGED <<mapped, lru, lock, count, raced>>
      BY DEF Clear
    <2> QED
      BY <1>1, <1>2, <1>3, <2>1, <2>2, <2>3, <2>4 DEF Scalars
  <1>10. \A p \in Procs : srv'[p].since = srv[p].since
    BY <1>3 DEF Shrunk
  <1> QED
    BY <1>2, <1>3, <1>7, <1>8, <1>9, <1>10 DEF TableInv

\* What holds of a call that runs.
LEMMA CallFacts ==
  ASSUME TableInv, NEW p \in Procs, srv[p].pc # "idle"
  PROVE  /\ srv[p] \in Call /\ srv \in [Procs -> Call] /\ CallOK(srv[p])
         /\ srv[p].at \in Places /\ srv[p].at \in Nat
         /\ srv[p].idx \in 1 .. Buckets
         /\ srv[p].todo \in Seq(Request) /\ srv[p].todo # << >>
         /\ Whole(srv[p].todo)
         /\ Head(srv[p].todo) \in Request
         /\ Head(srv[p].todo).keys \subseteq Keys
         /\ Head(srv[p].todo).exact \in BOOLEAN
         /\ Heap(p, srv[p])
         /\ Head(srv[p].todo).exact
            => \E k \in Keys : Head(srv[p].todo).keys = {k}
         /\ cells[srv[p].at] \in Cell(used) /\ cells \in [Places -> Cell(used)]
         /\ srv[p].mapped \in Nat /\ srv[p].mapped >= 2
         /\ srv[p].since \in Nat /\ srv[p].since <= clears /\ clears \in Nat
PROOF
  <1>1. /\ srv \in [Procs -> Call] /\ CallOK(srv[p]) /\ srv[p].since <= clears
        /\ Heap(p, srv[p]) /\ clears \in Nat /\ cells \in [Places -> Cell(used)] /\ Buckets \in Nat
    BY PlacesFacts DEF TableInv, Calls, Scalars, Memory
  <1>2. /\ srv[p] \in Call /\ srv[p].at \in Places /\ srv[p].at \in Nat
        /\ srv[p].idx \in 1 .. Buckets
        /\ srv[p].todo \in Seq(Request) /\ srv[p].todo # << >>
        /\ Whole(srv[p].todo)
        /\ srv[p].mapped \in Nat /\ srv[p].mapped >= 2 /\ srv[p].since \in Nat
    BY <1>1 DEF CallOK, Call
  <1>3. /\ Head(srv[p].todo) \in Request /\ Head(srv[p].todo) = srv[p].todo[1]
        /\ 1 \in 1 .. Len(srv[p].todo)
    BY <1>2, HeadTailProperties, LenProperties, EmptySeq
  <1>4. /\ Head(srv[p].todo).keys \subseteq Keys
        /\ Head(srv[p].todo).exact \in BOOLEAN
        /\ Head(srv[p].todo).exact
           => \E k \in Keys : Head(srv[p].todo).keys = {k}
    BY <1>2, <1>3 DEF Whole, Request
  <1> QED
    BY <1>1, <1>2, <1>3, <1>4

\* Steps that change calls only.
LEMMA OnlyCalls ==
  ASSUME TableInv, Calls',
         UNCHANGED <<cells, used, mapped, no_more_space, lru, book, raced,
                   holed, clears>>,
         lock' \in BOOLEAN, go_to_clear' \in BOOLEAN,
         count' \in [records : Nat, queries : Nat]
  PROVE  TableInv'
PROOF
  BY DEF TableInv, Scalars, Memory, Wired, IsChain, On, Lone

\* A query arrives.
LEMMA AskSound ==
  ASSUME TableInv, NEW q \in Queries, Ask(q)
  PROVE  /\ TableInv'
         /\ UNCHANGED <<cells, used, book, raced, holed, clears>>
         /\ \/ UNCHANGED srv
            \/ \E p \in Procs, t \in Call :
                 /\ srv' = [srv EXCEPT ![p] = t]
                 /\ q.requests \in Seq(Request) /\ q.requests # << >>
                 /\ Whole(q.requests) /\ q.reset \in BOOLEAN
                 /\ t = Begin(q.requests, q.reset, mapped, {})
PROOF
  <1>1. /\ q.requests \in Seq(Request) /\ q.reset \in BOOLEAN
        /\ q.lock \in BOOLEAN
        /\ q.erase \in BOOLEAN /\ Whole(q.requests)
    <2>1. /\ q.requests \in Seq(Request)
          /\ \A i \in DOMAIN q.requests :
               q.requests[i].exact => \E k \in Keys : q.requests[i].keys = {k}
          /\ {q.reset, q.lock, q.erase} \subseteq BOOLEAN
      BY ImtTableAssumption DEF Request
    <2>2. DOMAIN q.requests = 1 .. Len(q.requests)
      BY <2>1, LenProperties
    <2> QED
      BY <2>1, <2>2 DEF Whole
  <1>2. /\ UNCHANGED <<cells, used, mapped, no_more_space, lru, book, raced,
           holed, clears>>
        /\ lock' = (lock \/ q.lock) /\ go_to_clear' = q.erase
        /\ count' = [count EXCEPT !.queries = @ + 1]
    BY DEF Ask
  <1>3. /\ mapped \in 2 .. MaxPools /\ mapped \in Nat /\ mapped >= 2
        /\ clears \in Nat
        /\ lock \in BOOLEAN /\ count \in [records : Nat, queries : Nat] /\ Calls
        /\ MaxPools \in Nat
    BY ImtTableAssumption DEF TableInv, Scalars
  <1>4. \/ UNCHANGED srv
        \/ \E p \in Procs, t \in Call :
             /\ srv' = [srv EXCEPT ![p] = t] /\ CallOK(t) /\ t.since = clears
             /\ Heap(p, t) /\ q.requests # << >>
             /\ t = Begin(q.requests, q.reset, mapped, {})
    <2>1. CASE q.requests = << >>
      BY <2>1 DEF Ask
    <2>2. CASE q.requests # << >>
      <3>1. PICK p \in Procs : srv'
            = [srv EXCEPT ![p] = Begin(q.requests, q.reset, mapped, {})]
        BY <2>2 DEF Ask
      <3> DEFINE t == Begin(q.requests, q.reset, mapped, {})
      <3>2. t \in Call /\ CallOK(t) /\ t.since = clears /\ t.far = {}
        BY <1>1, <1>3, <2>2, BeginFacts
      <3>3. Heap(p, t)
        BY <3>2 DEF Heap
      <3> QED
        BY <2>2, <3>1, <3>2, <3>3
    <2> QED
      BY <2>1, <2>2
  <1>5. Calls'
    <2>1. CASE UNCHANGED srv
      BY <1>2, <1>3, <2>1 DEF Calls
    <2>2. ASSUME NEW p \in Procs, NEW t \in Call, srv' = [srv EXCEPT ![p] = t],
                 CallOK(t), Heap(p, t), t.since = clears
          PROVE  Calls'
      <3>1. t.since <= clears /\ clears' = clears
        BY <1>2, <1>3, <2>2
      <3> QED
        BY <1>3, <2>2, <3>1, CallReplaced
    <2> QED
      BY <1>4, <2>1, <2>2
  <1>6. lock' \in BOOLEAN /\ go_to_clear' \in BOOLEAN
    BY <1>1, <1>2, <1>3
  <1>7. count' \in [records : Nat, queries : Nat]
    BY <1>2, <1>3
  <1>8. TableInv'
    BY <1>2, <1>5, <1>6, <1>7, OnlyCalls, SMTT(30)
  <1> QED
    BY <1>1, <1>2, <1>4, <1>8

\* The call of a query once it has compared an element, well or not.
LEMMA VisitedFacts ==
  ASSUME TableInv, NEW p \in Procs, srv[p].pc = "visit", NEW hit \in BOOLEAN,
         NEW y, y = Visited(srv[p], cells[srv[p].at], hit)
  PROVE  LET s == srv[p]
             e == cells[s.at]
             report == hit /\ Visible(e)
         IN /\ y \in Call /\ CallOK(y) /\ Heap(p, y) /\ y.since <= clears
            /\ y.pc = (IF report /\ s.reset THEN "reset"
                       ELSE IF hit /\ Head(s.todo).exact THEN "end" ELSE "move")
            /\ y.got = (IF report THEN s.got \cup {s.at} ELSE s.got)
            /\ y.twice = (s.twice \/ (report /\ s.at \in s.got))
            /\ y.at = s.at /\ y.idx = s.idx /\ y.todo = s.todo
            /\ y.since = s.since /\ y.old = s.old /\ y.far = s.far
PROOF
  <1> DEFINE s == srv[p]
             e == cells[s.at]
             r == Head(s.todo)
             report == hit /\ Visible(e)
             a == IF report /\ s.reset THEN "reset"
                  ELSE IF hit /\ r.exact THEN "end" ELSE "move"
             x == IF report /\ s.reset THEN [e EXCEPT !.next = 0] ELSE Zero
             g == IF report THEN s.got \cup {s.at} ELSE s.got
             w == s.twice \/ (report /\ s.at \in s.got)
  <1>1. y = [s EXCEPT !.pc = a, !.seen = x, !.got = g, !.twice = w]
    BY DEF Visited
  <1>2. /\ s \in Call /\ CallOK(s) /\ s.at \in Places /\ Heap(p, s)
        /\ e \in Cell(used) /\ s.since <= clears /\ s.todo # << >>
        /\ s.pc = "visit"
    BY CallFacts
  <1>3. Visible(e) => e.key \in Keys
    <2>1. e.key = 0 => ~e.type
      BY <1>2 DEF TableInv, Memory
    <2> QED
      BY <1>2, <2>1 DEF Visible, Cell
  <1>4. a \in {"idle", "visit", "reset", "move", "end"} /\ a # "idle"
    OBVIOUS
  <1>5. x \in Snapshot /\ (report /\ s.reset => x.key = e.key /\ Visible(x))
    <2>1. CASE report /\ s.reset
      <3>1. x = [e EXCEPT !.next = 0]
        BY <2>1
      <3> HIDE DEF x
      <3>2. x \in Snapshot
        BY <1>2, <3>1 DEF Cell, Snapshot
      <3>3. x.key = e.key
        BY <1>2, <3>1 DEF Cell
      <3>4. x.type = e.type
        BY <1>2, <3>1 DEF Cell
      <3>5. x.flag = e.flag
        BY <1>2, <3>1 DEF Cell
      <3> QED
        BY <2>1, <3>2, <3>3, <3>4, <3>5 DEF Visible
    <2>2. CASE ~(report /\ s.reset)
      <3>1. x = Zero
        BY <2>2
      <3> HIDE DEF x
      <3> QED
        BY <2>2, <3>1 DEF Zero, Snapshot
    <2> QED
      BY <2>1, <2>2
  <1>6. g \in SUBSET Places
    BY <1>2 DEF Call
  <1>7. w \in BOOLEAN
    BY <1>2 DEF Call
  <1>8. PICK v \in BOOLEAN : v = w
    BY <1>7
  <1>9. a = "reset" => report /\ s.reset
    OBVIOUS
  <1>10. y = [s EXCEPT !.pc = a, !.seen = x, !.got = g, !.twice = v]
    BY <1>1, <1>8
  <1> HIDE DEF a, x, g, w
  <1>11. /\ y \in Call /\ y.pc = a /\ y.seen = x /\ y.got = g /\ y.twice = v
         /\ y.at = s.at /\ y.idx = s.idx /\ y.todo = s.todo
         /\ y.mapped = s.mapped
         /\ y.since = s.since /\ y.old = s.old /\ y.far = s.far
    <2> HIDE DEF s, e, r
    <2>1. /\ s \in Call /\ a \in {"idle", "visit", "reset", "move", "end"}
          /\ x \in Snapshot /\ g \in SUBSET Places /\ v \in BOOLEAN
      BY <1>2, <1>4, <1>5, <1>6
    <2>2. y \in Call
      BY <1>10, <2>1 DEF Call
    <2>3. y.pc = a /\ y.seen = x /\ y.got = g
      BY <1>10, <2>1 DEF Call
    <2>4. y.twice = v
      BY <1>10, <2>1 DEF Call
    <2>5. /\ y.at = s.at /\ y.idx = s.idx /\ y.todo = s.todo
          /\ y.mapped = s.mapped
          /\ y.since = s.since /\ y.old = s.old /\ y.far = s.far
      BY <1>10, <2>1 DEF Call
    <2> QED
      BY <2>2, <2>3, <2>4, <2>5
  <1>12. CallOK(y)
    <2>1. y.pc = "reset" => y.seen.key \in Keys /\ Visible(y.seen)
      BY <1>3, <1>5, <1>9, <1>11
    <2> QED
      BY <1>2, <1>11, <2>1 DEF CallOK
  <1>13. Heap(p, y)
    BY <1>2, <1>4, <1>11 DEF Heap
  <1> QED
    <2>1. /\ y.pc = a /\ y.got = g /\ y.twice = w /\ y.at = s.at
          /\ y.idx = s.idx /\ y.todo = s.todo
          /\ y.since = s.since /\ y.old = s.old /\ y.far = s.far
          /\ y.since <= clears
      BY <1>2, <1>8, <1>11
    <2> QED
      BY <1>11, <1>12, <1>13, <2>1 DEF a, g, w

\* A query visits an element, or the child that serves it is killed.
LEMMA VisitSound ==
  ASSUME TableInv, NEW p \in Procs, Visit(p)
  PROVE  LET s == srv[p]
             t == srv'[p]
             e == cells[s.at]
         IN /\ TableInv' /\ s.pc = "visit"
            /\ \/ t.pc = "idle"
               \/ \E hit \in Outcomes(s, e) :
                    hit \in BOOLEAN /\ t = Visited(s, e, hit)
            /\ t.pc # "idle" => t.since = s.since
            /\ \A q \in Procs \ {p} : srv'[q] = srv[q]
            /\ UNCHANGED <<cells, used, book, raced, holed, clears>>
PROOF
  <1> DEFINE s == srv[p]
             e == cells[s.at]
  <1>1. /\ s.pc = "visit"
        /\ UNCHANGED <<cells, used, mapped, no_more_space, lru, lock,
             go_to_clear, count, book, raced, holed, clears>>
        /\ \/ \E hit \in Outcomes(s, e) : srv' = [srv EXCEPT ![p] = Visited(s, e, hit)]
           \/ srv' = [srv EXCEPT ![p] = Idle]
    BY DEF Visit
  <1>2. PICK y : /\ srv' = [srv EXCEPT ![p] = y]
                 /\ \/ y = Idle
                    \/ \E hit \in Outcomes(s, e) : y = Visited(s, e, hit)
    BY <1>1
  <1>3. \A hit \in Outcomes(s, e) : hit \in BOOLEAN
    <2> TAKE hit \in Outcomes(s, e)
    <2>1. CASE Lost(s, e) /\ ~Head(s.todo).all
      BY <2>1 DEF Outcomes
    <2>2. CASE ~(Lost(s, e) /\ ~Head(s.todo).all)
      <3>1. hit = (e.key \in Head(s.todo).keys)
        BY <2>2 DEF Outcomes
      <3> QED
        BY <3>1
    <2> QED
      BY <2>1, <2>2
  <1>4. /\ y \in Call /\ CallOK(y) /\ Heap(p, y) /\ y.since <= clears
        /\ y.pc = "idle" \/ y.since = s.since
    <2>1. CASE y = Idle
      <3>1. Idle.since = 0 /\ clears \in Nat
        BY DEF Idle, TableInv, Scalars
      <3> QED
        BY <2>1, <3>1, IdleCall
    <2>2. ASSUME NEW hit \in Outcomes(s, e), y = Visited(s, e, hit)
          PROVE  /\ y \in Call /\ CallOK(y) /\ Heap(p, y) /\ y.since <= clears
                 /\ y.since = s.since
      BY <1>1, <1>3, <2>2, VisitedFacts
    <2> QED
      BY <1>2, <2>1, <2>2
  <1>5. /\ Calls' /\ srv'[p] = y /\ \A q \in Procs \ {p} : srv'[q] = srv[q]
    <2>1. Calls /\ clears' = clears
      BY <1>1 DEF TableInv
    <2> QED
      BY <1>2, <1>4, <2>1, CallReplaced
  <1>6. TableInv'
    <2>1. /\ lock' \in BOOLEAN /\ go_to_clear' \in BOOLEAN
          /\ count' \in [records : Nat, queries : Nat]
      BY <1>1 DEF TableInv, Scalars
    <2> QED
      BY <1>1, <1>5, <2>1, OnlyCalls
  <1>7. \/ y.pc = "idle"
        \/ \E hit \in Outcomes(s, e) : hit \in BOOLEAN /\ y = Visited(s, e, hit)
    BY <1>2, <1>3, IdleCall
  <1> QED
    BY <1>1, <1>4, <1>5, <1>6, <1>7

\* A query resets an element that it reported.
LEMMA ResetSound ==
  ASSUME TableInv, NEW p \in Procs, Reset(p)
  PROVE  LET s == srv[p]
             t == srv'[p]
             e == cells[s.at]
         IN /\ TableInv' /\ s.pc = "reset" /\ s.at \in Places /\ used' = used
            /\ s.seen.key \in Keys /\ s.seen.bytes \in Nat /\ Visible(s.seen)
            /\ cells'[s.at] = ResetElem(p, e) /\ e \in Cell(used)
            /\ \A c \in Places \ {s.at} : cells'[c] = cells[c]
            /\ \A c \in Places : cells'[c].key = cells[c].key
                                 /\ cells'[c].next = cells[c].next
            /\ t.pc = (IF Head(s.todo).exact THEN "end" ELSE "move")
            /\ t.at = s.at /\ t.idx = s.idx /\ t.todo = s.todo
            /\ t.since = s.since
            /\ t.got = s.got /\ t.twice = s.twice /\ t.old \subseteq s.old
            /\ \A q \in Procs \ {p} : Shrunk(srv'[q], srv[q])
            /\ \A q \in Procs : \A c \in srv'[q].old :
                 c \in srv'[q].got
                   \/ (Visible(cells'[c]) /\ cells'[c].key = cells[c].key)
            /\ \A q \in Procs : srv'[q].far \subseteq srv[q].far
            /\ holed'
               = (holed \/ \E c \in Places : cells'[c].key # 0
                 /\ cells'[c].bytes = 0)
            /\ book' = [book EXCEPT ![s.seen.key].taken = @ + s.seen.bytes]
            /\ raced' = raced \cup
                 (IF [e EXCEPT !.next = 0] # s.seen
                  THEN {s.seen.key, e.key} \cap Keys ELSE {})
            /\ clears' = clears
PROOF
  <1> DEFINE s == srv[p]
             e == cells[s.at]
             a == IF Head(s.todo).exact THEN "end" ELSE "move"
             calls == [srv EXCEPT ![p].pc = a, ![p].seen = Zero]
             mem == [cells EXCEPT ![s.at] = ResetElem(p, @)]
  <1>1. /\ s.pc = "reset" /\ Store(mem, calls)
        /\ book' = [book EXCEPT ![s.seen.key].taken = @ + s.seen.bytes]
        /\ raced' = raced \cup
             (IF [e EXCEPT !.next = 0] # s.seen
              THEN {s.seen.key, e.key} \cap Keys ELSE {})
        /\ UNCHANGED <<used, mapped, no_more_space, lru, lock, go_to_clear,
           count, clears>>
    BY DEF Reset
  <1>2. /\ s \in Call /\ CallOK(s) /\ s.at \in Places /\ e \in Cell(used)
        /\ s.since <= clears /\ srv \in [Procs -> Call]
        /\ cells \in [Places -> Cell(used)]
    BY <1>1, CallFacts
  <1>3. /\ Memory(cells, used) /\ used \in Nat /\ Scalars
        /\ (holed \/ Lone(cells))
        /\ \A q \in Procs :
             CallOK(srv[q]) /\ Heap(q, srv[q]) /\ srv[q].since <= clears
    BY DEF TableInv, Scalars, Calls
  <1>4. /\ s.seen.key \in Keys /\ Visible(s.seen) /\ s.seen.bytes \in Nat
    BY <1>1, <1>2 DEF CallOK, Call, Snapshot
  <1>5. /\ ResetElem(p, e) \in Cell(used) /\ ResetElem(p, e).key = e.key
        /\ ResetElem(p, e).next = e.next
        /\ \/ ResetElem(p, e).bytes = 0 /\ ~ResetElem(p, e).type
           \/ /\ ResetElem(p, e).bytes = e.bytes
              /\ ResetElem(p, e).type = e.type
    BY <1>2, ResetFacts
  <1>6. /\ mem \in [Places -> Cell(used)] /\ mem[s.at] = ResetElem(p, e)
        /\ \A c \in Places \ {s.at} : mem[c] = cells[c]
    BY <1>2, <1>5
  <1>7. /\ calls \in [Procs -> Call] /\ calls[p].pc = a
        /\ calls[p].at = s.at /\ calls[p].idx = s.idx /\ calls[p].todo = s.todo
        /\ calls[p].since = s.since /\ calls[p].got = s.got
        /\ calls[p].twice = s.twice /\ calls[p].old = s.old
        /\ calls[p].mapped = s.mapped /\ calls[p].far = s.far
        /\ \A q \in Procs \ {p} : calls[q] = srv[q]
    <2> DEFINE y == [s EXCEPT !.pc = a, !.seen = Zero]
    <2>1. a \in {"idle", "visit", "reset", "move", "end"} /\ Zero \in Snapshot
      BY DEF Zero, Snapshot
    <2>2. calls = [srv EXCEPT ![p] = y]
      OBVIOUS
    <2> HIDE DEF a, calls, s
    <2>4. y \in Call
      BY <1>2, <2>1 DEF Call
    <2>5. /\ y.pc = a /\ y.at = s.at /\ y.idx = s.idx
          /\ y.got = s.got /\ y.todo = s.todo /\ y.mapped = s.mapped
          /\ y.since = s.since /\ y.old = s.old /\ y.far = s.far
      BY <1>2, <2>1 DEF Call
    <2>6. y.twice = s.twice
      BY <1>2, <2>1 DEF Call
    <2> HIDE DEF y
    <2> QED
      BY <1>2, <2>2, <2>4, <2>5, <2>6
  <1> HIDE DEF calls, mem
  <1>8. /\ cells' = mem /\ srv' \in [Procs -> Call]
        /\ \A q \in Procs :
             /\ Shrunk(srv'[q], calls[q])
             /\ \A c \in srv'[q].old :
                  c \in calls[q].got
                    \/ (Visible(mem[c]) /\ mem[c].key = cells[c].key)
             /\ srv'[q].far \subseteq Places
             /\ \A c \in srv'[q].far :
                  c \in calls[q].far \/ mem[c].key # cells[c].key
             /\ Heap(q, calls[q]) => Heap(q, srv'[q])
        /\ holed'
           = (holed \/ \E c \in Places : mem[c].key # 0 /\ mem[c].bytes = 0)
    <2>1. /\ cells' = mem /\ srv' \in [Procs -> Call]
          /\ \A q \in Procs :
               /\ Shrunk(srv'[q], calls[q])
               /\ \A c \in srv'[q].old :
                    c \in calls[q].got
                      \/ (Visible(mem[c]) /\ mem[c].key = cells[c].key)
               /\ \A c \in srv'[q].far :
                    c \in calls[q].far \/ mem[c].key # cells[c].key
               /\ Heap(q, calls[q]) => Heap(q, srv'[q])
          /\ holed'
             = (holed \/ \E c \in Places : mem[c].key # 0 /\ mem[c].bytes = 0)
      BY <1>1, <1>7, StoreFacts
    <2>2. \A q \in Procs : srv'[q].far \subseteq Places
      BY <2>1 DEF Call
    <2> QED
      BY <2>1, <2>2
  <1>9. /\ srv'[p].pc = a /\ srv'[p].at = s.at /\ srv'[p].idx = s.idx
        /\ srv'[p].todo = s.todo /\ srv'[p].since = s.since
        /\ srv'[p].got = s.got
        /\ srv'[p].twice = s.twice /\ srv'[p].old \subseteq s.old
        /\ srv'[p].mapped = s.mapped
    BY <1>7, <1>8 DEF Shrunk
  <1>10. \A q \in Procs \ {p} : Shrunk(srv'[q], srv[q])
    BY <1>7, <1>8
  <1>11. \A c \in Places : cells'[c].key = cells[c].key
         /\ cells'[c].next = cells[c].next
    BY <1>5, <1>6, <1>8
  <1>12. \A q \in Procs : \A c \in srv'[q].old :
           c \in srv'[q].got
             \/ (Visible(cells'[c]) /\ cells'[c].key = cells[c].key)
    BY <1>8 DEF Shrunk
  <1>f. \A q \in Procs : srv'[q].far \subseteq srv[q].far
    <2>1. \A q \in Procs : calls[q].far = srv[q].far
      BY <1>7
    <2>2. \A c \in Places : mem[c].key = cells[c].key
      BY <1>5, <1>6
    <2> QED
      BY <1>8, <2>1, <2>2
  <1>h. \A q \in Procs : Heap(q, srv'[q])
    <2>1. \A q \in Procs : Heap(q, calls[q])
      BY <1>1, <1>3, <1>7 DEF Heap
    <2> QED
      BY <1>8, <2>1
  <1>13. Memory(cells', used)
    <2>1. ASSUME NEW c \in Places
          PROVE  /\ cells'[c].key = 0 => cells'[c].bytes = 0 /\ ~cells'[c].type
                 /\ ~cells'[c].type => cells'[c].bytes = 0
      <3>1. CASE c = s.at
        <4>1. /\ e.key = 0 => e.bytes = 0 /\ ~e.type
              /\ ~e.type => e.bytes = 0
          BY <1>2, <1>3 DEF Memory
        <4>2. cells'[c] = ResetElem(p, e)
          BY <1>6, <1>8, <3>1
        <4> QED
          BY <1>5, <4>1, <4>2
      <3>2. CASE c # s.at
        BY <1>3, <1>6, <1>8, <3>2 DEF Memory
      <3> QED
        BY <3>1, <3>2
    <2> QED
      BY <1>3, <1>6, <1>8, <1>11, <2>1, MemoryKept
  <1>14. holed' \/ Lone(cells')
    <2> SUFFICES ASSUME ~holed' PROVE Lone(cells')
      OBVIOUS
    <2>1. /\ Lone(cells)
          /\ \A d \in Places : cells'[d].key # 0 => cells'[d].bytes # 0
      BY <1>3, <1>8
    <2> QED
      BY <1>11, <2>1 DEF Lone
  <1>15. Calls'
    <2>1. \A q \in Procs \ {p} : CallOK(srv'[q]) /\ srv'[q].since = srv[q].since
      <3>1. \A q \in Procs \ {p} : CallOK(srv'[q])
        BY <1>3, <1>10, CallShrunk
      <3> QED
        BY <1>10, <3>1 DEF Shrunk
    <2>2. CallOK(srv'[p])
      BY <1>1, <1>2, <1>9 DEF CallOK
    <2>3. \A q \in Procs : srv'[q].since <= clears'
      BY <1>1, <1>3, <1>9, <2>1
    <2> QED
      BY <1>8, <1>h, <2>1, <2>2, <2>3 DEF Calls
  <1>16. Scalars'
    <2>1. book' \in [Keys -> [fed : Nat, taken : Nat, gone : Nat]]
      <3>1. book \in [Keys -> [fed : Nat, taken : Nat, gone : Nat]]
        BY <1>3 DEF Scalars
      <3> QED
        BY <1>1, <1>4, <3>1, BookFacts
    <2>2. raced' \subseteq Keys
      BY <1>1, <1>3 DEF Scalars
    <2>3. holed' \in BOOLEAN
      BY <1>3, <1>8 DEF Scalars
    <2> QED
      BY <1>1, <1>3, <2>1, <2>2, <2>3, Zenon DEF Scalars
  <1>17. TableInv'
    BY <1>1, <1>13, <1>14, <1>15, <1>16 DEF TableInv
  <1> QED
    BY <1>1, <1>2, <1>4, <1>6, <1>8, <1>9, <1>10, <1>11, <1>12, <1>f, <1>17 DEF a

\* A query moves on.
LEMMA MoveSound ==
  ASSUME TableInv, NEW p \in Procs, Move(p)
  PROVE  LET s == srv[p]
             t == srv'[p]
             next == cells[s.at].next
         IN /\ TableInv' /\ s.pc = "move"
            /\ \/ t.pc = "idle"
               \/ next # 0 /\ t.pc = "visit" /\ t.at = next /\ t.idx = s.idx
               \/ /\ next = 0 /\ t.pc = "end" /\ t.at = s.at /\ t.idx = s.idx
                  /\ Head(s.todo).exact \/ s.idx = Buckets
               \/ /\ next = 0 /\ t.pc = "visit" /\ t.at = s.idx + 1
                  /\ t.idx = s.idx + 1
                  /\ ~Head(s.todo).exact /\ s.idx # Buckets
            /\ t.pc # "idle" =>
                 /\ t.todo = s.todo /\ t.since = s.since /\ t.old = s.old
                 /\ t.got = s.got /\ t.twice = s.twice /\ t.far = s.far
            /\ \A q \in Procs \ {p} : srv'[q] = srv[q]
            /\ UNCHANGED <<cells, used, book, raced, holed, clears>>
PROOF
  <1> DEFINE s == srv[p]
             next == cells[s.at].next
             more == PoolOf(next) <= s.mapped
             last == Head(s.todo).exact \/ s.idx = Buckets
  <1>1. s.pc = "move" /\ srv' = [srv EXCEPT ![p] = Onward(s)]
    BY DEF Move
  <1>2. /\ s \in Call /\ CallOK(s) /\ s.at \in Places /\ s.idx \in 1 .. Buckets
        /\ cells[s.at] \in Cell(used) /\ s.since <= clears /\ clears \in Nat
        /\ s.mapped \in Nat /\ s.mapped >= 2 /\ s.idx \in Nat /\ Heap(p, s)
    BY <1>1, CallFacts, PlacesFacts
  <1>3. UNCHANGED <<cells, used, mapped, no_more_space, lru, lock, go_to_clear,
                    count, book, raced, holed, clears>>
    BY DEF Move
  <1>4. next \in Nat /\ (next # 0 => next \in Places)
    <2>1. used \in 0 .. (MaxPools - 1) * PoolSize
      BY DEF TableInv, Scalars
    <2>2. next = 0 \/ next \in Buckets + 1 .. Buckets + used
      BY <1>2 DEF Cell
    <2> QED
      BY <2>1, <2>2, PlacesFacts DEF Size
  <1>5. PoolOf(next) \in Nat
    BY <1>4, PoolFacts
  <1>6. PICK t : t = Onward(s)
    OBVIOUS
  <1>7. \/ t = Idle
        \/ next # 0 /\ more /\ t = [s EXCEPT !.pc = "visit", !.at = next]
        \/ next = 0 /\ last /\ t = [s EXCEPT !.pc = "end"]
        \/ next = 0 /\ ~last
           /\ t = [s EXCEPT !.pc = "visit", !.at = s.idx + 1, !.idx = s.idx + 1]
    <2>1. CASE next # 0 /\ ~more
      <3>1. PoolOf(next) > s.mapped
        BY <1>2, <1>5, <2>1
      <3> QED
        BY <1>6, <2>1, <3>1 DEF Onward
    <2>2. CASE next # 0 /\ more
      BY <1>2, <1>5, <1>6, <2>2 DEF Onward
    <2>3. CASE next = 0 /\ last
      BY <1>6, <2>3 DEF Onward
    <2>4. CASE next = 0 /\ ~last
      BY <1>6, <2>4, Zenon DEF Onward
    <2> QED
      BY <2>1, <2>2, <2>3, <2>4
  <1>8. s.idx + 1 \in Nat /\ (~last => s.idx + 1 \in 1 .. Buckets)
    BY <1>2, PlacesFacts, SMTT(30)
  <1> HIDE DEF next, s, last
  <1>9. /\ t \in Call /\ CallOK(t) /\ t.since <= clears
        /\ \/ t.pc = "idle"
           \/ next # 0 /\ t.pc = "visit" /\ t.at = next /\ t.idx = s.idx
           \/ next = 0 /\ t.pc = "end" /\ t.at = s.at /\ t.idx = s.idx /\ last
           \/ next = 0 /\ t.pc = "visit" /\ t.at = s.idx + 1
              /\ t.idx = s.idx + 1 /\ ~last
        /\ t.pc # "idle" =>
             /\ t.todo = s.todo /\ t.since = s.since /\ t.old = s.old
             /\ t.got = s.got /\ t.twice = s.twice /\ t.far = s.far
    <2>1. CASE t = Idle
      <3>1. Idle.since = 0
        BY DEF Idle
      <3> QED
        BY <1>2, <2>1, <3>1, IdleCall
    <2> DEFINE same == /\ t \in Call /\ t.seen = s.seen
                       /\ t.got = s.got /\ t.todo = s.todo
                       /\ t.mapped = s.mapped
                       /\ t.since = s.since /\ t.old = s.old
                       /\ t.twice = s.twice /\ t.far = s.far
    <2>2. CASE next # 0 /\ more /\ t = [s EXCEPT !.pc = "visit", !.at = next]
      <3>1. same /\ t.pc = "visit" /\ t.at = next /\ t.idx = s.idx
        <4>1. t \in Call
          BY <1>2, <1>4, <2>2 DEF Call
        <4>2. /\ t.pc = "visit" /\ t.at = next /\ t.idx = s.idx
              /\ t.seen = s.seen
              /\ t.got = s.got /\ t.todo = s.todo /\ t.mapped = s.mapped
              /\ t.since = s.since /\ t.old = s.old /\ t.far = s.far
          BY <1>2, <1>4, <2>2 DEF Call
        <4>3. t.twice = s.twice
          BY <1>2, <1>4, <2>2 DEF Call
        <4> QED
          BY <4>1, <4>2, <4>3
      <3>2. CallOK(t)
        BY <1>1, <1>2, <1>4, <2>2, <3>1 DEF CallOK, s
      <3> QED
        BY <1>2, <2>2, <3>1, <3>2
    <2>3. CASE next = 0 /\ last /\ t = [s EXCEPT !.pc = "end"]
      <3>1. same /\ t.pc = "end" /\ t.at = s.at /\ t.idx = s.idx
        <4>1. t \in Call
          BY <1>2, <1>4, <2>3 DEF Call
        <4>2. /\ t.pc = "end" /\ t.at = s.at /\ t.idx = s.idx /\ t.seen = s.seen
              /\ t.got = s.got /\ t.todo = s.todo /\ t.mapped = s.mapped
              /\ t.since = s.since /\ t.old = s.old /\ t.far = s.far
          BY <1>2, <1>4, <2>3 DEF Call
        <4>3. t.twice = s.twice
          BY <1>2, <1>4, <2>3 DEF Call
        <4> QED
          BY <4>1, <4>2, <4>3
      <3>2. CallOK(t)
        BY <1>1, <1>2, <2>3, <3>1 DEF CallOK, s
      <3> QED
        BY <1>2, <2>3, <3>1, <3>2
    <2>4. CASE /\ next = 0 /\ ~last
               /\ t = [s EXCEPT !.pc = "visit", !.at = s.idx + 1,
                  !.idx = s.idx + 1]
      <3>1. same /\ t.pc = "visit" /\ t.at = s.idx + 1 /\ t.idx = s.idx + 1
        <4>1. t \in Call
          BY <1>2, <1>8, <2>4 DEF Call
        <4>2. /\ t.pc = "visit" /\ t.at = s.idx + 1 /\ t.idx = s.idx + 1
              /\ t.seen = s.seen
              /\ t.got = s.got /\ t.todo = s.todo /\ t.mapped = s.mapped
              /\ t.since = s.since /\ t.old = s.old /\ t.far = s.far
          BY <1>2, <1>8, <2>4 DEF Call
        <4>3. t.twice = s.twice
          BY <1>2, <1>8, <2>4 DEF Call
        <4> QED
          BY <4>1, <4>2, <4>3
      <3>2. t.at \in Places /\ PoolOf(t.at) = 1
        BY <1>8, <2>4, <3>1, PlacesFacts, PoolFacts
      <3>3. t.idx \in 1 .. Buckets
        BY <1>8, <2>4, <3>1
      <3>4. CallOK(t)
        BY <1>1, <1>2, <3>1, <3>2, <3>3 DEF CallOK, s
      <3> QED
        BY <1>2, <2>4, <3>1, <3>4
    <2> QED
      BY <1>7, <2>1, <2>2, <2>3, <2>4
  <1>10. /\ Calls' /\ srv'[p] = t /\ \A q \in Procs \ {p} : srv'[q] = srv[q]
    <2>1. srv' = [srv EXCEPT ![p] = t] /\ Calls
      BY <1>1, <1>6 DEF TableInv
    <2>2. Heap(p, t)
      <3>1. CASE t = Idle
        BY <3>1, IdleCall
      <3>2. CASE t # Idle
        <4>1. t.far = s.far /\ t.pc # "idle"
          BY <1>2, <1>7, <1>9, <3>2 DEF Call
        <4> QED
          BY <1>1, <1>2, <4>1 DEF Heap, s
      <3> QED
        BY <3>1, <3>2
    <2> QED
      BY <1>3, <1>9, <2>1, <2>2, CallReplaced
  <1>11. TableInv'
    <2>1. /\ lock' \in BOOLEAN /\ go_to_clear' \in BOOLEAN
          /\ count' \in [records : Nat, queries : Nat]
      BY <1>3 DEF TableInv, Scalars
    <2> QED
      BY <1>3, <1>10, <2>1, OnlyCalls
  <1> QED
    BY <1>1, <1>3, <1>9, <1>10, <1>11 DEF s, next, last

\* A query is done with a request.
LEMMA EndSound ==
  ASSUME TableInv, NEW p \in Procs, End(p)
  PROVE  LET s == srv[p]
             t == srv'[p]
         IN /\ TableInv' /\ s.pc = "end"
            /\ \/ t.pc = "idle"
               \/ /\ Tail(s.todo) \in Seq(Request) /\ Tail(s.todo) # << >>
                  /\ Whole(Tail(s.todo)) /\ s.reset \in BOOLEAN
                  /\ s.mapped \in Nat /\ s.mapped >= 2 /\ s.far \in SUBSET Places
                  /\ t = Begin(Tail(s.todo), s.reset, s.mapped, s.far)
            /\ \A q \in Procs \ {p} : srv'[q] = srv[q]
            /\ UNCHANGED <<cells, used, book, raced, holed, clears>>
PROOF
  <1> DEFINE s == srv[p]
             y == IF Len(s.todo) = 1 THEN Idle
               ELSE Begin(Tail(s.todo), s.reset, s.mapped, s.far)
  <1>1. s.pc = "end" /\ srv' = [srv EXCEPT ![p] = y]
    BY DEF End
  <1>2. /\ s \in Call /\ s.todo \in Seq(Request) /\ s.todo # << >>
        /\ Whole(s.todo)
        /\ s.mapped \in Nat /\ s.mapped >= 2 /\ clears \in Nat /\ Heap(p, s)
    BY <1>1, CallFacts
  <1>3. UNCHANGED <<cells, used, mapped, no_more_space, lru, lock, go_to_clear,
                    count, book, raced, holed, clears>>
    BY DEF End
  <1>4. s.reset \in BOOLEAN /\ s.far \in SUBSET Places
    BY <1>2 DEF Call
  <1>5. /\ y \in Call /\ CallOK(y) /\ Heap(p, y) /\ y.since <= clears
        /\ \/ y.pc = "idle"
           \/ /\ Tail(s.todo) \in Seq(Request) /\ Tail(s.todo) # << >>
              /\ Whole(Tail(s.todo))
              /\ y = Begin(Tail(s.todo), s.reset, s.mapped, s.far)
    <2>1. CASE Len(s.todo) = 1
      <3>1. y = Idle
        BY <2>1
      <3>2. Idle.since = 0
        BY DEF Idle
      <3> HIDE DEF y
      <3> QED
        BY <1>2, <3>1, <3>2, IdleCall
    <2>2. CASE Len(s.todo) # 1
      <3>1. y = Begin(Tail(s.todo), s.reset, s.mapped, s.far)
        BY <2>2
      <3>2. /\ Tail(s.todo) \in Seq(Request)
            /\ Len(Tail(s.todo)) = Len(s.todo) - 1
            /\ \A i \in 1 .. Len(s.todo) - 1 : Tail(s.todo)[i] = s.todo[i + 1]
            /\ Len(s.todo) \in Nat /\ Len(s.todo) # 0
        BY <1>2, HeadTailProperties, LenProperties, EmptySeq
      <3>3. Tail(s.todo) # << >> /\ Whole(Tail(s.todo))
        <4>1. Len(Tail(s.todo)) # 0
          BY <2>2, <3>2
        <4>2. Tail(s.todo) # << >>
          BY <3>2, <4>1, EmptySeq
        <4>3. ASSUME NEW i \in 1 .. Len(Tail(s.todo)), Tail(s.todo)[i].exact
              PROVE  \E k \in Keys : Tail(s.todo)[i].keys = {k}
          <5>1. i + 1 \in 1 .. Len(s.todo) /\ Tail(s.todo)[i] = s.todo[i + 1]
            BY <3>2
          <5> QED
            BY <1>2, <4>3, <5>1 DEF Whole
        <4> QED
          BY <4>2, <4>3 DEF Whole
      <3> HIDE DEF y
      <3>4. y \in Call /\ CallOK(y) /\ y.since = clears /\ Heap(p, y)
        <4>1. PICK td : td = Tail(s.todo)
          OBVIOUS
        <4>2. td \in Seq(Request) /\ td # << >> /\ Whole(td)
          BY <3>2, <3>3, <4>1
        <4>3. PICK b : b = Begin(td, s.reset, s.mapped, s.far)
          OBVIOUS
        <4>4. /\ b \in Call /\ CallOK(b) /\ b.since = clears /\ b.far = s.far
              /\ b.pc # "idle"
          BY <1>2, <1>4, <4>2, <4>3, BeginFacts
        <4>5. Heap(p, b)
          BY <1>1, <1>2, <4>4 DEF Heap
        <4> QED
          BY <3>1, <4>1, <4>3, <4>4, <4>5
      <3> QED
        BY <1>2, <3>1, <3>2, <3>3, <3>4
    <2> QED
      BY <2>1, <2>2
  <1> HIDE DEF y
  <1>6. /\ Calls' /\ srv'[p] = y /\ \A q \in Procs \ {p} : srv'[q] = srv[q]
    BY <1>1, <1>3, <1>5, CallReplaced DEF TableInv
  <1>7. TableInv'
    <2>1. /\ lock' \in BOOLEAN /\ go_to_clear' \in BOOLEAN
          /\ count' \in [records : Nat, queries : Nat]
      BY <1>3 DEF TableInv, Scalars
    <2> QED
      BY <1>3, <1>6, <2>1, OnlyCalls
  <1> QED
    BY <1>1, <1>2, <1>3, <1>4, <1>5, <1>6, <1>7

\* A record.
LEMMA RecordCases ==
  ASSUME TableInv, NEW f \in Flows, Record(f[1], f[2])
  PROVE  /\ f[1] \in Keys /\ f[2] \in Nat
         /\ \/ Update(f[1], f[2])
            \/ Missing(f[1]) /\ Create(f[1], f[2])
            \/ Missing(f[1]) /\ NoRoom(f[1], f[2])
         /\ UNCHANGED <<lock, go_to_clear, clears>>
         /\ count' \in [records : Nat, queries : Nat]
PROOF
  <1>1. f[1] \in Keys /\ f[2] \in Nat
    BY ImtTableAssumption
  <1>2. count \in [records : Nat, queries : Nat]
    BY DEF TableInv, Scalars
  <1>3. count' = [count EXCEPT !.records = @ + 1]
    BY DEF Record
  <1>4. count' \in [records : Nat, queries : Nat]
    BY <1>2, <1>3
  <1> QED
    BY <1>1, <1>4 DEF Record

\* The table is empty and no query runs.
LEMMA InitSound ==
  ASSUME Init
  PROVE  TableInv /\ Walks
PROOF
  <1>1. /\ cells = [c \in Places |-> Zero] /\ used = 0
        /\ srv = [p \in Procs |-> Idle]
        /\ holed = FALSE /\ clears = 0
    BY DEF Init
  <1>2. /\ \A c \in Places : /\ cells[c].key = 0 /\ cells[c].bytes = 0
                             /\ cells[c].next = 0 /\ ~cells[c].type
    BY <1>1 DEF Zero
  <1>3. Memory(cells, used)
    <2>1. Wired(cells, 0)
      BY <1>2, ChainsEmpty
    <2>2. \A c \in Places : c > Buckets => c > Buckets + 0
      BY PlacesFacts
    <2>3. Zero \in Cell(0)
      BY DEF Zero, Cell
    <2>4. cells \in [Places -> Cell(0)]
      BY <1>1, <2>3
    <2> QED
      BY <1>1, <1>2, <2>1, <2>2, <2>4 DEF Memory
  <1>4. Lone(cells)
    BY <1>2 DEF Lone
  <1>5. Calls /\ Walks
    <2>1. srv \in [Procs -> Call]
      BY <1>1, IdleCall
    <2>2. Idle.since = 0
      BY DEF Idle
    <2>3. \A p \in Procs : srv[p] = Idle
      BY <1>1
    <2>4. \A p \in Procs :
            CallOK(srv[p]) /\ Heap(p, srv[p]) /\ srv[p].since <= clears
      BY <1>1, <2>2, <2>3, IdleCall
    <2> QED
      BY <2>1, <2>3, <2>4, IdleCall DEF Calls, Walks
  <1>6. Scalars
    <2>1. (MaxPools - 1) * PoolSize \in Nat /\ MaxPools \in Nat /\ MaxPools >= 2
      BY PlacesFacts, ImtTableAssumption
    <2>2. lru \in [1 .. Buckets -> Places \cup {0}]
      BY DEF Init
    <2>3. book \in [Keys -> [fed : Nat, taken : Nat, gone : Nat]]
      BY DEF Init
    <2>4. count \in [records : Nat, queries : Nat]
      BY DEF Init
    <2>5. mapped = 2 /\ no_more_space = FALSE /\ lock = FALSE
          /\ go_to_clear = FALSE
          /\ raced = {}
      BY DEF Init
    <2>6. used \in 0 .. (MaxPools - 1) * PoolSize /\ mapped \in 2 .. MaxPools
      BY <1>1, <2>1, <2>5
    <2>7. /\ no_more_space \in BOOLEAN /\ lock \in BOOLEAN
          /\ go_to_clear \in BOOLEAN
          /\ raced \subseteq Keys /\ holed \in BOOLEAN /\ clears \in Nat
      BY <1>1, <2>5
    <2> QED
      BY <2>2, <2>3, <2>4, <2>6, <2>7 DEF Scalars
  <1> QED
    BY <1>3, <1>4, <1>5, <1>6 DEF TableInv

\* Every step keeps the table sound.
LEMMA StepSound ==
  ASSUME TableInv, [Next]_vars
  PROVE  TableInv'
PROOF
  <1>1. ASSUME NEW f \in Flows, Record(f[1], f[2]) PROVE TableInv'
    BY <1>1, RecordCases, UpdateSound, CreateSound, NoRoomSound
  <1>2. ASSUME NEW q \in Queries, Ask(q) PROVE TableInv'
    BY <1>2, AskSound
  <1>3. CASE Clear
    BY <1>3, ClearSound
  <1>4. ASSUME NEW p \in Procs, Step(p) PROVE TableInv'
    <2>1. CASE Visit(p)
      BY <2>1, VisitSound
    <2>2. CASE Reset(p)
      BY <2>2, ResetSound
    <2>3. CASE Move(p)
      BY <2>3, MoveSound
    <2>4. CASE End(p)
      BY <2>4, EndSound
    <2> QED
      BY <1>4, <2>1, <2>2, <2>3, <2>4 DEF Step
  <1>5. CASE UNCHANGED vars
    BY <1>5 DEF vars, TableInv, Scalars, Calls, Memory, Lone, Wired, On, IsChain
  <1> QED
    BY <1>1, <1>2, <1>3, <1>4, <1>5 DEF Next

\* What the invariant says of the properties checked.
LEMMA SoundTable ==
  ASSUME TableInv
  PROVE  TableSound
PROOF
  <1>1. /\ Memory(cells, used) /\ Wired(cells, used) /\ Scalars /\ Calls
        /\ cells \in [Places -> Cell(used)] /\ (holed \/ Lone(cells))
    BY DEF TableInv, Memory
  <1>2. TypeOK
    <2>1. cells \in [Places ->
            [key : Keys \cup {0}, bytes : Nat, type : BOOLEAN, flag : BOOLEAN,
             next : {0} \cup (Buckets + 1 .. Buckets + used)]]
      BY <1>1 DEF Cell
    <2>2. ASSUME NEW p \in Procs
          PROVE  /\ srv[p].pc \in {"idle", "visit", "reset", "move", "end"}
                 /\ srv[p].far \subseteq
                      IF p = 0 \/ srv[p].pc = "idle" THEN {} ELSE Places
                 /\ srv[p].pc # "idle" =>
                      /\ srv[p].at \in Places
                      /\ PoolOf(srv[p].at) <= srv[p].mapped
                      /\ srv[p].idx \in 1 .. Buckets
                      /\ \A i \in DOMAIN srv[p].todo :
                           srv[p].todo[i]
                             \in [exact : BOOLEAN, all : BOOLEAN,
                                  keys : SUBSET Keys]
      <3>1. /\ srv[p].pc \in {"idle", "visit", "reset", "move", "end"}
            /\ Heap(p, srv[p]) /\ srv[p].todo \in Seq(Request) /\ CallOK(srv[p])
        BY <1>1 DEF Calls, Call
      <3>2. \A i \in DOMAIN srv[p].todo : srv[p].todo[i] \in Request
        BY <3>1, ElementOfSeq, LenProperties
      <3> QED
        BY <3>1, <3>2 DEF CallOK, Request, Heap
    <2> QED
      BY <1>1, <2>1, <2>2 DEF TypeOK, Scalars
  <1>3. Chained
    <2> SUFFICES ASSUME NEW b \in 1 .. Buckets, NEW c \in Places,
                        cells[c].key # 0
                 PROVE  Cardinality({i \in DOMAIN Chain(b) : Chain(b)[i] = c}) =
                          IF b = Hash[cells[c].key] THEN 1 ELSE 0
      BY DEF Chained
    <2>1. cells[c].key \in Keys
      BY <1>1 DEF Cell
    <2>2. On(cells, c, b) <=> b = Hash[cells[c].key]
      <3>1. On(cells, c, Hash[cells[c].key])
        BY <1>1 DEF Memory
      <3> QED
        BY <1>1, <2>1, <3>1, KeyFacts DEF Wired
    <2>3. Cardinality({i \in DOMAIN Chain(b) : Chain(b)[i] = c}) =
            IF On(cells, c, b) THEN 1 ELSE 0
      BY <1>1, OnOnce DEF Chain
    <2> QED
      BY <2>2, <2>3
  <1>4. LruReachable
    <2> SUFFICES ASSUME NEW b \in 1 .. Buckets, lru[b] # 0,
                        cells[lru[b]].key # 0,
                        Hash[cells[lru[b]].key] = b
                 PROVE  \E i \in DOMAIN Chain(b) : Chain(b)[i] = lru[b]
      BY DEF LruReachable
    <2>1. lru[b] \in Places
      BY <1>1 DEF Scalars
    <2>2. On(cells, lru[b], b)
      BY <1>1, <2>1 DEF Memory
    <2>3. DOMAIN Chain(b) = 1 .. Len(Chain(b))
      <3>1. Chain(b) \in Seq(Places)
        BY <1>1 DEF Wired, IsChain, Chain
      <3> QED
        BY <3>1, LenProperties
    <2> QED
      BY <2>2, <2>3 DEF On, Chain
  <1>5. OneEntry
    BY <1>1 DEF OneEntry, Lone
  <1> QED
    BY <1>2, <1>3, <1>4, <1>5 DEF TableSound

\* The table after any sequence of records, resets and erases, with any number
\* of queries on their way: types, chains, the pointer to the element used
\* last, one element per key (acct.c, memory.c).
THEOREM TableIsSound == Spec => []TableSound
PROOF
  <1>1. Init => TableInv
    BY InitSound
  <1>2. TableInv /\ [Next]_vars => TableInv'
    BY StepSound
  <1>3. TableInv => TableSound
    BY SoundTable
  <1> QED
    BY <1>1, <1>2, <1>3, PTL DEF Spec

-----------------------------------------------------------------------------
(***************************************************************************)
(* Walks                                                                   *)
(***************************************************************************)
\* A walk goes on while the memory changes: places stay in their chains, and
\* what joins a chain had no key.
LEMMA WalkStored ==
  ASSUME NEW mem, NEW new, NEW s, NEW t, NEW g, NEW h, Walk(mem, s, g), g => h,
         s.pc # "idle", s.at \in Places, 0 \notin Head(s.todo).keys,
         t.at = s.at, t.idx = s.idx, t.todo = s.todo, t.got = s.got,
         t.twice = s.twice,
         t.old \subseteq s.old,
         \/ t.pc = s.pc
         \/ s.pc = "reset"
            /\ t.pc = (IF Head(s.todo).exact THEN "end" ELSE "move"),
         \A c \in t.old : c \in t.got
           \/ (Visible(new[c]) /\ new[c].key = mem[c].key),
         \A b \in 1 .. Buckets : \A c : On(mem, c, b) => On(new, c, b),
         \A b \in 1 .. Buckets : \A c :
           On(new, c, b) => On(mem, c, b) \/ mem[c].key = 0,
         \A c \in t.far : c \in s.far \/ new[c].key # mem[c].key,
         s.idx \in 1 .. Buckets
  PROVE  Walk(new, t, h)
PROOF
  <1>1. ~t.twice
    BY DEF Walk
  <1>2. t.pc # "end" => On(new, t.at, t.idx) /\ s.pc # "end"
    BY DEF Walk
  <1>3. Head(t.todo).exact => \A k \in Head(t.todo).keys : t.idx = Hash[k]
    BY DEF Walk
  <1>4. \A c \in t.old \ t.got : Visible(new[c])
        /\ new[c].key \in Head(t.todo).keys
    BY DEF Walk
  <1>5. ASSUME t.pc # "end", NEW c \in t.got PROVE Behind(new, t, c)
    <2>1. Behind(mem, s, c)
      BY <1>2, <1>5 DEF Walk
    <2> QED
      BY <2>1 DEF Behind
  <1>6. ASSUME t.pc # "end", NEW c \in t.old,
               Behind(new, t, c) PROVE c \in t.got
    <2> SUFFICES ASSUME c \notin t.got PROVE FALSE
      OBVIOUS
    <2>1. c \in s.old \ s.got /\ mem[c].key \in Head(s.todo).keys
      BY <1>6 DEF Walk
    <2>2. Behind(mem, s, c)
      BY <1>6, <2>1 DEF Behind
    <2> QED
      BY <1>2, <1>6, <2>1, <2>2 DEF Walk
  <1>7. t.pc = "end" \/ (t.pc = "reset" /\ Head(t.todo).exact) =>
          t.old \subseteq t.got \/ (Head(t.todo).exact /\ h)
    BY DEF Walk
  <1>8. Head(t.todo).all \/ \A c \in t.old \ t.got : c \notin t.far
    BY DEF Walk
  <1> QED
    BY <1>1, <1>2, <1>3, <1>4, <1>5, <1>6, <1>7, <1>8 DEF Walk

\* A walk begins with nothing behind it.
LEMMA WalkBegins ==
  ASSUME TableInv, NEW todo \in Seq(Request), todo # << >>, Whole(todo),
         NEW reset \in BOOLEAN, NEW pools \in Nat, pools >= 2,
         NEW far \in SUBSET Places, NEW t, t = Begin(todo, reset, pools, far)
  PROVE  Walk(cells, t, holed)
PROOF
  <1>1. clears \in Nat /\ Wired(cells, used)
    BY DEF TableInv, Scalars, Memory
  <1>2. /\ t.pc = "visit" /\ t.at = t.idx /\ t.idx = First(Head(todo))
        /\ t.idx \in 1 .. Buckets /\ t.todo = todo /\ t.got = {} /\ ~t.twice
        /\ t.far = far
        /\ t.old
           = {c \in Places : /\ Visible(cells[c])
                             /\ cells[c].key \in Head(todo).keys
                             /\ Head(todo).all \/ c \notin far}
        /\ Head(todo).exact => \A k \in Head(todo).keys : t.idx = Hash[k]
    BY <1>1, BeginFacts
  <1>3. On(cells, t.at, t.idx)
    BY <1>1, <1>2, ChainOrder
  <1>4. ASSUME NEW c, Behind(cells, t, c) PROVE FALSE
    <2>1. PICK b \in 1 .. Buckets :
            /\ On(cells, c, b)
            /\ \/ b < t.idx /\ ~Head(todo).exact
               \/ b = t.idx /\ c < t.at
      BY <1>2, <1>4 DEF Behind
    <2>2. b <= c /\ c \in Nat
      BY <1>1, <2>1, ChainOrder, PlacesFacts
    <2>3. CASE b < t.idx /\ ~Head(todo).exact
      <3>1. t.idx = 1
        BY <1>2, <2>3 DEF First
      <3> QED
        BY <2>3, <3>1
    <2>4. CASE b = t.idx /\ c < t.at
      BY <1>2, <2>2, <2>4, PlacesFacts
    <2> QED
      BY <2>1, <2>3, <2>4
  <1> QED
    BY <1>2, <1>3, <1>4 DEF Walk

\* A visit to the element at hand.
LEMMA WalkVisits ==
  ASSUME TableInv, NEW p \in Procs, Visit(p), Walk(cells, srv[p], holed),
         srv'[p].pc # "idle"
  PROVE  Walk(cells, srv'[p], holed)
PROOF
  <1>h. PICK hit \in Outcomes(srv[p], cells[srv[p].at]) :
           /\ hit \in BOOLEAN
           /\ srv'[p] = Visited(srv[p], cells[srv[p].at], hit)
    BY VisitSound
  <1> DEFINE s == srv[p]
             t == srv'[p]
             e == cells[s.at]
             r == Head(s.todo)
             report == hit /\ Visible(e)
  <1>1. /\ s.pc = "visit"
        /\ t.pc = (IF report /\ s.reset THEN "reset"
                   ELSE IF hit /\ r.exact THEN "end" ELSE "move")
        /\ t.got = (IF report THEN s.got \cup {s.at} ELSE s.got)
        /\ t.twice = (s.twice \/ (report /\ s.at \in s.got))
        /\ t.at = s.at /\ t.idx = s.idx /\ t.todo = s.todo
        /\ t.since = s.since /\ t.old = s.old /\ t.far = s.far
    <2>1. srv[p].pc = "visit"
      BY VisitSound
    <2> QED
      BY <1>h, <2>1, VisitedFacts
  <1>2. /\ Wired(cells, used) /\ s.at \in Nat /\ s.at \in Places
        /\ s.idx \in 1 .. Buckets
        /\ r.keys \subseteq Keys /\ (r.exact => \E k \in Keys : r.keys = {k})
        /\ (holed \/ Lone(cells)) /\ s \in Call
    BY <1>1, CallFacts DEF TableInv, Memory
  <1>k. /\ s.at \notin s.far \/ r.all => (hit <=> e.key \in r.keys)
        /\ hit /\ r.exact => e.key \in r.keys
    BY <1>h DEF Outcomes, Lost
  <1>f. r.all \/ \A c \in s.old \ s.got : c \notin s.far
    BY DEF Walk
  <1>3. On(cells, s.at, s.idx)
    BY <1>1 DEF Walk
  <1>4. \A c \in s.old \ s.got : Visible(cells[c]) /\ cells[c].key \in r.keys
    BY DEF Walk
  <1>5. s.at \notin s.got
    <2> SUFFICES ASSUME s.at \in s.got PROVE FALSE
      OBVIOUS
    <2>1. PICK b \in 1 .. Buckets :
            /\ On(cells, s.at, b)
            /\ b < s.idx \/ (b = s.idx /\ s.at < s.at)
      BY <1>1 DEF Walk, Behind
    <2>2. b = s.idx
      BY <1>2, <1>3, <2>1 DEF Wired
    <2> QED
      BY <1>2, <2>1, <2>2, PlacesFacts
  <1>6. ~t.twice
    BY <1>1, <1>5 DEF Walk
  <1>7. \A c : Behind(cells, t, c) <=> Behind(cells, s, c) \/ c = s.at
    BY <1>1, <1>2, <1>3 DEF Behind
  <1>8. s.at \in s.old => s.at \in t.got
    BY <1>1, <1>4, <1>5, <1>k, <1>f
  <1>9. s.got \subseteq t.got /\ t.got \subseteq s.got \cup {s.at}
    BY <1>1
  <1>10. /\ \A c \in t.got : Behind(cells, t, c)
         /\ \A c \in t.old : Behind(cells, t, c) => c \in t.got
    <2>1. /\ \A c \in s.got : Behind(cells, s, c)
          /\ \A c \in s.old : Behind(cells, s, c) => c \in s.got
      BY <1>1 DEF Walk
    <2>2. t.old = s.old
      BY <1>1
    <2> HIDE DEF t, s
    <2> QED
      BY <1>7, <1>8, <1>9, <2>1, <2>2
  <1>11. ASSUME t.pc = "end" \/ (t.pc = "reset" /\ r.exact)
         PROVE  t.old \subseteq t.got \/ (r.exact /\ holed)
    <2>1. hit /\ r.exact
      BY <1>1, <1>11
    <2> SUFFICES ASSUME Lone(cells), NEW c \in s.old, c \notin t.got PROVE FALSE
      BY <1>1, <1>2, <2>1
    <2>2. c \in s.old \ s.got /\ c \in Places
      BY <1>2, <1>9 DEF Call
    <2>3. PICK k \in Keys : r.keys = {k}
      BY <1>2, <2>1
    <2>4. cells[c].key = k /\ e.key = k /\ k # 0
      BY <1>4, <1>k, <2>1, <2>2, <2>3, KeyFacts
    <2>5. c = s.at
      BY <1>2, <2>2, <2>4, SMTT(30) DEF Lone
    <2> QED
      BY <1>8, <2>5
  <1>12. /\ On(cells, t.at, t.idx)
         /\ Head(t.todo).exact => \A k \in Head(t.todo).keys : t.idx = Hash[k]
         /\ \A c \in t.old \ t.got : Visible(cells[c])
            /\ cells[c].key \in Head(t.todo).keys
    <2>1. Head(s.todo).exact => \A k \in Head(s.todo).keys : s.idx = Hash[k]
      BY SMTT(30) DEF Walk
    <2> QED
      BY <1>1, <1>3, <1>4, <1>9, <2>1
  <1>13. t.pc = "end" \/ (t.pc = "reset" /\ Head(t.todo).exact) =>
           t.old \subseteq t.got \/ (Head(t.todo).exact /\ holed)
    BY <1>1, <1>11
  <1>14. Head(t.todo).all \/ \A c \in t.old \ t.got : c \notin t.far
    BY <1>1, <1>9, <1>f
  <1> QED
    BY <1>6, <1>10, <1>12, <1>13, <1>14 DEF Walk

\* A walk moves on.
LEMMA WalkMoves ==
  ASSUME TableInv, NEW p \in Procs, Move(p), Walk(cells, srv[p], holed),
         srv'[p].pc # "idle"
  PROVE  Walk(cells, srv'[p], holed)
PROOF
  <1> DEFINE s == srv[p]
             t == srv'[p]
             next == cells[s.at].next
  <1>1. /\ s.pc = "move"
        /\ \/ next # 0 /\ t.pc = "visit" /\ t.at = next /\ t.idx = s.idx
           \/ /\ next = 0 /\ t.pc = "end" /\ t.at = s.at /\ t.idx = s.idx
              /\ Head(s.todo).exact \/ s.idx = Buckets
           \/ /\ next = 0 /\ t.pc = "visit" /\ t.at = s.idx + 1
              /\ t.idx = s.idx + 1
              /\ ~Head(s.todo).exact /\ s.idx # Buckets
        /\ t.todo = s.todo /\ t.old = s.old /\ t.got = s.got
        /\ t.twice = s.twice /\ t.far = s.far
    BY MoveSound, SMTT(30)
  <1>2. /\ Wired(cells, used) /\ Memory(cells, used) /\ s.at \in Nat
        /\ s.idx \in 1 .. Buckets /\ s.idx \in Nat /\ Buckets \in Nat
        /\ Head(s.todo).keys \subseteq Keys /\ s \in Call
        /\ cells[s.at] \in Cell(used) /\ s.at \in Places
    BY <1>1, CallFacts, PlacesFacts DEF TableInv, Memory
  <1>3. /\ ~s.twice /\ On(cells, s.at, s.idx)
        /\ Head(s.todo).exact => \A k \in Head(s.todo).keys : s.idx = Hash[k]
        /\ \A c \in s.old \ s.got : Visible(cells[c])
           /\ cells[c].key \in Head(s.todo).keys
        /\ Head(s.todo).all \/ \A c \in s.old \ s.got : c \notin s.far
        /\ \A c \in s.got : Behind(cells, s, c)
        /\ \A c \in s.old : Behind(cells, s, c) => c \in s.got
    BY <1>1 DEF Walk
  <1>4. /\ \A c : On(cells, c, s.idx) => c \in Nat
        /\ next # 0 => /\ On(cells, next, s.idx) /\ s.at < next /\ next \in Nat
                       /\ \A d : On(cells, d, s.idx) => d <= s.at \/ next <= d
        /\ next = 0 => \A d : On(cells, d, s.idx) => d <= s.at
    <2>1. \A c : On(cells, c, s.idx) => c \in Nat
      BY <1>2, ChainOrder, PlacesFacts
    <2> QED
      BY <1>2, <1>3, <2>1, ChainOrder
  <1>5. CASE next # 0
    <2>1. t.pc = "visit" /\ t.at = next /\ t.idx = s.idx
      BY <1>1, <1>5
    <2>2. \A c : On(cells, c, s.idx) => (c < next <=> c < s.at \/ c = s.at)
      BY <1>2, <1>4, <1>5
    <2>3. \A c : Behind(cells, t, c) <=> Behind(cells, s, c)
      BY <1>1, <2>1, <2>2 DEF Behind
    <2> QED
      BY <1>1, <1>3, <1>4, <1>5, <2>1, <2>3 DEF Walk
  <1>6. CASE next = 0 /\ t.pc = "end"
    <2>1. t.idx = s.idx /\ (Head(s.todo).exact \/ s.idx = Buckets)
      BY <1>1, <1>6
    <2>2. ASSUME NEW c \in s.old, c \notin s.got PROVE FALSE
      <3>1. cells[c].key \in Head(s.todo).keys /\ c \in Places
        BY <1>2, <1>3, <2>2 DEF Call
      <3>2. /\ cells[c].key \in Keys /\ On(cells, c, Hash[cells[c].key])
            /\ Hash[cells[c].key] \in 1 .. Buckets
        BY <1>2, <3>1, KeyFacts DEF Memory
      <3> DEFINE b == Hash[cells[c].key]
      <3>3. b = s.idx => c < s.at \/ c = s.at
        BY <1>2, <1>4, <1>6, <3>2
      <3>4. b = s.idx \/ (b < s.idx /\ ~Head(s.todo).exact)
        BY <1>2, <1>3, <2>1, <3>1, <3>2
      <3>5. Behind(cells, s, c)
        BY <1>1, <3>2, <3>3, <3>4 DEF Behind
      <3> QED
        BY <1>3, <2>2, <3>5
    <2> QED
      BY <1>1, <1>3, <1>6, <2>1, <2>2 DEF Walk
  <1>7. CASE next = 0 /\ t.pc # "end"
    <2>1. /\ t.pc = "visit" /\ t.at = s.idx + 1 /\ t.idx = s.idx + 1
          /\ ~Head(s.todo).exact /\ s.idx # Buckets
      BY <1>1, <1>7
    <2>2. s.idx + 1 \in 1 .. Buckets
      BY <1>2, <2>1
    <2>3. /\ On(cells, t.at, t.idx)
          /\ \A c : On(cells, c, s.idx + 1) => ~(c < s.idx + 1)
      <3>1. \A c : On(cells, c, s.idx + 1) => c \in Nat /\ s.idx + 1 <= c
        BY <1>2, <2>2, ChainOrder, PlacesFacts
      <3> QED
        BY <1>2, <2>1, <2>2, <3>1, ChainOrder
    <2>4. \A c : Behind(cells, t, c) <=> Behind(cells, s, c)
      <3> TAKE c
      <3>1. ASSUME Behind(cells, t, c) PROVE Behind(cells, s, c)
        <4>1. PICK b \in 1 .. Buckets :
                /\ On(cells, c, b)
                /\ b < s.idx + 1 \/ (b = s.idx + 1 /\ c < s.idx + 1)
          BY <2>1, <3>1 DEF Behind
        <4>2. b < s.idx + 1
          BY <2>3, <4>1
        <4>3. b < s.idx \/ b = s.idx
          BY <1>2, <4>2
        <4>4. b = s.idx => c < s.at \/ c = s.at
          BY <1>2, <1>4, <1>7, <4>1
        <4> QED
          BY <1>1, <2>1, <4>1, <4>3, <4>4 DEF Behind
      <3>2. ASSUME Behind(cells, s, c) PROVE Behind(cells, t, c)
        <4>1. PICK b \in 1 .. Buckets : On(cells, c, b)
              /\ (b < s.idx \/ b = s.idx)
          BY <3>2 DEF Behind
        <4>2. b < s.idx + 1
          BY <1>2, <4>1
        <4>3. b < t.idx /\ ~Head(t.todo).exact
          BY <1>1, <2>1, <4>2
        <4> QED
          BY <4>1, <4>3 DEF Behind
      <3> QED
        BY <3>1, <3>2
    <2> QED
      BY <1>1, <1>3, <2>1, <2>3, <2>4 DEF Walk
  <1> QED
    BY <1>5, <1>6, <1>7

\* Walks go on while records change the table.
LEMMA RecordWalks ==
  ASSUME TableInv, Walks, NEW f \in Flows, Record(f[1], f[2])
  PROVE  Walks'
PROOF
  <1>1. /\ f[1] \in Keys /\ f[2] \in Nat /\ clears' = clears
        /\ \/ Update(f[1], f[2])
           \/ Missing(f[1]) /\ Create(f[1], f[2])
           \/ Missing(f[1]) /\ NoRoom(f[1], f[2])
    BY RecordCases
  <1>2. /\ Wired(cells, used) /\ clears \in Nat /\ holed \in BOOLEAN
    BY DEF TableInv, Memory, Scalars
  <1>3. CASE NoRoom(f[1], f[2])
    <2>1. UNCHANGED <<cells, srv, holed, clears>>
      BY <1>1, <1>3 DEF NoRoom
    <2> QED
      BY <2>1 DEF Walks, Walk, Behind, On, Visible
  <1>4. ASSUME Store(cells', srv),
               \A b \in 1 .. Buckets : \A c : On(cells, c, b)
                 => On(cells', c, b),
               \A b \in 1 .. Buckets : \A c :
                 On(cells', c, b) => On(cells, c, b) \/ cells[c].key = 0
        PROVE  Walks'
    <2> SUFFICES ASSUME NEW p \in Procs, srv'[p].pc # "idle",
                        srv'[p].since = clears
                 PROVE  Walk(cells', srv'[p], holed')
      BY <1>1 DEF Walks
    <2>1. /\ Shrunk(srv'[p], srv[p])
          /\ \A c \in srv'[p].old :
               c \in srv[p].got
                 \/ (Visible(cells'[c]) /\ cells'[c].key = cells[c].key)
          /\ \A c \in srv'[p].far :
               c \in srv[p].far \/ cells'[c].key # cells[c].key
          /\ holed'
             = (holed \/ \E c \in Places : cells'[c].key # 0
               /\ cells'[c].bytes = 0)
      BY <1>1, <1>2, <1>4, CallsStored
    <2>2. srv[p].pc # "idle" /\ srv[p].since = clears
      BY <2>1 DEF Shrunk
    <2>3. Walk(cells, srv[p], holed)
      BY <2>2 DEF Walks
    <2>4. /\ srv[p].at \in Places /\ srv[p].idx \in 1 .. Buckets
          /\ 0 \notin Head(srv[p].todo).keys
      BY <2>2, CallFacts, KeyFacts
    <2>5. /\ srv'[p].at = srv[p].at /\ srv'[p].idx = srv[p].idx
          /\ srv'[p].todo = srv[p].todo /\ srv'[p].got = srv[p].got
          /\ srv'[p].twice = srv[p].twice
          /\ srv'[p].old \subseteq srv[p].old /\ srv'[p].pc = srv[p].pc
      BY <2>1 DEF Shrunk
    <2>6. \A c \in srv'[p].old :
            c \in srv'[p].got
              \/ (Visible(cells'[c]) /\ cells'[c].key = cells[c].key)
      BY <2>1, <2>5
    <2>7. holed => holed'
      BY <2>1
    <2> QED
      BY <1>4, <2>1, <2>2, <2>3, <2>4, <2>5, <2>6, <2>7, WalkStored
  <1>5. CASE Update(f[1], f[2])
    <2>1. Store(cells', srv)
      <3>1. PICK mem : Store(mem, srv)
        BY <1>5 DEF Update
      <3>2. cells' = mem
        BY <3>1 DEF Store
      <3> QED
        BY <3>1, <3>2
    <2>2. \A c \in Places : cells'[c].next = cells[c].next
      BY <1>1, <1>5, UpdateFacts
    <2>3. \A b \in 1 .. Buckets : \A c : On(cells', c, b) <=> On(cells, c, b)
      BY <1>2, <2>2, ChainsKept
    <2> QED
      BY <1>4, <2>1, <2>3
  <1>6. CASE Missing(f[1]) /\ Create(f[1], f[2])
    <2>1. Store(cells', srv)
      BY <1>6, Zenon DEF Create, Store
    <2> DEFINE new == Buckets + used + 1
    <2>2. /\ cells[new].key = 0
          /\ \A b \in 1 .. Buckets : \A c :
               On(cells', c, b) <=> On(cells, c, b)
                 \/ (c = new /\ b = Hash[f[1]])
      BY <1>1, <1>6, CreateFacts
    <2> HIDE DEF new
    <2> QED
      BY <1>4, <2>1, <2>2
  <1> QED
    BY <1>1, <1>3, <1>5, <1>6

\* Walks go on while a query resets what it reported.
LEMMA ResetWalks ==
  ASSUME TableInv, Walks, NEW p \in Procs, Reset(p)
  PROVE  Walks'
PROOF
  <1> DEFINE s == srv[p]
             t == srv'[p]
  <1>1. /\ s.pc = "reset" /\ clears' = clears
        /\ \A c \in Places : cells'[c].key = cells[c].key
           /\ cells'[c].next = cells[c].next
        /\ t.pc = (IF Head(s.todo).exact THEN "end" ELSE "move")
        /\ t.at = s.at /\ t.idx = s.idx /\ t.todo = s.todo /\ t.since = s.since
        /\ t.got = s.got /\ t.twice = s.twice /\ t.old \subseteq s.old
        /\ \A q \in Procs \ {p} : Shrunk(srv'[q], srv[q])
        /\ \A q \in Procs : \A c \in srv'[q].old :
             c \in srv'[q].got
               \/ (Visible(cells'[c]) /\ cells'[c].key = cells[c].key)
        /\ \A q \in Procs : srv'[q].far \subseteq srv[q].far
        /\ holed'
           = (holed \/ \E c \in Places : cells'[c].key # 0
             /\ cells'[c].bytes = 0)
    BY ResetSound
  <1>2. Wired(cells, used) /\ holed \in BOOLEAN
    BY DEF TableInv, Memory, Scalars
  <1>3. \A b \in 1 .. Buckets : \A c : On(cells', c, b) <=> On(cells, c, b)
    BY <1>1, <1>2, ChainsKept
  <1>4. ASSUME NEW q \in Procs, srv'[q].pc # "idle", srv'[q].since = clears
        PROVE  Walk(cells', srv'[q], holed')
    <2>1. /\ srv'[q].at = srv[q].at /\ srv'[q].idx = srv[q].idx
          /\ srv'[q].todo = srv[q].todo /\ srv'[q].got = srv[q].got
          /\ srv'[q].twice = srv[q].twice /\ srv'[q].since = srv[q].since
          /\ srv'[q].old \subseteq srv[q].old
      BY <1>1 DEF Shrunk
    <2>2. /\ srv[q].pc # "idle"
          /\ \/ srv'[q].pc = srv[q].pc
             \/ /\ srv[q].pc = "reset"
                /\ srv'[q].pc
                   = (IF Head(srv[q].todo).exact THEN "end" ELSE "move")
      BY <1>1, <1>4 DEF Shrunk
    <2>3. Walk(cells, srv[q], holed)
      BY <1>4, <2>1, <2>2 DEF Walks
    <2>4. /\ srv[q].at \in Places /\ srv[q].idx \in 1 .. Buckets
          /\ 0 \notin Head(srv[q].todo).keys
      BY <2>2, CallFacts, KeyFacts
    <2>5. \A c \in srv'[q].old :
            c \in srv'[q].got
              \/ (Visible(cells'[c]) /\ cells'[c].key = cells[c].key)
      BY <1>1
    <2>6. holed => holed'
      BY <1>1
    <2>7. \A c \in srv'[q].far : c \in srv[q].far
      BY <1>1
    <2> QED
      BY <1>3, <2>1, <2>2, <2>3, <2>4, <2>5, <2>6, <2>7, WalkStored
  <1> QED
    BY <1>1, <1>4 DEF Walks

\* Calls of others stay as they are while the table does.
LEMMA OtherWalks ==
  ASSUME Walks, UNCHANGED <<cells, holed, clears>>, NEW p \in Procs,
         \A q \in Procs \ {p} : srv'[q] = srv[q],
         srv'[p].pc # "idle" /\ srv'[p].since = clears
           => Walk(cells, srv'[p], holed)
  PROVE  Walks'
PROOF
  <1>1. ASSUME NEW q \in Procs, srv'[q].pc # "idle", srv'[q].since = clears
        PROVE  Walk(cells, srv'[q], holed)
    BY <1>1 DEF Walks
  <1> QED
    BY <1>1 DEF Walks, Walk, Behind, On, Visible

\* Every step of the plugin and of its children keeps the walks on their way.
LEMMA StepWalks ==
  ASSUME TableInv, Walks, [Next]_vars
  PROVE  Walks'
PROOF
  <1>1. ASSUME NEW f \in Flows, Record(f[1], f[2]) PROVE Walks'
    BY <1>1, RecordWalks
  <1>2. ASSUME NEW q \in Queries, Ask(q) PROVE Walks'
    <2>1. UNCHANGED <<cells, used, book, raced, holed, clears>>
      BY <1>2, AskSound
    <2>2. CASE UNCHANGED srv
      BY <2>1, <2>2 DEF Walks, Walk, Behind, On, Visible
    <2>3. ASSUME NEW p \in Procs, NEW t \in Call, srv' = [srv EXCEPT ![p] = t],
                 q.requests \in Seq(Request), q.requests # << >>,
                 Whole(q.requests), q.reset \in BOOLEAN,
                 t = Begin(q.requests, q.reset, mapped, {})
          PROVE  Walks'
      <3>1. mapped \in Nat /\ mapped >= 2 /\ srv \in [Procs -> Call]
        BY ImtTableAssumption DEF TableInv, Scalars, Calls
      <3>2. Walk(cells, t, holed)
        BY <2>3, <3>1, WalkBegins
      <3>3. srv'[p] = t /\ \A o \in Procs \ {p} : srv'[o] = srv[o]
        BY <2>3, <3>1
      <3> QED
        BY <2>1, <3>2, <3>3, OtherWalks
    <2> QED
      BY <1>2, <2>2, <2>3, AskSound
  <1>3. CASE Clear
    <2>1. clears' = clears + 1 /\ \A p \in Procs : srv'[p].since = srv[p].since
      BY <1>3, ClearSound
    <2>2. ASSUME NEW p \in Procs PROVE srv'[p].since # clears'
      <3>1. srv[p].since \in Nat /\ srv[p].since <= clears /\ clears \in Nat
        BY DEF TableInv, Calls, Call, Scalars
      <3> QED
        BY <2>1, <3>1
    <2> QED
      BY <2>2 DEF Walks
  <1>4. ASSUME NEW p \in Procs, Step(p) PROVE Walks'
    <2>1. CASE Visit(p)
      <3>1. /\ srv[p].pc = "visit"
            /\ srv'[p].pc # "idle" => srv'[p].since = srv[p].since
            /\ \A q \in Procs \ {p} : srv'[q] = srv[q]
            /\ UNCHANGED <<cells, holed, clears>>
        BY <2>1, VisitSound
      <3>2. srv'[p].pc # "idle" /\ srv'[p].since = clears
            => Walk(cells, srv[p], holed)
        BY <3>1 DEF Walks
      <3>3. srv'[p].pc # "idle" /\ srv'[p].since = clears
            => Walk(cells, srv'[p], holed)
        BY <2>1, <3>2, WalkVisits
      <3> QED
        BY <3>1, <3>3, OtherWalks
    <2>2. CASE Reset(p)
      BY <2>2, ResetWalks
    <2>3. CASE Move(p)
      <3>1. /\ srv[p].pc = "move"
            /\ srv'[p].pc # "idle" => srv'[p].since = srv[p].since
            /\ \A q \in Procs \ {p} : srv'[q] = srv[q]
            /\ UNCHANGED <<cells, holed, clears>>
        BY <2>3, MoveSound
      <3>2. srv'[p].pc # "idle" /\ srv'[p].since = clears
            => Walk(cells, srv[p], holed)
        BY <3>1 DEF Walks
      <3>3. srv'[p].pc # "idle" /\ srv'[p].since = clears
            => Walk(cells, srv'[p], holed)
        BY <2>3, <3>2, WalkMoves
      <3> QED
        BY <3>1, <3>3, OtherWalks
    <2>4. CASE End(p)
      <3>1. /\ \A q \in Procs \ {p} : srv'[q] = srv[q]
            /\ UNCHANGED <<cells, holed, clears>>
            /\ \/ srv'[p].pc = "idle"
               \/ /\ Tail(srv[p].todo) \in Seq(Request)
                  /\ Tail(srv[p].todo) # << >>
                  /\ Whole(Tail(srv[p].todo)) /\ srv[p].reset \in BOOLEAN
                  /\ srv[p].mapped \in Nat /\ srv[p].mapped >= 2
                  /\ srv[p].far \in SUBSET Places
                  /\ srv'[p]
                     = Begin(Tail(srv[p].todo), srv[p].reset, srv[p].mapped,
                             srv[p].far)
        BY <2>4, EndSound
      <3>2. PICK td, t : td = Tail(srv[p].todo) /\ t = srv'[p]
        OBVIOUS
      <3>3. t.pc # "idle" => Walk(cells, t, holed)
        <4> SUFFICES ASSUME t.pc # "idle" PROVE Walk(cells, t, holed)
          OBVIOUS
        <4>1. /\ td \in Seq(Request) /\ td # << >> /\ Whole(td)
              /\ t = Begin(td, srv[p].reset, srv[p].mapped, srv[p].far)
              /\ srv[p].far \in SUBSET Places
          BY <3>1, <3>2
        <4> QED
          BY <3>1, <3>2, <4>1, WalkBegins
      <3> QED
        BY <3>1, <3>2, <3>3, OtherWalks
    <2> QED
      BY <1>4, <2>1, <2>2, <2>3, <2>4 DEF Step
  <1>5. CASE UNCHANGED vars
    BY <1>5 DEF vars, Walks, Walk, Behind, On, Visible
  <1> QED
    BY <1>1, <1>2, <1>3, <1>4, <1>5 DEF Next

\* A query of a table that is not erased meanwhile reports what it could see all
\* along, once, however the plugin, its clients and other queries interleave.
\* A child that compares keys could see what had its key when it was forked, and
\* nothing is said of one that is killed (imt_plugin.c, server.c).
THEOREM WalksAreExact == Spec => []WalkExact
PROOF
  <1>1. Init => TableInv /\ Walks
    BY InitSound
  <1>2. TableInv /\ Walks /\ [Next]_vars => TableInv' /\ Walks'
    BY StepSound, StepWalks
  <1>3. TableInv /\ Walks => WalkExact
    BY DEF Walks, Walk, WalkExact
  <1> QED
    BY <1>1, <1>2, <1>3, PTL DEF Spec

-----------------------------------------------------------------------------
(***************************************************************************)
(* The account of bytes                                                    *)
(***************************************************************************)
Balance ==
  \A k \in Keys \ raced :
    book[k].fed = book[k].taken + book[k].gone + Shown(cells, k)

\* What an element adds to the bytes of a key that a query can see.
Part(mem, c, k) == IF Visible(mem[c]) /\ mem[c].key = k THEN mem[c].bytes ELSE 0

\* The bytes of a key that can be seen are the sum of what the elements add.
LEMMA ShownIs ==
  ASSUME NEW mem, NEW u, mem \in [Places -> Cell(u)], NEW k
  PROVE  /\ \A c \in Places : Part(mem, c, k) \in Nat
         /\ Shown(mem, k)
            = SumFunctionOnSet([c \in Places |-> Part(mem, c, k)], Places)
PROOF
  <1> DEFINE f == [c \in Places |-> mem[c].bytes]
             g == [c \in Places |-> Part(mem, c, k)]
             P == {c \in Places : Visible(mem[c]) /\ mem[c].key = k}
  <1>1. ASSUME NEW c \in Places PROVE Part(mem, c, k) \in Nat
    <2>1. mem[c].bytes \in Nat
      BY DEF Cell
    <2> QED
      BY <2>1 DEF Part
  <1>2. P \in SUBSET Places /\ IsFiniteSet(Places)
    BY PlacesFacts
  <1>3. \A c \in Places : g[c] \in Int
    BY <1>1
  <1>4. \A c \in P : f[c] = g[c]
    BY DEF Part
  <1>5. \A c \in Places \ P : g[c] = 0
    BY DEF Part
  <1> HIDE DEF f, g, P
  <1>6. SumFunctionOnSet(f, P) = SumFunctionOnSet(g, Places)
    BY <1>2, <1>3, <1>4, <1>5, SumFiltered
  <1> QED
    BY <1>1, <1>6 DEF Shown, f, g, P

\* What can be seen changes by what one element adds.
LEMMA ShownChanges ==
  ASSUME NEW mem, NEW u, mem \in [Places -> Cell(u)],
         NEW new, NEW v, new \in [Places -> Cell(v)], NEW c \in Places, NEW k,
         \A d \in Places \ {c} : Part(new, d, k) = Part(mem, d, k)
  PROVE  /\ Shown(mem, k) \in Nat /\ Shown(new, k) \in Nat
         /\ Part(mem, c, k) \in Nat /\ Part(new, c, k) \in Nat
         /\ Shown(new, k) + Part(mem, c, k) = Shown(mem, k) + Part(new, c, k)
PROOF
  <1> DEFINE f == [d \in Places |-> Part(mem, d, k)]
             g == [d \in Places |-> Part(new, d, k)]
             R == Places \ {c}
  <1>1. /\ \A d \in Places : f[d] \in Nat /\ f[d] \in Int
           /\ f[d] = Part(mem, d, k)
        /\ \A d \in Places : g[d] \in Nat /\ g[d] \in Int
           /\ g[d] = Part(new, d, k)
        /\ Shown(mem, k) = SumFunctionOnSet(f, Places)
        /\ Shown(new, k) = SumFunctionOnSet(g, Places)
    <2>1. /\ \A d \in Places : Part(mem, d, k) \in Nat
          /\ Shown(mem, k) = SumFunctionOnSet(f, Places)
      BY ShownIs
    <2>2. /\ \A d \in Places : Part(new, d, k) \in Nat
          /\ Shown(new, k) = SumFunctionOnSet(g, Places)
      BY ShownIs
    <2> QED
      BY <2>1, <2>2
  <1>2. Shown(mem, k) \in Nat /\ Shown(new, k) \in Nat
    BY ShownType
  <1>3. /\ \A d \in R : g[d] = f[d]
        /\ R \subseteq Places /\ R = Places \ {c} /\ IsFiniteSet(R)
    BY PlacesFacts, FS_Subset
  <1> HIDE DEF f, g, R
  <1>4. /\ SumFunctionOnSet(f, Places) = f[c] + SumFunctionOnSet(f, R)
        /\ SumFunctionOnSet(g, Places) = g[c] + SumFunctionOnSet(g, R)
    <2>1. IsFiniteSet(Places) /\ R = Places \ {c}
      BY <1>3, PlacesFacts
    <2>2. (\A d \in Places : f[d] \in Int) /\ \A d \in Places : g[d] \in Int
      BY <1>1
    <2>3. SumFunctionOnSet(f, Places) = f[c] + SumFunctionOnSet(f, R)
      BY <2>1, <2>2, SumRemove
    <2>4. SumFunctionOnSet(g, Places) = g[c] + SumFunctionOnSet(g, R)
      BY <2>1, <2>2, SumRemove
    <2> QED
      BY <2>3, <2>4
  <1>5. SumFunctionOnSet(g, R) = SumFunctionOnSet(f, R)
    BY <1>1, <1>3, SumSame
  <1>6. SumFunctionOnSet(f, R) \in Int
    BY <1>1, <1>3, SumType
  <1>7. f[c] \in Nat /\ g[c] \in Nat /\ f[c] = Part(mem, c, k)
        /\ g[c] = Part(new, c, k)
    BY <1>1
  <1> QED
    BY <1>1, <1>2, <1>4, <1>5, <1>6, <1>7

\* A record for an element that is there.
LEMMA UpdateBalance ==
  ASSUME TableInv, Balance, NEW k \in Keys, NEW n \in Nat, Update(k, n)
  PROVE  Balance'
PROOF
  <1>1. PICK c \in Places :
           /\ cells' \in [Places -> Cell(used)]
           /\ \A d \in Places \ {c} : cells'[d] = cells[d]
           /\ cells'[c].key = k /\ Visible(cells'[c])
           /\ \/ /\ cells[c].key = k
                 /\ cells'[c].bytes
                    = (IF cells[c].flag THEN 0 ELSE cells[c].bytes) + n
              \/ /\ cells[c].key # k /\ cells[c].bytes = 0
                 /\ cells'[c].bytes = n
    BY UpdateFacts
  <1>2. /\ cells \in [Places -> Cell(used)] /\ raced' = raced
        /\ book' = [book EXCEPT ![k].fed = @ + n]
        /\ book \in [Keys -> [fed : Nat, taken : Nat, gone : Nat]]
        /\ ~cells[c].type => cells[c].bytes = 0
    BY DEF TableInv, Memory, Scalars, Update
  <1>3. /\ book'[k].fed = book[k].fed + n /\ book'[k].taken = book[k].taken
        /\ book'[k].gone = book[k].gone
        /\ \A j \in Keys \ {k} : book'[j] = book[j]
    BY <1>2, BookFacts
  <1> SUFFICES ASSUME NEW j \in Keys \ raced
               PROVE  book'[j].fed
                      = book'[j].taken + book'[j].gone + Shown(cells', j)
    BY <1>2 DEF Balance
  <1>4. /\ Shown(cells, j) \in Nat /\ Shown(cells', j) \in Nat
        /\ Part(cells, c, j) \in Nat /\ Part(cells', c, j) \in Nat
        /\ Shown(cells', j) + Part(cells, c, j)
           = Shown(cells, j) + Part(cells', c, j)
    <2>1. \A d \in Places \ {c} : Part(cells', d, j) = Part(cells, d, j)
      BY <1>1 DEF Part
    <2> QED
      BY <1>1, <1>2, <2>1, ShownChanges
  <1>5. /\ book[j].fed = book[j].taken + book[j].gone + Shown(cells, j)
        /\ book[j].fed \in Nat /\ book[j].taken \in Nat /\ book[j].gone \in Nat
    BY <1>2 DEF Balance
  <1>6. cells[c].bytes \in Nat
    BY <1>2 DEF Cell
  <1>7. Part(cells', c, j) = Part(cells, c, j) + (IF j = k THEN n ELSE 0)
    <2>1. CASE cells[c].key = k
      <3>1. Part(cells, c, j) =
              IF j = k THEN IF cells[c].flag THEN 0 ELSE cells[c].bytes ELSE 0
        BY <1>2, <2>1 DEF Part, Visible
      <3>2. Part(cells', c, j) = IF j = k THEN cells'[c].bytes ELSE 0
        BY <1>1 DEF Part
      <3> QED
        BY <1>1, <1>6, <2>1, <3>1, <3>2
    <2>2. CASE cells[c].key # k
      <3>1. Part(cells, c, j) = 0
        BY <1>1, <2>2 DEF Part
      <3>2. Part(cells', c, j) = IF j = k THEN n ELSE 0
        BY <1>1, <2>2 DEF Part
      <3> QED
        BY <3>1, <3>2
    <2> QED
      BY <2>1, <2>2
  <1>8. CASE j = k
    BY <1>3, <1>4, <1>5, <1>7, <1>8
  <1>9. CASE j # k
    BY <1>3, <1>4, <1>5, <1>7, <1>9
  <1> QED
    BY <1>8, <1>9

\* A record for a new element.
LEMMA CreateBalance ==
  ASSUME TableInv, Balance, NEW k \in Keys, NEW n \in Nat, Missing(k),
         Create(k, n)
  PROVE  Balance'
PROOF
  <1> DEFINE new == Buckets + used + 1
             mem == Taken(PoolOf(new))
  <1>1. /\ new \in Places /\ cells' \in [Places -> Cell(used')]
        /\ \A c \in Places \ {new} :
             /\ cells'[c].key = cells[c].key /\ cells'[c].bytes = cells[c].bytes
             /\ cells'[c].type = cells[c].type
             /\ cells[c].key # 0 => cells'[c].flag = cells[c].flag
        /\ cells'[new].key = k /\ cells'[new].bytes = n /\ cells'[new].type
        /\ cells'[new].flag = mem[new].flag
        /\ cells[new].key = 0
    BY CreateFacts
  <1>2. /\ cells \in [Places -> Cell(used)]
        /\ raced' = (IF mem[new].flag THEN raced \cup {k} ELSE raced)
        /\ book' = [book EXCEPT ![k].fed = @ + n]
        /\ book \in [Keys -> [fed : Nat, taken : Nat, gone : Nat]]
    BY DEF TableInv, Memory, Scalars, Create
  <1> HIDE DEF new, mem
  <1>3. /\ book'[k].fed = book[k].fed + n /\ book'[k].taken = book[k].taken
        /\ book'[k].gone = book[k].gone
        /\ \A j \in Keys \ {k} : book'[j] = book[j]
    BY <1>2, BookFacts
  <1> SUFFICES ASSUME NEW j \in Keys \ raced'
               PROVE  book'[j].fed
                      = book'[j].taken + book'[j].gone + Shown(cells', j)
    BY DEF Balance
  <1>4. j \in Keys \ raced /\ j # 0
    BY <1>2, KeyFacts
  <1>5. /\ Shown(cells, j) \in Nat /\ Shown(cells', j) \in Nat
        /\ Part(cells, new, j) \in Nat /\ Part(cells', new, j) \in Nat
        /\ Shown(cells', j) + Part(cells, new, j)
           = Shown(cells, j) + Part(cells', new, j)
    <2>1. ASSUME NEW d \in Places \ {new}
          PROVE Part(cells', d, j) = Part(cells, d, j)
      <3>1. CASE cells[d].key = j
        <4>1. cells'[d].flag = cells[d].flag
          BY <1>1, <1>4, <3>1
        <4>2. Visible(cells'[d]) <=> Visible(cells[d])
          BY <1>1, <4>1 DEF Visible
        <4> QED
          BY <1>1, <4>2 DEF Part
      <3>2. CASE cells[d].key # j
        BY <1>1, <3>2 DEF Part
      <3> QED
        BY <3>1, <3>2
    <2> QED
      BY <1>1, <1>2, <2>1, ShownChanges
  <1>6. /\ book[j].fed = book[j].taken + book[j].gone + Shown(cells, j)
        /\ book[j].fed \in Nat /\ book[j].taken \in Nat /\ book[j].gone \in Nat
    BY <1>2, <1>4 DEF Balance
  <1>7. Part(cells, new, j) = 0
    BY <1>1, <1>4 DEF Part
  <1>8. CASE j = k
    <2>1. ~mem[new].flag
      BY <1>2, <1>8
    <2>2. Visible(cells'[new])
      BY <1>1, <2>1 DEF Visible
    <2>3. Part(cells', new, j) = n
      BY <1>1, <1>8, <2>2 DEF Part
    <2> QED
      BY <1>3, <1>5, <1>6, <1>7, <1>8, <2>3
  <1>9. CASE j # k
    <2>1. Part(cells', new, j) = 0
      BY <1>1, <1>9 DEF Part
    <2> QED
      BY <1>3, <1>5, <1>6, <1>7, <1>9, <2>1
  <1> QED
    BY <1>8, <1>9

\* A record for which there is no room.
LEMMA NoRoomBalance ==
  ASSUME TableInv, Balance, NEW k \in Keys, NEW n \in Nat, NoRoom(k, n)
  PROVE  Balance'
PROOF
  <1>1. /\ cells' = cells /\ raced' = raced
        /\ book' = [book EXCEPT ![k].fed = @ + n, ![k].gone = @ + n]
        /\ book \in [Keys -> [fed : Nat, taken : Nat, gone : Nat]]
        /\ cells \in [Places -> Cell(used)]
    BY DEF TableInv, Memory, Scalars, NoRoom
  <1>2. /\ book'[k].fed = book[k].fed + n /\ book'[k].taken = book[k].taken
        /\ book'[k].gone = book[k].gone + n
        /\ \A j \in Keys \ {k} : book'[j] = book[j]
    BY <1>1, BookFacts
  <1> SUFFICES ASSUME NEW j \in Keys \ raced
               PROVE  book'[j].fed
                      = book'[j].taken + book'[j].gone + Shown(cells, j)
    BY <1>1 DEF Balance
  <1>3. /\ book[j].fed = book[j].taken + book[j].gone + Shown(cells, j)
        /\ book[j].fed \in Nat /\ book[j].taken \in Nat /\ book[j].gone \in Nat
    BY <1>1 DEF Balance
  <1>4. Shown(cells, j) \in Nat
    BY <1>1, ShownType
  <1>5. CASE j = k
    BY <1>2, <1>3, <1>4, <1>5
  <1>6. CASE j # k
    BY <1>2, <1>3, <1>6
  <1> QED
    BY <1>5, <1>6

\* The table is erased.
LEMMA ClearBalance ==
  ASSUME TableInv, Balance, Clear
  PROVE  Balance'
PROOF
  <1>1. /\ cells' = [c \in Places |-> Zero] /\ raced' = raced
        /\ book'
           = [k \in Keys |-> [book[k] EXCEPT !.gone = @ + Shown(cells, k)]]
        /\ book \in [Keys -> [fed : Nat, taken : Nat, gone : Nat]]
        /\ cells \in [Places -> Cell(used)]
    BY DEF TableInv, Memory, Scalars, Clear, Store, Cleared
  <1> SUFFICES ASSUME NEW j \in Keys \ raced
               PROVE  book'[j].fed
                      = book'[j].taken + book'[j].gone + Shown(cells', j)
    BY <1>1 DEF Balance
  <1>2. Shown(cells', j) = 0
    <2> DEFINE f == [c \in Places |-> cells'[c].bytes]
               S == {c \in Places : Visible(cells'[c]) /\ cells'[c].key = j}
    <2>1. IsFiniteSet(S) /\ \A c \in S : f[c] = 0
      <3>1. \A c \in Places : cells'[c] = Zero
        BY <1>1
      <3>2. \A c \in Places : f[c] = 0
        BY <3>1 DEF Zero
      <3> QED
        BY <3>2, PlacesFacts, FS_Subset
    <2> HIDE DEF f, S
    <2>2. SumFunctionOnSet(f, S) = 0
      BY <2>1, SumOfNone
    <2> QED
      BY <2>2 DEF Shown, f, S
  <1>3. /\ book[j].fed = book[j].taken + book[j].gone + Shown(cells, j)
        /\ book[j].fed \in Nat /\ book[j].taken \in Nat /\ book[j].gone \in Nat
        /\ book[j] \in [fed : Nat, taken : Nat, gone : Nat]
    BY <1>1 DEF Balance
  <1>4. Shown(cells, j) \in Nat
    BY <1>1, ShownType
  <1>5. book'[j] = [book[j] EXCEPT !.gone = book[j].gone + Shown(cells, j)]
    BY <1>1
  <1>6. /\ book'[j].fed = book[j].fed /\ book'[j].taken = book[j].taken
        /\ book'[j].gone = book[j].gone + Shown(cells, j)
    BY <1>3, <1>5
  <1> QED
    BY <1>2, <1>3, <1>4, <1>6

\* A query resets an element: what it reported is booked, or the key is exempt.
LEMMA ResetBalance ==
  ASSUME TableInv, Balance, NEW p \in Procs, Reset(p)
  PROVE  Balance'
PROOF
  <1> DEFINE s == srv[p]
             c == s.at
             e == cells[c]
             k == s.seen.key
             n == s.seen.bytes
  <1>1. /\ c \in Places /\ used' = used /\ k \in Keys /\ n \in Nat
        /\ Visible(s.seen)
        /\ cells'[c] = ResetElem(p, e) /\ e \in Cell(used)
        /\ \A d \in Places \ {c} : cells'[d] = cells[d]
        /\ book' = [book EXCEPT ![k].taken = @ + n]
        /\ raced' = raced \cup
             (IF [e EXCEPT !.next = 0] # s.seen THEN {k, e.key} \cap Keys
               ELSE {})
        /\ TableInv'
    BY ResetSound, SMTT(30)
  <1>2. /\ cells \in [Places -> Cell(used)] /\ cells' \in [Places -> Cell(used)]
        /\ book \in [Keys -> [fed : Nat, taken : Nat, gone : Nat]]
    BY <1>1 DEF TableInv, Memory, Scalars
  <1>3. /\ book'[k].fed = book[k].fed /\ book'[k].taken = book[k].taken + n
        /\ book'[k].gone = book[k].gone
        /\ \A j \in Keys \ {k} : book'[j] = book[j]
    <2> HIDE DEF k, n
    <2> QED
      BY <1>1, <1>2, BookFacts
  <1> SUFFICES ASSUME NEW j \in Keys \ raced'
               PROVE  book'[j].fed
                      = book'[j].taken + book'[j].gone + Shown(cells', j)
    BY DEF Balance
  <1>4. j \in Keys \ raced
    BY <1>1
  <1>5. /\ Shown(cells, j) \in Nat /\ Shown(cells', j) \in Nat
        /\ Part(cells, c, j) \in Nat /\ Part(cells', c, j) \in Nat
        /\ Shown(cells', j) + Part(cells, c, j)
           = Shown(cells, j) + Part(cells', c, j)
    <2> HIDE DEF c
    <2>1. \A d \in Places \ {c} : Part(cells', d, j) = Part(cells, d, j)
      BY <1>1 DEF Part
    <2> QED
      BY <1>1, <1>2, <2>1, ShownChanges
  <1>6. /\ book[j].fed = book[j].taken + book[j].gone + Shown(cells, j)
        /\ book[j].fed \in Nat /\ book[j].taken \in Nat /\ book[j].gone \in Nat
    BY <1>2, <1>4 DEF Balance
  <1>7. Part(cells', c, j) = 0
    <2>1. ~Visible(cells'[c])
      BY <1>1, ResetFacts
    <2> QED
      BY <2>1 DEF Part
  <1>8. CASE [e EXCEPT !.next = 0] = s.seen
    <2>1. e.key = k /\ e.bytes = n
      BY <1>1, <1>8 DEF Cell
    <2>2. e.type = s.seen.type
      BY <1>1, <1>8 DEF Cell
    <2>3. e.flag = s.seen.flag
      BY <1>1, <1>8 DEF Cell
    <2>4. Visible(e)
      BY <1>1, <2>2, <2>3 DEF Visible
    <2>5. Part(cells, c, j) = IF j = k THEN n ELSE 0
      BY <2>1, <2>4 DEF Part
    <2> HIDE DEF c, e, k, n
    <2>6. CASE j = k
      BY <1>1, <1>3, <1>5, <1>6, <1>7, <2>5, <2>6
    <2>7. CASE j # k
      BY <1>3, <1>5, <1>6, <1>7, <2>5, <2>7
    <2> QED
      BY <2>6, <2>7
  <1>9. CASE [e EXCEPT !.next = 0] # s.seen
    <2>1. j # k /\ j # e.key
      BY <1>1, <1>9
    <2>2. Part(cells, c, j) = 0
      BY <2>1 DEF Part
    <2> HIDE DEF c, e, k, n
    <2> QED
      BY <1>3, <1>5, <1>6, <1>7, <2>1, <2>2
  <1> QED
    BY <1>8, <1>9

\* Nothing was received, nothing can be seen.
LEMMA InitBalance ==
  ASSUME Init
  PROVE  Balance
PROOF
  <1> SUFFICES ASSUME NEW j \in Keys
               PROVE  book[j].fed
                      = book[j].taken + book[j].gone + Shown(cells, j)
    BY DEF Balance
  <1>1. Shown(cells, j) = 0
    <2> DEFINE f == [c \in Places |-> cells[c].bytes]
               S == {c \in Places : Visible(cells[c]) /\ cells[c].key = j}
    <2>1. IsFiniteSet(S) /\ \A c \in S : f[c] = 0
      <3>1. \A c \in Places : cells[c] = Zero
        BY DEF Init
      <3>2. \A c \in Places : f[c] = 0
        BY <3>1 DEF Zero
      <3> QED
        BY <3>2, PlacesFacts, FS_Subset
    <2> HIDE DEF f, S
    <2>2. SumFunctionOnSet(f, S) = 0
      BY <2>1, SumOfNone
    <2> QED
      BY <2>2 DEF Shown, f, S
  <1>2. book[j].fed = 0 /\ book[j].taken = 0 /\ book[j].gone = 0
    BY DEF Init
  <1> QED
    BY <1>1, <1>2

\* Every step keeps the account.
LEMMA StepBalance ==
  ASSUME TableInv, Balance, [Next]_vars
  PROVE  Balance'
PROOF
  <1>1. ASSUME UNCHANGED <<cells, book, raced>> PROVE Balance'
    BY <1>1 DEF Balance, Shown, Visible
  <1>2. ASSUME NEW f \in Flows, Record(f[1], f[2]) PROVE Balance'
    BY <1>2, RecordCases, UpdateBalance, CreateBalance, NoRoomBalance
  <1>3. ASSUME NEW q \in Queries, Ask(q) PROVE Balance'
    BY <1>1, <1>3 DEF Ask
  <1>4. CASE Clear
    BY <1>4, ClearBalance
  <1>5. ASSUME NEW p \in Procs, Step(p) PROVE Balance'
    <2>1. CASE Visit(p)
      BY <1>1, <2>1, VisitSound
    <2>2. CASE Reset(p)
      BY <2>2, ResetBalance
    <2>3. CASE Move(p)
      BY <1>1, <2>3, MoveSound
    <2>4. CASE End(p)
      BY <1>1, <2>4, EndSound
    <2> QED
      BY <1>5, <2>1, <2>2, <2>3, <2>4 DEF Step
  <1>6. CASE UNCHANGED vars
    BY <1>1, <1>6 DEF vars
  <1> QED
    BY <1>2, <1>3, <1>4, <1>5, <1>6 DEF Next

\* No bytes are lost between records, resets, erases and pools that run out,
\* but for the keys whose element changed between a report and its reset
\* (acct.c, imt_plugin.c, server.c).
THEOREM BytesConserved == Spec => []Conserved
PROOF
  <1>1. Init => TableInv /\ Balance
    BY InitSound, InitBalance
  <1>2. TableInv /\ Balance /\ [Next]_vars => TableInv' /\ Balance'
    BY StepSound, StepBalance
  <1>3. Balance => Conserved
    BY DEF Balance, Conserved
  <1> QED
    BY <1>1, <1>2, <1>3, PTL DEF Spec
=============================================================================
