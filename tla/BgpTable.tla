------------------------------ MODULE BgpTable ------------------------------
(***************************************************************************)
(* The radix tree of a RIB (bgp_table.c).  A prefix is the sequence of its *)
(* bits and names its node; a pointer is a set of at most one prefix, NULL *)
(* the empty set.  A node holds a list of routes per bucket (struct        *)
(* bgp_info), and a lock that counts who needs it: each of its routes, a   *)
(* function at work on it, and lookups.  A node without a lock is freed,   *)
(* unless two branches part there.                                         *)
(***************************************************************************)
EXTENDS Integers, Sequences, FiniteSetsExt, SequencesExt

CONSTANT Buckets    \* table_peer_buckets * table_per_peer_buckets

NULL == {}
Bits == {0, 1}

\* looks: history, the locks lookups took
NewNode == [lock |-> 0, link |-> [b \in Bits |-> NULL], parent |-> NULL,
            info |-> [k \in Buckets |-> << >>], looks |-> 0]

\* abort: an assert() of bgp_node_delete() failed
EmptyTable == [top |-> NULL, node |-> << >>, count |-> 0, abort |-> FALSE]

Nodes(t) == DOMAIN t.node

\* check_bit() of p at the length of n
BitAt(n, p) == p[Len(n) + 1]

Longest(S) == IF S = {} THEN NULL ELSE {CHOOSE n \in S : \A m \in S : Len(m) <= Len(n)}

Put(t, n, rec) == [t EXCEPT !.node = [m \in Nodes(t) \cup {n} |->
                                        IF m = n THEN rec ELSE t.node[m]]]

\* set_link(), or the table's top where there is nothing to link to
SetLink(t, parent, child) ==
  IF parent = NULL THEN [t EXCEPT !.top = {child}]
  ELSE LET n == CHOOSE x \in parent : TRUE
       IN [t EXCEPT !.node[n].link[BitAt(n, child)] = {child},
                    !.node[child].parent = parent]

LockNode(t, n) == [t EXCEPT !.node[n].lock = @ + 1]

(***************************************************************************)
(* bgp_node_get(): walk down as long as the nodes are prefixes of p, then  *)
(* hang p there; where it departs from the node found, a new node for the  *)
(* common part takes that node's place.  The result is locked.             *)
(***************************************************************************)
Passed(t, p) == {n \in Nodes(t) : IsStrictPrefix(n, p)}

Below(t, match, p) ==
  IF match = NULL THEN t.top ELSE t.node[CHOOSE n \in match : TRUE].link[BitAt(CHOOSE n \in match : TRUE, p)]

\* the walk met no node, or one that p is not below
Hang(t, match, p) == [SetLink(Put(t, p, NewNode), match, p) EXCEPT !.count = @ + 1]

\* mutant: the node of the common part is not counted
Branch_CountsOne(t, match, n, p) ==
  LET c  == LongestCommonPrefix({n, p})
      t1 == SetLink(SetLink(Put(t, c, NewNode), {c}, n), match, c)
  IN IF c = p THEN [t1 EXCEPT !.count = @ + 1]
     ELSE Hang(t1, {c}, p)

Branch(t, match, n, p) ==
  LET c  == LongestCommonPrefix({n, p})
      t1 == SetLink(SetLink(Put(t, c, NewNode), {c}, n), match, c)
  IN IF c = p THEN [t1 EXCEPT !.count = @ + 1]
     ELSE Hang([t1 EXCEPT !.count = @ + 1], {c}, p)

NodeGet(t, p) ==
  LET match == Longest(Passed(t, p))
      below == Below(t, match, p)
  IN IF p \in Nodes(t) THEN LockNode(t, p)
     ELSE IF below = NULL THEN LockNode(Hang(t, match, p), p)
     ELSE LockNode(Branch(t, match, CHOOSE n \in below : TRUE, p), p)

(***************************************************************************)
(* bgp_node_delete(): the one child, if any, takes the node's place, and a *)
(* parent that nobody needs any more goes as well.                         *)
(***************************************************************************)
Children(t, n) == UNION {t.node[n].link[b] : b \in Bits}
Routes(t, n) == UNION {ToSet(t.node[n].info[k]) : k \in Buckets}

\* everything that pointed to n points to its child instead
Unlinked(t, n) ==
  LET child == Children(t, n)
      swap(ptr) == IF ptr = {n} THEN child ELSE ptr
  IN [t EXCEPT
        !.top = swap(@),
        !.node = [m \in Nodes(t) \ {n} |->
                    [t.node[m] EXCEPT
                       !.link = [b \in Bits |-> swap(t.node[m].link[b])],
                       !.parent = IF @ = {n} THEN t.node[n].parent ELSE @]],
        !.count = @ - 1]

\* mutant: the parent stays
RECURSIVE NodeDelete_ParentStays(_, _)
NodeDelete_ParentStays(t, n) ==
  IF Routes(t, n) # {} THEN [t EXCEPT !.abort = TRUE]
  ELSE IF Cardinality(Children(t, n)) = 2 THEN t
  ELSE Unlinked(t, n)

RECURSIVE NodeDelete(_, _)
NodeDelete(t, n) ==
  LET parent == t.node[n].parent
      t1     == Unlinked(t, n)
      idle   == {m \in parent : t1.node[m].lock = 0}
  IN IF Routes(t, n) # {} THEN [t EXCEPT !.abort = TRUE]
     ELSE IF Cardinality(Children(t, n)) = 2 THEN t
     ELSE IF idle = {} THEN t1
     ELSE NodeDelete(t1, CHOOSE m \in idle : TRUE)

UnlockNode(t, n) ==
  LET t1 == [t EXCEPT !.node[n].lock = @ - 1]
  IN IF t1.node[n].lock = 0 THEN NodeDelete(t1, n) ELSE t1

(***************************************************************************)
(* bgp_table_top() and bgp_route_next(): the tree in preorder.  The next   *)
(* node is found and locked before the current one is let go of.           *)
(***************************************************************************)
First(t) == t.top

\* the ancestors whose left branch n is in and that have a right one
Turns(t, n) == {a \in Passed(t, n) : BitAt(a, n) = 0 /\ t.node[a].link[1] # NULL}

\* mutant: only the parent is looked at, not the ones above
Following_NoClimb(t, n) ==
  LET turn == Turns(t, n) \cap t.node[n].parent
  IN IF t.node[n].link[0] # NULL THEN t.node[n].link[0]
     ELSE IF t.node[n].link[1] # NULL THEN t.node[n].link[1]
     ELSE UNION {t.node[a].link[1] : a \in turn}

Following(t, n) ==
  LET turn == Longest(Turns(t, n))
  IN IF t.node[n].link[0] # NULL THEN t.node[n].link[0]
     ELSE IF t.node[n].link[1] # NULL THEN t.node[n].link[1]
     ELSE UNION {t.node[a].link[1] : a \in turn}

LockAll(t, ptr) == IF ptr = NULL THEN t ELSE LockNode(t, CHOOSE n \in ptr : TRUE)

RouteNext(t, n) == UnlockNode(LockAll(t, Following(t, n)), n)
=============================================================================
