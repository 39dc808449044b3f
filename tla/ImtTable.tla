------------------------------ MODULE ImtTable ------------------------------
(***************************************************************************)
(* The table of the memory plugin (acct.c), its memory pools (memory.c)    *)
(* and the queries it answers (server.c, imt_plugin.c).                    *)
(*                                                                         *)
(* The table is shared memory.  Pool 1 is the array of buckets; elements   *)
(* that collide are taken from further pools, one after the other, and     *)
(* chained to their bucket.  Short queries are answered by the plugin      *)
(* itself, process 0 here, the others by children that walk the table      *)
(* while the plugin goes on changing it.  A child does not reset counters, *)
(* it raises a flag that the plugin honours at the next record.            *)
(*                                                                         *)
(* Of the primitives that make up a key those of BGP, NAT, MPLS, tunnels   *)
(* and custom ones are on the plugin's heap, with a pointer to them in the *)
(* element: a child has those that were there when it was forked.          *)
(*                                                                         *)
(* An element is named by its place, first the buckets, then the elements  *)
(* of the pools in order; 0 is the null pointer.  The bytes counter stands *)
(* for bytes and packets.                                                  *)
(***************************************************************************)
EXTENDS Naturals, Sequences, FiniteSetsExt, Functions

CONSTANTS
  Keys,         \* sets of primitives, as positive numbers
  Hash,         \* key -> its bucket
  Buckets,      \* config.buckets
  PoolSize,     \* elements in a pool of config.memory_pool_size bytes
  MaxPools,     \* config.num_memory_pools, the buckets' pool included
  Children,     \* children that may serve queries at a time
  Queries,      \* queries of clients
  Flows,        \* <<key, bytes>> of the records
  MaxRecords,   \* bound: records
  MaxQueries    \* bound: queries

ASSUME ImtTableAssumption ==
  /\ Keys \subseteq Nat \ {0} /\ Hash \in [Keys -> 1 .. Buckets]
  /\ Buckets \in Nat \ {0} /\ PoolSize \in Nat \ {0} /\ MaxPools \in Nat \ {0, 1}
  /\ Children \in Nat /\ Flows \subseteq Keys \X Nat
  /\ \A q \in Queries :
       /\ q.requests \in Seq([exact : BOOLEAN, all : BOOLEAN, keys : SUBSET Keys])
       /\ \A i \in DOMAIN q.requests :
            /\ q.requests[i].exact => \E k \in Keys : q.requests[i].keys = {k}
            /\ q.requests[i].all => q.requests[i].keys = Keys /\ ~q.reset
       /\ {q.reset, q.lock, q.erase} \subseteq BOOLEAN
  /\ MaxRecords \in Nat /\ MaxQueries \in Nat

VARIABLES
  cells,    \* place -> struct acc
  used,     \* elements taken from the pools since the table was cleared
  mapped,   \* pools mapped so far
  no_more_space,
  lru,      \* lru_elem_ptr
  lock,
  go_to_clear,
  srv,      \* process -> its call of process_query_data(), see TypeOK
  count,    \* records and queries so far
  book,     \* key -> bytes received, reported with a reset, given up
  raced,    \* keys whose element changed between the report and the reset
  holed,    \* an element with a key had its counters at zero
  clears    \* times the table was cleared

vars == <<cells, used, mapped, no_more_space, lru, lock, go_to_clear, srv,
          count, book, raced, holed, clears>>

Places == 1 .. Buckets + (MaxPools - 1) * PoolSize
Procs == 0 .. Children

Zero == [key |-> 0, bytes |-> 0, type |-> FALSE, flag |-> FALSE, next |-> 0]
Idle == [pc |-> "idle", at |-> 0, idx |-> 0, todo |-> << >>, reset |-> FALSE,
         seen |-> Zero, mapped |-> 0, since |-> 0, far |-> {},
         old |-> {}, got |-> {}, twice |-> FALSE]

PoolOf(c) == IF c <= Buckets THEN 1 ELSE 2 + (c - Buckets - 1) \div PoolSize

(* test_zero_elem() *)
Visible(e) == e.type /\ ~e.flag

(* The elements of a bucket, in the order of the chain. *)
ChainIn(mem, b) ==
  LET path[n \in Places] ==
        IF n = 1 THEN <<b>>
        ELSE LET prev == path[n - 1]
                 next == mem[prev[Len(prev)]].next
             IN IF next = 0 THEN prev ELSE Append(prev, next)
  IN path[Cardinality(Places)]

Chain(b) == ChainIn(cells, b)

(* The bytes of a key that a query can see. *)
Shown(mem, k) ==
  SumFunctionOnSet([c \in Places |-> mem[c].bytes],
                   {c \in Places : Visible(mem[c]) /\ mem[c].key = k})

Init ==
  /\ cells = [c \in Places |-> Zero]
  /\ used = 0 /\ mapped = 2 /\ no_more_space = FALSE
  /\ lru = [b \in 1 .. Buckets |-> 0]
  /\ lock = FALSE /\ go_to_clear = FALSE
  /\ srv = [p \in Procs |-> Idle]
  /\ count = [records |-> 0, queries |-> 0]
  /\ book = [k \in Keys |-> [fed |-> 0, taken |-> 0, gone |-> 0]]
  /\ raced = {} /\ holed = FALSE /\ clears = 0

(* Elements given a key since a child was forked: their pointers lead to    *)
(* something else, or nowhere, in the heap of the child.                    *)
Far(p, new, s) ==
  IF p = 0 \/ s.pc = "idle" THEN s.far
  ELSE s.far \cup {c \in Places : new[c].key # cells[c].key}

(* Stores of a process into the table.  What a running query could see from *)
(* its start (old) shrinks by what is not visible, or another key, now.     *)
Store(new, calls) ==
  /\ cells' = new
  /\ srv' = [p \in Procs |-> [calls[p] EXCEPT
       !.far = Far(p, new, calls[p]),
       !.old = {c \in @ : \/ c \in calls[p].got
                          \/ Visible(new[c]) /\ new[c].key = cells[c].key}]]
  /\ holed' = (holed \/ \E c \in Places : new[c].key # 0 /\ new[c].bytes = 0)

(* The plugin is between two events of its main loop. *)
Ready == srv[0].pc = "idle" /\ ~go_to_clear

-----------------------------------------------------------------------------
(* insert_accounting_structure() *)

(* reset_counters() *)
ResetCounters(e) == [e EXCEPT !.bytes = 0, !.type = FALSE, !.flag = FALSE]

(* Mutant: a raised flag is taken down, the counters are kept. *)
Added_NoReset(e, n) ==
  [e EXCEPT !.bytes = @ + n, !.type = TRUE, !.flag = FALSE]

(* A record for an element that has its key. *)
Added(e, n) ==
  LET r == IF e.flag THEN ResetCounters(e) ELSE e
  IN [r EXCEPT !.bytes = @ + n, !.type = TRUE]

(* A record for an element whose counters are at zero. *)
Reused(e, k, n) ==
  [e EXCEPT !.key = k, !.bytes = n, !.type = TRUE, !.flag = FALSE]

(* A record for an element just taken from a pool: its reset_flag is not    *)
(* touched.                                                                 *)
Fresh(e, k, n) == [e EXCEPT !.key = k, !.bytes = @ + n, !.type = TRUE, !.next = 0]

(* Mutant: only the bucket itself is compared. *)
Stops_BucketOnly(k) ==
  LET c == Hash[k] IN IF cells[c].key = k \/ cells[c].bytes = 0 THEN c ELSE 0

(* Where the walk through the chain stops. *)
Stops(k) ==
  LET chain == Chain(Hash[k])
      stop == {i \in DOMAIN chain :
                 cells[chain[i]].key = k \/ cells[chain[i]].bytes = 0}
  IN IF stop = {} THEN 0 ELSE chain[Min(stop)]

(* The record is for the element used last, or for one of the chain. *)
Update(k, n) ==
  \E c \in {LET last == lru[Hash[k]]
            IN IF last # 0 /\ cells[last].key = k THEN last ELSE Stops(k)} :
    /\ c # 0
    /\ Store([cells EXCEPT ![c] =
                IF @.key = k THEN Added(@, n) ELSE Reused(@, k, n)], srv)
    /\ lru' = [lru EXCEPT ![Hash[k]] = c]
    /\ book' = [book EXCEPT ![k].fed = @ + n]
    /\ UNCHANGED <<used, mapped, no_more_space, raced>>

(* A new element has to be chained.  request_memory_pool() clears a pool it *)
(* had mapped before, or maps another one.                                  *)
NewPool == used > 0 /\ PoolOf(Buckets + used + 1) > PoolOf(Buckets + used)

Taken(pool) ==
  IF NewPool THEN [c \in Places |-> IF PoolOf(c) = pool THEN Zero ELSE cells[c]]
  ELSE cells

(* Mutant: the pool's pointer is not moved on. *)
Create_NoAdvance(k, n) ==
  LET new == Buckets + used + 1
      chain == Chain(Hash[k])
      mem == Taken(PoolOf(new))
  IN /\ ~no_more_space /\ PoolOf(new) <= MaxPools
     /\ Store([mem EXCEPT ![chain[Len(chain)]].next = new,
                          ![new] = Fresh(@, k, n)], srv)
     /\ mapped' = Max({mapped, PoolOf(new)})
     /\ lru' = [lru EXCEPT ![Hash[k]] = new]
     /\ book' = [book EXCEPT ![k].fed = @ + n]
     /\ UNCHANGED <<used, raced, no_more_space>>

Create(k, n) ==
  LET new == Buckets + used + 1
      pool == PoolOf(new)
      chain == Chain(Hash[k])
      mem == Taken(pool)
  IN /\ ~no_more_space /\ pool <= MaxPools
     /\ Store([mem EXCEPT ![chain[Len(chain)]].next = new,
                          ![new] = Fresh(@, k, n)], srv)
     /\ used' = used + 1
     /\ mapped' = Max({mapped, pool})
     /\ lru' = [lru EXCEPT ![Hash[k]] = new]
     /\ book' = [book EXCEPT ![k].fed = @ + n]
     /\ raced' = IF mem[new].flag THEN raced \cup {k} ELSE raced
     /\ UNCHANGED no_more_space

(* No pool may be added, or memory is sold out, or it was before. *)
NoRoom(k, n) ==
  /\ \/ no_more_space
     \/ NewPool /\ PoolOf(Buckets + used + 1) > mapped
  /\ no_more_space' = TRUE
  /\ book' = [book EXCEPT ![k].fed = @ + n, ![k].gone = @ + n]
  /\ UNCHANGED <<cells, used, mapped, lru, srv, raced, holed>>

Missing(k) == Stops(k) = 0 /\ (lru[Hash[k]] = 0 \/ cells[lru[Hash[k]]].key # k)

Record(k, n) ==
  /\ Ready /\ count.records < MaxRecords
  /\ count' = [count EXCEPT !.records = @ + 1]
  /\ \/ Update(k, n)
     \/ Missing(k) /\ Create(k, n)
     \/ Missing(k) /\ NoRoom(k, n)
  /\ UNCHANGED <<lock, go_to_clear, clears>>

-----------------------------------------------------------------------------
(* Queries *)

(* The call of process_query_data() when it turns to its next request: it   *)
(* can see what is shown, as long as it need not compare what it has not.   *)
Begin(todo, reset, pools, far) ==
  LET r == Head(todo)
      first == IF r.exact THEN Hash[CHOOSE k \in r.keys : TRUE] ELSE 1
  IN [Idle EXCEPT !.pc = "visit", !.at = first, !.idx = first, !.todo = todo,
        !.reset = reset, !.mapped = pools, !.since = clears, !.far = far,
        !.old = {c \in Places : /\ Visible(cells[c]) /\ cells[c].key \in r.keys
                                /\ r.all \/ c \notin far}]

(* A query arrives.  One for a single whole key is answered at once, as are *)
(* a query to erase the table when it also wants an answer, and any query   *)
(* once a client has asked for the lock.                                    *)
Inline(q) ==
  q.erase \/ lock' \/ (Len(q.requests) = 1 /\ q.requests[1].exact)

Ask(q) ==
  /\ Ready /\ count.queries < MaxQueries
  /\ count' = [count EXCEPT !.queries = @ + 1]
  /\ lock' = (lock \/ q.lock)
  /\ go_to_clear' = q.erase
  /\ \/ q.requests = << >> /\ UNCHANGED srv
     \/ /\ q.requests # << >>
        /\ \E p \in Procs :
             /\ (p = 0) = Inline(q)
             /\ srv[p].pc = "idle"
             /\ srv' = [srv EXCEPT ![p] = Begin(q.requests, q.reset, mapped, {})]
  /\ UNCHANGED <<cells, used, mapped, no_more_space, lru, book, raced, holed,
                 clears>>

(* Mutant: the pools that are requested again at once are cleared, the      *)
(* others are left for when they are needed.                                *)
Cleared_FirstPools ==
  [c \in Places |-> IF PoolOf(c) <= 2 THEN Zero ELSE cells[c]]

(* Mutant: elements are emptied where they are chained. *)
Cleared_InChains ==
  [c \in Places |-> [Zero EXCEPT !.next = cells[c].next]]

(* The pools are cleared and the first two requested again; lru_elem_ptr    *)
(* stays as it is.                                                          *)
Cleared == [c \in Places |-> Zero]

Clear ==
  /\ go_to_clear /\ srv[0].pc = "idle"
  /\ book' = [k \in Keys |-> [book[k] EXCEPT !.gone = @ + Shown(cells, k)]]
  /\ Store(Cleared, srv)
  /\ used' = 0 /\ no_more_space' = FALSE /\ go_to_clear' = FALSE
  /\ clears' = clears + 1
  /\ UNCHANGED <<mapped, lru, lock, count, raced>>

(* Pointers of the element at hand are followed that lead to nothing of the *)
(* child's.  For a whole key the signature, in shared memory, agrees before *)
(* (two keys with one signature are left out).                              *)
Lost(s, e) ==
  /\ s.at \in s.far
  /\ IF Head(s.todo).exact THEN e.key \in Head(s.todo).keys ELSE Visible(e)

(* What the comparison of an element with a request comes to; a query for   *)
(* everything compares nothing.                                             *)
Outcomes(s, e) ==
  IF Lost(s, e) /\ ~Head(s.todo).all THEN BOOLEAN ELSE {e.key \in Head(s.todo).keys}

(* The call once the element at hand was compared: it is reported when it   *)
(* was asked for.                                                           *)
Visited(s, e, hit) ==
  LET report == hit /\ Visible(e)
  IN [s EXCEPT
        !.pc = IF report /\ s.reset THEN "reset"
               ELSE IF hit /\ Head(s.todo).exact THEN "end" ELSE "move",
        !.seen = IF report /\ s.reset THEN [e EXCEPT !.next = 0] ELSE Zero,
        !.got = IF report THEN @ \cup {s.at} ELSE @,
        !.twice = @ \/ (report /\ s.at \in s.got)]

(* The element at hand is tested.  A child that follows a pointer to where  *)
(* its heap has nothing is killed.                                          *)
Visit(p) ==
  LET s == srv[p]
      e == cells[s.at]
  IN /\ s.pc = "visit"
     /\ \/ \E hit \in Outcomes(s, e) : srv' = [srv EXCEPT ![p] = Visited(s, e, hit)]
        \/ Lost(s, e) /\ srv' = [srv EXCEPT ![p] = Idle]
     /\ UNCHANGED <<cells, used, mapped, no_more_space, lru, lock, go_to_clear,
                    count, book, raced, holed, clears>>

(* What was reported is reset: set_reset_flag(), or reset_counters() when   *)
(* the plugin itself answers for a whole key.                               *)
ResetElem(p, e) ==
  IF p = 0 /\ Head(srv[p].todo).exact THEN ResetCounters(e)
  ELSE [e EXCEPT !.flag = TRUE]

Reset(p) ==
  LET s == srv[p]
      e == cells[s.at]
  IN /\ s.pc = "reset"
     /\ Store([cells EXCEPT ![s.at] = ResetElem(p, @)],
              [srv EXCEPT ![p].pc = IF Head(s.todo).exact THEN "end" ELSE "move",
                          ![p].seen = Zero])
     /\ book' = [book EXCEPT ![s.seen.key].taken = @ + s.seen.bytes]
     /\ raced' = raced \cup
          (IF [e EXCEPT !.next = 0] # s.seen
           THEN {s.seen.key, e.key} \cap Keys ELSE {})
     /\ UNCHANGED <<used, mapped, no_more_space, lru, lock, go_to_clear, count,
                    clears>>

(* Mutant: chains are not followed. *)
Onward_BucketsOnly(s) ==
  IF Head(s.todo).exact \/ s.idx = Buckets THEN [s EXCEPT !.pc = "end"]
  ELSE [s EXCEPT !.pc = "visit", !.at = s.idx + 1, !.idx = s.idx + 1]

(* On to the next element, to the next bucket, to the end.  A child that    *)
(* follows a pointer into a pool mapped after its fork is killed.           *)
Onward(s) ==
  LET next == cells[s.at].next
  IN CASE next # 0 /\ PoolOf(next) > s.mapped -> Idle
       [] next # 0 /\ PoolOf(next) <= s.mapped ->
            [s EXCEPT !.pc = "visit", !.at = next]
       [] next = 0 /\ (Head(s.todo).exact \/ s.idx = Buckets) ->
            [s EXCEPT !.pc = "end"]
       [] OTHER ->
            [s EXCEPT !.pc = "visit", !.at = s.idx + 1, !.idx = s.idx + 1]

Move(p) ==
  /\ srv[p].pc = "move"
  /\ srv' = [srv EXCEPT ![p] = Onward(@)]
  /\ UNCHANGED <<cells, used, mapped, no_more_space, lru, lock, go_to_clear,
                 count, book, raced, holed, clears>>

(* A request is done with: on to the next one, or the answer is sent. *)
End(p) ==
  LET s == srv[p]
  IN /\ s.pc = "end"
     /\ srv' = [srv EXCEPT ![p] =
          IF Len(s.todo) = 1 THEN Idle
          ELSE Begin(Tail(s.todo), s.reset, s.mapped, s.far)]
     /\ UNCHANGED <<cells, used, mapped, no_more_space, lru, lock, go_to_clear,
                    count, book, raced, holed, clears>>

Step(p) == Visit(p) \/ Reset(p) \/ Move(p) \/ End(p)

Next ==
  \/ \E f \in Flows : Record(f[1], f[2])
  \/ \E q \in Queries : Ask(q)
  \/ Clear
  \/ \E p \in Procs : Step(p)

Spec == Init /\ [][Next]_vars

-----------------------------------------------------------------------------
(* Properties *)

(* The types of all variables. *)
TypeOK ==
  /\ cells \in [Places ->
       [key : Keys \cup {0}, bytes : Nat, type : BOOLEAN, flag : BOOLEAN,
        next : {0} \cup (Buckets + 1 .. Buckets + used)]]
  /\ used \in 0 .. (MaxPools - 1) * PoolSize
  /\ mapped \in 2 .. MaxPools
  /\ lru \in [1 .. Buckets -> Places \cup {0}]
  /\ no_more_space \in BOOLEAN /\ lock \in BOOLEAN /\ go_to_clear \in BOOLEAN
  /\ \A p \in Procs :
       /\ srv[p].pc \in {"idle", "visit", "reset", "move", "end"}
       /\ srv[p].far \subseteq IF p = 0 \/ srv[p].pc = "idle" THEN {} ELSE Places
       /\ srv[p].pc # "idle" =>
            /\ srv[p].at \in Places /\ PoolOf(srv[p].at) <= srv[p].mapped
            /\ srv[p].idx \in 1 .. Buckets
            /\ \A i \in DOMAIN srv[p].todo :
                 srv[p].todo[i] \in [exact : BOOLEAN, all : BOOLEAN, keys : SUBSET Keys]
  /\ raced \subseteq Keys /\ holed \in BOOLEAN

(* lru_elem_ptr is consulted before the chain and outlives an erase: an     *)
(* element it points to that has a key of its bucket is in that bucket's    *)
(* chain, or records would go where no query finds them.                    *)
LruReachable ==
  \A b \in 1 .. Buckets :
    LET c == lru[b]
        chain == Chain(b)
    IN c # 0 =>
         \/ cells[c].key = 0
         \/ Hash[cells[c].key] # b
         \/ \E i \in DOMAIN chain : chain[i] = c

(* Every element in use is in one chain, the one its key hashes to. *)
Chained ==
  \A b \in 1 .. Buckets :
    LET chain == Chain(b)
    IN \A c \in Places : cells[c].key # 0 =>
         Cardinality({i \in DOMAIN chain : chain[i] = c}) =
           IF b = Hash[cells[c].key] THEN 1 ELSE 0

(* The bytes received for a key are the ones a query can still see, in one  *)
(* element or several, the ones reported with a reset, and the ones erased  *)
(* or dropped for lack of room.  Exempt are keys whose element changed      *)
(* between a report and the reset that follows it.                          *)
Conserved ==
  \A k \in Keys \ raced :
    book[k].fed = book[k].taken + book[k].gone + Shown(cells, k)

(* Only elements whose counters went to zero, which are given to any key    *)
(* that comes along, can leave a key with two elements.                     *)
OneEntry ==
  holed \/ \A c, d \in Places :
             cells[c].key = cells[d].key => c = d \/ cells[c].key = 0

(* A request that runs to its end while the table is not erased reports no  *)
(* element twice, and reports every element that it could see from its      *)
(* start to its end; for a whole key, unless the key has two elements.  A   *)
(* child that compares cannot see an element given its key after the fork,  *)
(* be it before the request began.                                          *)
WalkExact ==
  \A p \in Procs :
    srv[p].pc = "end" /\ srv[p].since = clears =>
      /\ ~srv[p].twice
      /\ \/ srv[p].old \subseteq srv[p].got
         \/ Head(srv[p].todo).exact /\ holed

(* The structure of the table after any sequence of records, resets and     *)
(* erases (acct.c, memory.c).                                               *)
TableSound == TypeOK /\ Chained /\ LruReachable /\ OneEntry
=============================================================================
