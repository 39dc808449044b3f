------------------------------ MODULE SqlCache ------------------------------
(***************************************************************************)
(* The cache of the SQL plugins (sql_common.c, sql_common_m.c), the queue  *)
(* of its entries, and the writers forked to put them into the database    *)
(* (pgsql_plugin.c, mysql_plugin.c).                                       *)
(*                                                                         *)
(* The cache is an array of buckets.  Entries that do not fit a bucket are *)
(* allocated, chained to it by prev and next, and linked in a second list  *)
(* by age, from lru_head to lru_tail, from which old ones are reused or    *)
(* retired.  The queue holds pointers to the entries in use.  Pointers are *)
(* numbers here: Nil, LruHead, the buckets, the entries malloc() may give. *)
(*                                                                         *)
(* Time is in seconds.  now is idata.now, the clock when it was last read. *)
(* The bytes counter stands for the three counters.                        *)
(***************************************************************************)
EXTENDS Integers, Sequences, FiniteSetsExt, SequencesExt

CONSTANTS
  Keys,             \* sets of primitives, as numbers: the hash of a set
  NBuckets,         \* config.sql_cache_entries
  NElems,           \* entries malloc() can give before memory is finished
  qq_size,          \* length of queries_queue and of pending_queries_queue
  timeslot,         \* config.sql_history, in seconds
  refresh,          \* config.sql_refresh_time
  STALE_M,          \* an entry is reused after STALE_M refreshes
  RETIRE_M,         \* and freed after RETIRE_M
  CACHE_THRESHOLD,  \* an entry with more bytes is not added to
  dump_max_writers, \* config.dump_max_writers
  Confs,            \* configurations of the plugin, see TypeOK
  Steps,            \* seconds that may pass before the clock is read again
  Flows,            \* <<key, seconds since the flow started>> of the records
  MaxNow,           \* bound: last second
  MaxRecords        \* bound: records received

ASSUME SqlAssumption ==
  /\ Keys \subseteq Nat /\ NBuckets \in Nat \ {0} /\ NElems \in Nat
  /\ qq_size \in Nat \ {0} /\ timeslot \in Nat \ {0} /\ refresh \in Nat \ {0}
  /\ STALE_M \in Nat /\ RETIRE_M \in Nat /\ CACHE_THRESHOLD \in Nat
  /\ dump_max_writers \in Nat \ {0}
  /\ Steps \subseteq Nat /\ Flows \subseteq Keys \X Nat
  /\ MaxNow \in Nat /\ MaxRecords \in Nat

Nil == 0
LruHead == -1
Buckets == 1 .. NBuckets
Elems == NBuckets + 1 .. NBuckets + NElems
Nodes == Buckets \cup Elems

SQL_CACHE_FREE == 0
SQL_CACHE_COMMITTED == 1
SQL_CACHE_INUSE == 2

VARIABLES
  conf,      \* configuration: database, backup host, startup delay
  heap,      \* pointer -> struct db_cache
  lru_tail,
  queue,     \* queries_queue, qq_ptr entries long
  now,       \* idata.now
  base,      \* idata.basetime
  newBase,   \* idata.new_basetime
  committed, \* idata.committed_basetime
  deadline,  \* refresh_deadline
  rec,       \* the record whose insertion is at safe_action
  writers,   \* the rows of each writer still running
  up,        \* the plugin runs
  owed,      \* history: bytes received less those written or given up, by row
  urged,     \* history: there was an urgent purge since the last timed one
  scattered, \* history: an urgent purge left entries in use where they were
  torn,      \* history: it left the queue without some of them, or too long
  doubled,   \* history: a writer wrote rows twice
  nrec       \* records received

cacheVars == <<heap, lru_tail, queue>>
timeVars == <<now, base, newBase, committed, deadline>>
ghosts == <<urged, scattered, torn, doubled>>
vars == <<conf, cacheVars, timeVars, rec, writers, up, owed, ghosts, nrec>>

Cell == [valid |-> SQL_CACHE_FREE, key |-> 0, base |-> 0, bytes |-> 0, tag |-> 0,
         prev |-> Nil, next |-> Nil, lprev |-> Nil, lnext |-> Nil,
         chained |-> FALSE]
NoRecord == [key |-> 0, base |-> 0, at |-> Nil, stage |-> "none"]

Slots == {timeslot * i : i \in 0 .. MaxNow \div timeslot}
Rows == Keys \X Slots
RowOf(e) == <<e.key, e.base>>

\* the second at which the plugin starts; 0 would be no time at all
Start == 2 * timeslot

Init ==
  /\ conf \in Confs
  /\ heap = [x \in Nodes \cup {LruHead} |-> Cell] /\ lru_tail = LruHead
  /\ queue = << >>
  /\ now = Start /\ base = Start /\ newBase = Start /\ committed = 0
  /\ deadline = Start + refresh + conf.delay
  /\ rec = NoRecord /\ writers = << >> /\ up = TRUE
  /\ owed = [r \in Rows |-> 0]
  /\ urged = FALSE /\ scattered = FALSE /\ torn = FALSE /\ doubled = FALSE /\ nrec = 0

-----------------------------------------------------------------------------
(***************************************************************************)
(* The two lists.  A cache c has fields heap and tail.                     *)
(***************************************************************************)
ChainLink(h, a, b) ==
  IF b = Nil THEN [h EXCEPT ![a].next = Nil]
  ELSE [h EXCEPT ![a].next = b, ![b].prev = a]

LruLink(h, a, b) ==
  IF b = Nil THEN [h EXCEPT ![a].lnext = Nil]
  ELSE [h EXCEPT ![a].lnext = b, ![b].lprev = a]

\* the pointers met from x along a field, without the Nil at the end
Path(h, x, f) ==
  LET at[i \in 1 .. NBuckets + NElems + 1] ==
        IF i = 1 THEN x
        ELSE IF at[i - 1] = Nil THEN Nil ELSE h[at[i - 1]][f]
  IN  SelectSeq(at, LAMBDA y : y # Nil)

Chain(h, b) == Path(h, b, "next")
First(h, x) == Last(Path(h, x, "prev"))

\* mutant: an entry that is reused keeps its place
AddToLRUTail_OnlyNew(c, x) ==
  IF c.heap[x].lprev # Nil THEN c
  ELSE [heap |-> [LruLink(c.heap, c.tail, x) EXCEPT ![x].lnext = Nil], tail |-> x]

AddToLRUTail(c, x) ==
  LET e == c.heap[x]
      h == IF e.lprev = Nil THEN c.heap ELSE LruLink(c.heap, e.lprev, e.lnext)
  IN  IF x = c.tail THEN c
      ELSE [heap |-> [LruLink(h, c.tail, x) EXCEPT ![x].lnext = Nil], tail |-> x]

\* mutant: the tail is not moved back
RetireElem_TailStays(c, x) ==
  LET e == c.heap[x]
      h == ChainLink(LruLink(c.heap, e.lprev, e.lnext), e.prev, e.next)
  IN  [heap |-> [h EXCEPT ![x] = Cell], tail |-> c.tail]

RetireElem(c, x) ==
  LET e == c.heap[x]
      h == ChainLink(LruLink(c.heap, e.lprev, e.lnext), e.prev, e.next)
  IN  [heap |-> [h EXCEPT ![x] = Cell],
       tail |-> IF e.lnext = Nil THEN e.lprev ELSE c.tail]

BuildChain(c, x, new) ==
  [c EXCEPT !.heap = [ChainLink(c.heap, x, new) EXCEPT ![new].chained = TRUE]]

ReBuildChain(c, x, new) ==
  LET e == c.heap[new]
      h == ChainLink(c.heap, e.prev, e.next)
  IN  [c EXCEPT !.heap = [ChainLink(h, x, new) EXCEPT ![new].next = Nil]]

\* two entries of a chain change places
SwapChainedElems(h, x, y) ==
  LET px == h[x].prev  nx == h[x].next
      py == h[y].prev  ny == h[y].next
  IN  CASE x = py -> ChainLink(ChainLink(ChainLink(h, px, y), y, x), x, ny)
        [] y = px -> ChainLink(ChainLink(ChainLink(h, py, x), x, y), y, nx)
        [] OTHER  -> ChainLink(ChainLink(ChainLink(ChainLink(h, py, x), px, y),
                                         x, ny), y, nx)

-----------------------------------------------------------------------------
(***************************************************************************)
(* sql_cache_flush(): the entries of the queue are committed, but for the  *)
(* ones of a timeslot that is not over, which are left pending.            *)
(***************************************************************************)
InUse(x) == heap[x].valid = SQL_CACHE_INUSE

\* the last rebase is not committed yet
Rebased == newBase # 0 /\ newBase < base /\ newBase > committed

\* startup delay, in whole timeslots
Delay == (conf.delay \div timeslot) * timeslot

\* mutant: the running timeslot is committed with the ones before it
Pending_Running(x) == heap[x].base + Delay > base

Pending(x) ==
  IF Rebased THEN heap[x].base + Delay >= base ELSE heap[x].base + Delay > base

PendingQueue == SelectSeq(queue, Pending)

Committing(q) ==
  [x \in DOMAIN heap |->
     IF x \in {q[i] : i \in DOMAIN q} THEN [heap[x] EXCEPT !.valid = SQL_CACHE_COMMITTED]
     ELSE heap[x]]

\* the heap after a flush that leaves pend
Flushed(pend) ==
  Committing(SelectSeq(queue, LAMBDA x : ~ \E i \in DOMAIN pend : pend[i] = x))

CommittedBase ==
  committed' = IF queue = << >> THEN committed
               ELSE IF Rebased THEN newBase ELSE base

(***************************************************************************)
(* sql_cache_flush_pending(): an entry left pending behind one that was    *)
(* committed moves ahead, into the bucket itself or by a swap, so that     *)
(* the walk along a chain may end at the first entry not in use.           *)
(***************************************************************************)
\* mutant: the queue still has the entry that was retired
MoveAhead_StalePointer(r, x) ==
  LET h == r.heap
      y == First(h, x)
      copied == [h EXCEPT ![y] = [h[x] EXCEPT !.prev = Nil, !.next = h[y].next,
                                    !.chained = FALSE,
                                    !.lprev = Nil, !.lnext = Nil]]
      retired == RetireElem([heap |-> copied, tail |-> r.tail], x)
  IN  IF x = y \/ h[y].valid = SQL_CACHE_INUSE THEN [r EXCEPT !.pend = Append(@, x)]
      ELSE [heap |-> retired.heap, tail |-> retired.tail,
            pend |-> Append(r.pend, x)]

MoveAhead(r, x) ==
  LET h == r.heap
      chain == Chain(h, First(h, x))
      free == {i \in DOMAIN chain :
                 /\ h[chain[i]].valid # SQL_CACHE_INUSE
                 /\ \A j \in 1 .. i : chain[j] # x}
      y == chain[Min(free)]
      copied == [h EXCEPT ![y] = [h[x] EXCEPT !.prev = Nil, !.next = h[y].next,
                                    !.chained = FALSE,
                                    !.lprev = Nil, !.lnext = Nil]]
      retired == RetireElem([heap |-> copied, tail |-> r.tail], x)
  IN  IF free = {} THEN [r EXCEPT !.pend = Append(@, x)]
      ELSE IF h[y].prev = Nil
           THEN [heap |-> retired.heap, tail |-> retired.tail,
                 pend |-> Append(r.pend, y)]
           ELSE [heap |-> SwapChainedElems(h, x, y), tail |-> r.tail,
                 pend |-> Append(r.pend, x)]

\* mutant: pending entries stay where they are
FlushPending_Stay(h, pend) == [heap |-> h, tail |-> lru_tail, pend |-> pend]

FlushPending(h, pend) ==
  FoldLeft(MoveAhead, [heap |-> h, tail |-> lru_tail, pend |-> << >>], pend)

-----------------------------------------------------------------------------
(***************************************************************************)
(* Writers.  A writer is forked unless dump_max_writers of them run; it    *)
(* has a copy of the entries, and writes the committed ones of the queue.  *)
(***************************************************************************)
Sum(rows, r) ==
  MapThenSumSet(LAMBDA i : rows[i].bytes, {i \in DOMAIN rows : rows[i].row = r})

\* the rows a purge of queue q writes, given the heap
RowsOf(h, q) ==
  [i \in DOMAIN q |-> [row |-> RowOf(h[q[i]]), bytes |-> h[q[i]].bytes]]

\* mutant: as many writers as there are purges
Fork_NoLimit(rows) == writers' = Append(writers, rows) /\ owed' = owed

Fork(rows) ==
  \/ /\ Len(writers) < dump_max_writers
     /\ writers' = Append(writers, rows) /\ owed' = owed
  \/ \* too many writers, or fork() fails: the entries are gone
     /\ writers' = writers
     /\ owed' = [r \in Rows |-> owed[r] - Sum(rows, r)]

(***************************************************************************)
(* How often each of n rows is written, to the database or to the backup.  *)
(* A fault f has the primary refuse the connection or the lock (conn), the *)
(* statement bad (0: none) or the COMMIT, and the backup fail after it     *)
(* took `takes' statements.                                                *)
(***************************************************************************)
Faults(n) == [conn : BOOLEAN, bad : 0 .. n, commit : BOOLEAN, takes : 0 .. n]

\* PG_cache_purge(): one transaction.  From the first row refused on, rows go
\* to the backup, and once more when they are reprocessed; the ones before are
\* rolled back.  After a failed COMMIT all of them go there, once.
PgTimes(n, f) ==
  LET from == IF f.conn THEN 1 ELSE IF f.bad # 0 THEN f.bad ELSE n + 1
      backup == conf.recover /\ f.takes = n
  IN  [i \in 1 .. n |->
         IF from <= n THEN IF backup /\ i >= from THEN 2 ELSE 0
         ELSE IF f.commit THEN IF backup THEN 1 ELSE 0
         ELSE 1]

\* MY_cache_purge(): rows go to the backup if there was no connection or no
\* lock; a statement that fails is not tried again
MyTimes(n, f) ==
  [i \in 1 .. n |->
     IF f.conn THEN IF conf.recover /\ i <= f.takes THEN 1 ELSE 0
     ELSE IF i = f.bad THEN 0 ELSE 1]

Times(n, f) == IF conf.db = "pgsql" THEN PgTimes(n, f) ELSE MyTimes(n, f)

\* a row that is not written is given up
Credit(rows, times, r) ==
  MapThenSumSet(LAMBDA i : rows[i].bytes * Max({1, times[i]}),
                {i \in DOMAIN rows : rows[i].row = r})

Written(rows) ==
  \E times \in {Times(Len(rows), f) : f \in Faults(Len(rows))} :
    /\ owed' = [r \in Rows |-> owed[r] - Credit(rows, times, r)]
    /\ doubled' = (doubled \/ \E i \in DOMAIN times : times[i] > 1)

WriterEnds ==
  \E w \in DOMAIN writers :
    /\ Written(writers[w])
    /\ writers' = RemoveAt(writers, w)
    /\ UNCHANGED <<conf, cacheVars, timeVars, rec, up, urged, scattered, torn, nrec>>

-----------------------------------------------------------------------------
(***************************************************************************)
(* sql_cache_insert().                                                     *)
(***************************************************************************)
Modulo(k) == (k % NBuckets) + 1

\* the timeslot of a flow that started at s
TimeBase(s, b) ==
  LET residual == IF b > s THEN timeslot - ((b - s) % timeslot)
                  ELSE (s - b) % timeslot
  IN  s - residual

\* housekeeping: the oldest entry is retired if it is old enough
Housekeeping(c, t) ==
  LET x == c.heap[LruHead].lnext
  IN  IF /\ x # Nil /\ t - c.heap[x].tag > RETIRE_M * refresh
         /\ c.heap[x].valid # SQL_CACHE_INUSE
      THEN RetireElem(c, x) ELSE c

\* mutant: the timeslot is not compared
Stops_AnySlot(e, k, b) ==
  \/ e.valid # SQL_CACHE_INUSE
  \/ e.key = k /\ e.bytes <= CACHE_THRESHOLD

\* a walk along the chain ends at entry e
Stops(e, k, b) ==
  \/ e.valid # SQL_CACHE_INUSE
  \/ e.key = k /\ e.base = b /\ e.bytes <= CACHE_THRESHOLD

\* entry x is filled with the record and put into the queue, if it has room
Filled(c, q, x, k, b, t) ==
  LET h == [c.heap EXCEPT ![x] = [@ EXCEPT !.valid = SQL_CACHE_INUSE, !.key = k,
                                   !.base = b, !.bytes = 1, !.tag = t]]
      d == IF h[x].chained THEN AddToLRUTail([c EXCEPT !.heap = h], x)
           ELSE [c EXCEPT !.heap = h]
  IN  IF Len(q) < qq_size THEN [cache |-> d, queue |-> Append(q, x),
                                stage |-> "none", at |-> Nil]
      ELSE [cache |-> d, queue |-> q, stage |-> "safe", at |-> x]

Stale(c, t) ==
  LET x == c.heap[LruHead].lnext
  IN  /\ x # Nil /\ c.heap[x].valid # SQL_CACHE_INUSE
      /\ t - c.heap[x].tag > STALE_M * refresh

Inserted(c, q, k, b, t) ==
  LET chain == Chain(c.heap, Modulo(k))
      stops == {i \in DOMAIN chain : Stops(c.heap[chain[i]], k, b)}
      x     == chain[Min(stops)]
      end   == Last(chain)
      old   == c.heap[LruHead].lnext
      spare == {e \in Elems : ~c.heap[e].chained}
  IN  IF stops # {}
      THEN IF c.heap[x].valid = SQL_CACHE_INUSE
           THEN [cache |-> [c EXCEPT !.heap[x].bytes = @ + 1], queue |-> q,
                 stage |-> "none", at |-> Nil]
           ELSE Filled(c, q, x, k, b, t)
      ELSE IF Stale(c, t) THEN Filled(ReBuildChain(c, end, old), q, old, k, b, t)
      ELSE IF spare # {}
           THEN Filled(BuildChain(c, end, Min(spare)), q, Min(spare), k, b, t)
      ELSE [cache |-> c, queue |-> q, stage |-> "safe", at |-> Nil]

CacheIs(c) == heap' = c.heap /\ lru_tail' = c.tail

TryInsert(c, k, b) ==
  \E r \in {Inserted(c, queue, k, b, now)} :
    /\ CacheIs(r.cache) /\ queue' = r.queue
    /\ rec' = IF r.stage = "none" THEN NoRecord
              ELSE [key |-> k, base |-> b, at |-> r.at, stage |-> r.stage]

Ready == up /\ ~torn /\ rec.stage = "none"

\* the timeslot a record is accounted to: the one its flow started in.  A
\* flow that started before basetime, right at the edge of two timeslots, is
\* put into the earlier one.
SlotOf(s) == IF s < base /\ s % timeslot = 0 THEN s - timeslot
             ELSE s - (s % timeslot)

Insert ==
  \E f \in Flows :
    /\ Ready /\ now <= deadline /\ nrec < MaxRecords
    /\ \E c \in {Housekeeping([heap |-> heap, tail |-> lru_tail], now)} :
         TryInsert(c, f[1], TimeBase(now - f[2], base))
    /\ owed' = [owed EXCEPT ![<<f[1], SlotOf(now - f[2])>>] = @ + 1]
    /\ nrec' = nrec + 1
    /\ UNCHANGED <<conf, timeVars, writers, up, ghosts>>

\* after a purge for want of memory, the insertion starts again
Retry ==
  /\ rec.stage = "again"
  /\ TryInsert([heap |-> heap, tail |-> lru_tail], rec.key, rec.base)
  /\ UNCHANGED <<conf, timeVars, writers, up, owed, ghosts, nrec>>

(***************************************************************************)
(* safe_action: the queue is full or memory finished.  memcpy() is given   *)
(* the size of a pointer, and brings back one of the entries left pending. *)
(***************************************************************************)
\* what the copy leaves in the queue
Copied(pend) ==
  IF pend = << >> THEN << >> ELSE <<Head(pend)>> \o SubSeq(queue, 2, Len(pend))

Urgent ==
  /\ rec.stage = "safe" /\ ~torn
  /\ \E pend \in {PendingQueue} :
       /\ heap' = Flushed(pend) /\ CommittedBase
       /\ Fork(RowsOf(heap, SelectSeq(queue, LAMBDA x : ~Pending(x))))
       /\ \E q \in {Copied(pend)} :
            /\ queue' = IF rec.at = Nil THEN q ELSE Append(q, rec.at)
            /\ torn' = (q # pend \/ Len(queue') > qq_size)
       /\ scattered' = (scattered \/ pend # << >> \/ rec.at # Nil)
  /\ rec' = IF rec.at = Nil THEN [rec EXCEPT !.stage = "again"] ELSE NoRecord
  /\ urged' = TRUE
  /\ UNCHANGED <<conf, lru_tail, now, base, newBase, deadline, up, doubled, nrec>>

-----------------------------------------------------------------------------
(***************************************************************************)
(* The main loop.  basetime moves on when poll() returns, and not while    *)
(* buffers are read one after the other.                                   *)
(***************************************************************************)
\* while (now > basetime + timeslot)
Rebase(t) ==
  LET n == (t - base - 1) \div timeslot
  IN  /\ base' = IF n > 0 THEN base + n * timeslot ELSE base
      /\ newBase' = IF n > 0 THEN base + (n - 1) * timeslot ELSE newBase

Poll ==
  \E d \in Steps :
    /\ Ready /\ now <= deadline /\ now + d <= MaxNow
    /\ now' = now + d /\ Rebase(now')
    /\ UNCHANGED <<conf, cacheVars, committed, deadline, rec, writers, up, owed,
                   ghosts, nrec>>

ReadClock ==
  \E d \in Steps :
    /\ Ready /\ now <= deadline /\ now + d <= MaxNow
    /\ now' = now + d
    /\ UNCHANGED <<conf, cacheVars, base, newBase, committed, deadline, rec,
                   writers, up, owed, ghosts, nrec>>

\* sql_cache_flush() and sql_cache_handle_flush_event()
FlushEvent ==
  /\ Ready /\ now > deadline
  /\ \E pend \in {PendingQueue} : \E r \in {FlushPending(Flushed(pend), pend)} :
       /\ CacheIs(r) /\ queue' = r.pend
       /\ Fork(RowsOf(heap, SelectSeq(queue, LAMBDA x : ~Pending(x))))
  /\ CommittedBase
  /\ newBase' = 0
  /\ deadline' = deadline + ((now - deadline + refresh - 1) \div refresh) * refresh
  /\ urged' = FALSE
  /\ UNCHANGED <<conf, now, base, rec, up, scattered, torn, doubled, nrec>>

Gone ==
  /\ up' = FALSE
  /\ heap' = [x \in DOMAIN heap |-> Cell] /\ lru_tail' = LruHead /\ queue' = << >>
  /\ UNCHANGED <<conf, timeVars, rec, urged, scattered, torn, nrec>>

\* sql_exit_gracefully(), on SIGINT: the plugin writes the queue itself, if
\* there are not too many writers
Exit ==
  /\ Ready /\ Gone /\ UNCHANGED writers
  /\ \E rows \in {RowsOf(heap, queue)} :
       IF Len(writers) < dump_max_writers
       THEN Written(rows)
       ELSE /\ owed' = [r \in Rows |-> owed[r] - Sum(rows, r)]
            /\ doubled' = doubled

\* the core process is gone: exit_plugin() without a purge
CoreGone ==
  /\ Ready /\ Gone /\ UNCHANGED <<writers, doubled>>
  /\ owed' = [r \in Rows |-> owed[r] - Sum(RowsOf(heap, queue), r)]

Next ==
  \/ Insert \/ Retry \/ Urgent \/ Poll \/ ReadClock \/ FlushEvent
  \/ WriterEnds \/ Exit \/ CoreGone

Spec == Init /\ [][Next]_vars

-----------------------------------------------------------------------------
TypeOK ==
  /\ conf \in [db : {"pgsql", "mysql"}, recover : BOOLEAN, delay : Nat]
  /\ heap \in [Nodes \cup {LruHead} ->
       [valid : {SQL_CACHE_FREE, SQL_CACHE_COMMITTED, SQL_CACHE_INUSE},
        key : Keys \cup {0}, base : Slots, bytes : Nat, tag : Nat,
        prev : Nodes \cup {Nil}, next : Elems \cup {Nil},
        lprev : Elems \cup {LruHead, Nil}, lnext : Elems \cup {Nil},
        chained : BOOLEAN]]
  /\ lru_tail \in Elems \cup {LruHead}
  /\ queue \in Seq(Nodes)
  /\ now \in Nat /\ base \in Nat /\ newBase \in Nat /\ committed \in Nat
  /\ deadline \in Nat /\ nrec \in 0 .. MaxRecords
  /\ rec \in [key : Keys \cup {0}, base : Slots, at : Nodes \cup {Nil},
              stage : {"none", "safe", "again"}]
  /\ writers \in Seq(Seq([row : Rows, bytes : Nat]))
  /\ Len(writers) <= dump_max_writers
  /\ up \in BOOLEAN /\ owed \in [Rows -> Int]
  /\ {urged, scattered, torn, doubled} \subseteq BOOLEAN

Chained == {x \in Elems : heap[x].chained}

(***************************************************************************)
(* The lists are what the assertions of sql_common_m.c expect: every entry *)
(* allocated is in the chain of one bucket and once in the list by age,    *)
(* both of which can be followed either way, and lru_tail is its end.      *)
(***************************************************************************)
ListsSound ==
  /\ \A x \in Chained :
       /\ Cardinality({b \in Buckets : \E i \in DOMAIN Chain(heap, b) :
                          Chain(heap, b)[i] = x}) = 1
       /\ heap[x].prev # Nil /\ heap[heap[x].prev].next = x
       /\ heap[x].lprev # Nil /\ heap[heap[x].lprev].lnext = x
       /\ heap[x].lnext = Nil <=> x = lru_tail
  /\ \A b \in Buckets : \A i \in 2 .. Len(Chain(heap, b)) :
       Chain(heap, b)[i] \in Chained
  /\ LET lru == Path(heap, LruHead, "lnext")
     IN  /\ {lru[i] : i \in 2 .. Len(lru)} = Chained
         /\ Len(lru) = Cardinality(Chained) + 1

(***************************************************************************)
(* Entries are in the list by age in the order in which they were filled:  *)
(* looking at the first is enough to find a stale one.                     *)
(***************************************************************************)
LruSorted ==
  LET lru == Path(heap, LruHead, "lnext")
  IN  \A i, j \in 2 .. Len(lru) : i < j => heap[lru[i]].tag <= heap[lru[j]].tag

(***************************************************************************)
(* "if element status is SQL_CACHE_INUSE it can't be retired because sits  *)
(* on the queue" (sql_common.c:573).  The entry a full queue had no room   *)
(* for gets there after the urgent purge.                                  *)
(***************************************************************************)
InuseQueued ==
  \A x \in Nodes : InUse(x) /\ x # rec.at => \E i \in DOMAIN queue : queue[i] = x

(***************************************************************************)
(* The queue holds every entry in use, once, and nothing else, within its  *)
(* memory.  An urgent purge that leaves several entries pending breaks it. *)
(***************************************************************************)
QueueExact ==
  ~torn =>
    /\ InuseQueued
    /\ \A i \in DOMAIN queue : InUse(queue[i])
    /\ \A i, j \in DOMAIN queue : queue[i] = queue[j] => i = j
    /\ Len(queue) <= qq_size

(***************************************************************************)
(* In a chain no entry in use is behind one that is not, so a walk that    *)
(* ends at the first of those has seen the whole chain, and a set of       *)
(* primitives has one entry per timeslot that can be added to.             *)
(***************************************************************************)
OneEntry ==
  ~scattered =>
    /\ \A x \in Chained : InUse(x) => InUse(heap[x].prev)
    /\ \A x, y \in Nodes :
         InUse(x) /\ InUse(y) /\ RowOf(heap[x]) = RowOf(heap[y]) /\ x # y
           => heap[x].bytes > CACHE_THRESHOLD \/ heap[y].bytes > CACHE_THRESHOLD

\* Queue and chains together hold every entry in use where its record will look for it.
QueueSound == QueueExact /\ OneEntry

(***************************************************************************)
(* Bytes received and neither written nor given up are in the cache or     *)
(* with a writer, in the row of their key and timeslot.                    *)
(***************************************************************************)
InCache(r) ==
  MapThenSumSet(LAMBDA x : heap[x].bytes,
                {x \in Nodes : InUse(x) /\ RowOf(heap[x]) = r})

AtSafeAction(r) ==
  IF rec.stage # "none" /\ rec.at = Nil /\ <<rec.key, rec.base>> = r THEN 1 ELSE 0

Conserved ==
  ~torn /\ ~doubled =>
    \A r \in Rows :
      owed[r] = InCache(r) + AtSafeAction(r)
                + MapThenSumSet(LAMBDA w : Sum(writers[w], r), DOMAIN writers)

(***************************************************************************)
(* A timed purge does not write the timeslot that is running: with         *)
(* sql_dont_try_update a second INSERT of a row would fail or double it.   *)
(* After an urgent purge the first timed one may.                          *)
(***************************************************************************)
NotEarly ==
  [][FlushEvent /\ ~urged =>
       \A i \in DOMAIN queue :
         Pending(queue[i]) \/ heap[queue[i]].base + timeslot <= now]_vars

(***************************************************************************)
(* The structure of the cache after any sequence of insertions, reuses,    *)
(* retirements and purges (sql_common.c, sql_common_m.c).                  *)
(***************************************************************************)
CacheSound == TypeOK /\ ListsSound /\ LruSorted
=============================================================================
