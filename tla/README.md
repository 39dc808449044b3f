# pmacct: a TLA+ verification project

This directory holds TLA+ models of pmacct (the C sources are under `src/` of
the repository), the TLC configurations that check them on small instances, and
TLAPS proofs of the facts that hold for every instance. `PROJECT.json` lists
the components, the runs, which definition models which lines, and the hazards
the properties are aimed at.

## 1. The system

pmacct is a family of network accounting daemons. A **core process** (pmacctd
and uacctd for packets, nfacctd for NetFlow/IPFIX, sfacctd for sFlow) turns its
input into records and pushes them to **plugins**, each a forked process with a
channel of its own. A plugin aggregates records by key and timeslot and writes
them out, mostly through short-lived forked **writers**. **Threads** of the core
(BGP, BMP, IS-IS, telemetry; also stand-alone as pmbgpd, pmbmpd, pmtelemetryd)
keep routing and telemetry state used to enrich the records.

| Component | State | Operations | Interacts with | Hard behaviour | What makes it correct |
|---|---|---|---|---|---|
| Core to plugin channel (`plugin_hooks.c`, `*_plugin.c`, `signals.c`) | ring of slots, `wakeup`, `last_buf_off` in shared memory; a datagram socketpair | place a record, commit a slot, protect the next one, ring; poll, check sequence, resync, copy; flush at SIGINT, then tell the plugins to exit | shared memory without a lock between two processes | interleaving of single stores and loads, lost or stale doorbells, lapping, sequence wrap | the plugin never sleeps unarmed, never skips or repeats buffers unnoticed |
| Aggregation cache (`plugin_common.c`) and writers (`util.c`) | buckets and chains, scratch area, queue, deadlines, accumulators, writer list | insert, purge (mark, fork, flush), put pending entries back, exit | forked writers, SIGINT, clock | full cache in the middle of a record, a scratch area that ends one node early, failed fork, writer limit, late and early records | no byte lost or doubled, every row written once and eventually |
| Thread pool (`thread_pool.c`) | free list, two kinds of mutex and condition variable, `go` flags | allocate, run, send | all daemon threads | lost signals, spurious wakeups, sharing a worker | each function runs exactly once |
| BGP daemon (`bgp/bgp.c`, `bgp_util.c`, `bgp_msg.c`) | peer slots, descriptor sets, round-robin index, batch, RIB | select, accept, refuse, displace, read, parse, close | routers over TCP, the core's lookups | stream cut anywhere, messages of length 0, reuse of slots and descriptors, stale connections, starvation | one session per router, routes owned by the live session |
| BGP RIB (`bgp/bgp_table.c`, `bgp_util.c`, `bgp_msg.c`, `bgp_hash.c`, `bgp_aspath.c`, `bgp_community.c`, `bgp_lookup.c`) | a radix tree of nodes with locks, routes per peer, tables of interned attributes with reference counts | parse, intern, announce, replace, withdraw, walk at a close, look up | core thread | nodes that vanish under a walk, attributes shared between routes, lookups without a lock | the tree holds what peers announced, no object is freed early or kept for ever |
| BMP, telemetry, IS-IS | tables of routes, peers, LSPs | parse, look up, dump | core thread | the loop of the BGP daemon again | planned, or third-party |
| Memory plugin (`acct.c`, `memory.c`, `server.c`, `imt_plugin.c`) | buckets, chains into memory pools, the element used last per bucket, reset flags, all in shared memory | insert, answer, reset, erase | pmacct client, children forked to answer queries | a child walks the table while the plugin changes and erases it; elements and pools are used again, and part of a key is in memory the child does not share | every byte is visible, reported or known to be gone; a walk misses and repeats nothing |
| SQL plugins (`sql_common.c`, `sql_common_m.c`, `*sql*_plugin.c`) | buckets, chains and a list by age; queue of pointers into both; pending queue | insert, reuse, retire, timed and urgent purge, move pending entries ahead, recover, exit | database and backup, forked writers, clock | pointers that outlive what they point to, purges in the middle of an insertion, startup delays, rows written to two databases | the lists hold together, the queue is what is in use, no byte is lost or doubled |
| Packet path (`nl.c`, `ip_frag.c`, `ip_flow.c`, `conntrack.c`) | tables of nodes in buckets and lists by age, with a budget each; expectations | find, create, recycle, prune, classify, expect | one packet at a time, the clock, the allocator | nodes recycled for another key, prunes that empty a table, classes found late | a packet gets what belongs to its own datagram, flow and class |
| Flow collector (`nfacctd.c`, `nfv9_template.c`, `xflow_status.c`) | templates and their file, status entries with sequence numbers and sampling rates | take a datagram set by set, define and refresh templates, save, restore, judge, look up | exporters over UDP, disk | lost, late and doubled datagrams, restarts and crashes between two writes, a full disk or table | records are decoded with the last template and scaled by the last rate |
| Tee, nfprobe, sfprobe, AMQP/Kafka/MongoDB output, ZeroMQ | sockets, client handles | send | brokers | reconnect | library calls; not modelled |
| Maps, configuration, packet handlers, link layers, client | tables read once or reloaded by signal | parse, look up | core | little control state | not modelled |

`PROJECT.json` repeats this list with every source file and a reason for each
part that is left out.

## 2. Modules

| Module | Models | Built from |
|---|---|---|
| `CoreRing` | the core's side of a channel: `exec_plugins()`, `fill_pipe_buffer()`, `insert_pipe_channel()`, `my_sigint_handler()` | |
| `RingReader` | the print plugin's read loop, shared in form by all plugins but the memory plugin, **composed** with the core | extends `CoreRing` |
| `ImtReader` | the memory plugin's read loop, with a doorbell for every buffer, composed with the core | extends `CoreRing` |
| `ChannelProofs` | proofs about the core's side, which both readers need, and about either composition | extends `RingReader`, `ImtReader` |
| `Ledger` | abstract specification: what an accounting cache promises | |
| `PCache`, `MCPCache` | the aggregation cache and its writers, shown to implement `Ledger`; instances for TLC | `INSTANCE Ledger` |
| `PCacheProofs` | proofs about `PCache`, the step simulation of `Ledger` included | extends `PCache`, `TableFacts` |
| `Subsequences`, `TableFacts` | `Kept`, the elements of a sequence that are in a set; lemmas about it, about nodes filed in buckets and in one list, about sums over finite sets, remainders and induction on sets | |
| `ThreadPool` | the pool at the granularity of mutex operations | |
| `ThreadPoolProofs` | proofs about `ThreadPool` | extends `ThreadPool` |
| `SqlCache`, `MCSqlCache` | the cache of the SQL plugins, its queue and its writers | |
| `ImtTable`, `MCImtTable` | the memory plugin's table and the queries against it | |
| `ImtTableProofs` | proofs about the chains, the walks and the account of bytes | extends `ImtTable`, `TableFacts` |
| `Capture` | the clock and the allocator of the packet daemons | extends `Subsequences` |
| `IpFrag`, `Conntrack`, `IpFlow` | the fragment table; expectations of data connections; the flow table with classification | extend `Capture`; `IpFlow` extends `Conntrack` |
| `PacketPath`, `MCPacketPath` | `ip_handler()`: fragments and flows **composed** | extends `IpFrag`, `IpFlow` |
| `PacketPathProofs` | proofs about the three tables under `ip_handler()` | extends `PacketPath`, `TableFacts` |
| `Templates`, `XflowStatus` | operators on the template cache and its file; on the status table | |
| `Collector`, `MCCollector` | `process_v9_packet()`, exporters, network and restarts, **composed** of both | extends `Templates`, `XflowStatus` |
| `CollectorProofs` | proofs about the templates and their file, the status table and its verdicts | extends `Collector`, `TableFacts` |
| `BgpPeers`, `MCBgpPeers` | the BGP thread's loop, its peers table, sessions and the ownership of routes; instances for TLC | |
| `BgpPeersProofs` | proofs about `BgpPeers` | extends `BgpPeers`, `TableFacts` |
| `BgpTable` | operators on the radix tree: get, delete, lock, walk | |
| `BgpRib`, `MCBgpRib` | the RIB under UPDATEs and closes, interned attributes, **composed** with the lookups of the core thread | extends `BgpTable` |

Definitions called `X_Something` under a comment that starts with *mutant* are
plausible bugs of definition `X`. They are not used by any specification; each
property has one that breaks it (`PROJECT.json`, `mutants`), which shows that
the property depends on the code.

### The channel: `CoreRing`, `RingReader`, `ImtReader`

Core and plugin share memory without a lock, so every store to the slot header,
to `last_buf_off` and to `wakeup`, and every load by the plugin, is a step of
its own: `CommitSeq`, `CommitNum`, `CommitPid`, `CommitOff`, `TestWakeup`,
`WritePipe`, `ProtectSeq`, `ProtectNum`, `ProtectPid` on one side, `CheckSeq`,
`Resync`, `ResyncSeq`, `CopyHdr`, `CopyData` on the other. `cpc` and `rpc` say
where each process is. Stores become visible in program order; the models do
not consider a weaker memory order. A record is an identifier and the sizes of
its fixed and variable part; a payload is the sequence of identifiers found in
the slot, stale ones of an earlier lap included. The doorbell is the sequence
of datagrams in the socketpair; a full socket loses the datagram, as the
non-blocking `write()` does. `PollTimeout` stands for a timeout and for EINTR.

- `SigintWindow` names the control states of the core in which SIGINT may be
  delivered. `my_sigint_handler()` commits the partly filled buffer, *on top of*
  a commit that may be under way, and sleeps two seconds (`"sleep"`). Then
  `SignalPlugins` sends SIGINT, and each plugin leaves its loop wherever it is
  (`ReaderExit`, `ImtExit`): what it has not read by then it never reads, so
  `SignalledIsRead` ends there. `ring_reader` delivers SIGINT while a buffer is filled
  (`"fill"`), `imt_reader` at every step of a commit; each theorem names the states
  it allows (section 4). `SleepArmed` does not hold for a handler that exits
  between lowering `wakeup` and ringing.
- A record counts (`nrec`) once it is placed. One that goes through the handlers
  again in the next slot (`Reprocess`) may be sampled out the second time.
- `RingAssumption` asks for `MAX_SEQNUM > NSlots`. With 65536 slots or a
  multiple of that a slot of the previous lap carries the expected sequence
  number and nothing distinguishes it from a new one.
- `committed`, `idx`, `accepted`, `taken`, `overrun`, `unrung` and `icut` (SIGINT in
  the middle of a commit) are history: the code does not have them and no guard reads
  them. After `icut` the handler's commit is written over the one under way, in
  the same slot: `ImtExact`, `ImtAlarmIsReal` and `ImtGapCounted` exempt it,
  `ImtShutdownFlushed` does not.

### The cache: `PCache` and `Ledger`

`Receive` takes a record with its timeslot; `Insert` is `P_cache_insert()` and
the functions it calls: search along the chain, take a scratch node, or report
that the cache is full (`pc = "safe"`, the code's `safe_action`). `MarkFlush`,
`ForkWriter`, `Flush`, `InsertPending` and `PurgeDone` are the parts of
`P_cache_handle_flush_event()` and of the urgent purge, separate because a
writer may exit or SIGINT arrive between them. `HandleClassAccumulators`,
`SubtractAccumulator` and `KeepAccumulator` are the bytes a flow collects before
it is classified. With `SumHosts` a record is inserted twice, once for either
end (`P_sum_host_insert()`).

`P_cache_attach_new_node()` moves its pointer on before it returns it
(`plugin_common.c:720`): node 0 of the scratch area is never used and the last one
granted starts where the area ends (`PastEnd`). Writing there may do no harm, the
allocator having rounded the area up, or overwrite memory in use. `WriteBeyond` is the
second outcome: `pc = "astray"`, and the plugin does nothing the model could
describe any more. The properties are claimed up to that point, and through every
state in which the node happens to be good.

Time is counted in timeslots, the three counters of an entry are one, and a
key's bucket is a parameter (`Hash`). `ExitWindow` names the control states in
which SIGINT runs `P_exit_now()`; the runs use `"idle"`. In the middle of a purge
the entries set aside are lost, or the queue is written a second time.

`Ledger` knows rows (addresses and a timeslot) and three balances: `held`,
`written`, `lost`. Bytes accounted to a row stay there until the whole row is
settled, once, by a writer or by being dropped. `PCache` implements it under the
mapping `held <- Held`, where `Held(r)` sums the bytes of row `r` over the entries
in use, those committed but not yet handed over, and those set aside.

### The pool: `ThreadPool`

A step is what a thread does between two operations on a mutex. A thread in
`"wait"` is inside `pthread_cond_wait()` with the mutex released; `"woken"` has
still to take it. Signals wake one waiter, or none. `Spurious` is the spurious
wakeup POSIX allows. `Endless` jobs are the daemons' loops, which never return.
`deallocate_thread_pool()` has no caller and is left out.

### The BGP thread: `BgpPeers`

One round is `Select`, then at most one accept (`AcceptFails`, `Refuse`,
`Accept`), then at most one read (`NobodyToRead`, `PeerReset`, `ReadPeer`).
`Accept` covers the whole branch: batch, choice of the slot, `bgp_peer_init()`,
and the search for an older connection of the same router. `ReadPeer` covers
`bgp_parse_msg()` over everything received, the reply, and the close on error.
Abstractions:

- routers, network and clock act between rounds: what they do during one is
  noticed by the next `select()`;
- a `recv()` delivers some whole messages and possibly the beginning of the
  next, cut inside its header or after it; the attributes of an update are
  abstracted to a prefix and a path identifier;
- `bgp_parse_msg()` tests a message's length against what was received, not against
  the 19 bytes of a header. A KEEPALIVE whose length is 0 (`NOLENGTH`) is handled and
  met again, for ever: `ReadForEver` leaves the thread at `"stuck"`. With another
  length below 19 the next header is looked for inside this one and refused: that is
  a message followed by a `"BADHDR"`.
- `accept()` returns the lowest unused descriptor, as POSIX demands; that is
  what makes slots and descriptors meet again;
- a slot that is closed is reset as a whole, because `bgp_peer_init()` clears
  it before anything reads it;
- both batch keys are set, or none (`BgpAssumption`). With one of them
  `bp_batch` is read uninitialised (section 5).

`session`, `admits`, `waited` and `notified` are history.

### The RIB: `BgpTable`, `BgpRib`

A prefix is the sequence of its bits and names its node; `NodeGet`, `UnlockNode`
(with `NodeDelete` behind it) and `RouteNext` are functions from tree to tree. `refs`
are the reference counts of the three hash tables, bags of values, since
interned objects are told apart by value. The BGP thread takes a message
(`Receive`: attributes are parsed and interned), handles its prefixes one by one
(`Process`), and gives its references back (`UpdateDone`); a malformed message or a
lost connection starts the walk of `bgp_peer_info_delete()`, a node per `CloseStep`.
Between any two steps the core thread may find a node (`Match`), count up its
lock (`StoreLock`, apart from the load because nothing makes them one) or finish
with the packet (`PacketDone`).

- One address family, one bucket per peer; labels, route distinguishers and
  next-hop lookups are left out, ADD-PATH is in `BgpPeers`. Of attributes it
  matters which are equal: a path, a community, a number. Extended and large
  communities are handled like communities. `Reconcile` is the merge of two paths.
- A step of the BGP thread on the tree is atomic. When one falls between the core's
  load and store (`met`), either of the two `lock` updates may be the one that
  survives. A node freed in between takes the store into freed memory, which
  the model does not follow further. From then on (`raced`) `TreeSound` asks for the
  shape of the tree only. A state in which the assertion of `bgp_node_delete()`
  has failed (`abort`) is reachable, but only after such a race.
- `adj`, `lost`, `raced`, `looks` and `met` are history.

### The SQL cache: `SqlCache`

`heap` maps pointers to `struct db_cache`; `prev`, `next`, `lru_prev` and `lru_next`
are fields of the entries, and the list operations of `sql_common_m.c` are
operators on the heap, one per function. `Insert` is one walk of
`sql_cache_insert()` including the housekeeping at the head of the list by age.
If it has to purge, `Urgent` follows as an action of its own and, with memory
finished, `Retry`. `Poll`, `ReadClock` and `FlushEvent` are the main loop; a writer
is what it was given and ends (`WriterEnds`) at any later time. `PgTimes` and
`MyTimes` say how often each row reaches the primary or the backup database,
given where the connection, a statement or the commit fails.

- One counter stands for three; a key is its hash; flows that started before
  the timeslot are records with an age (`Flows`).
- Left out: classes, pro-rating, stitching, multi-value statements, dynamic
  tables, triggers, preprocessing, SQLite, calendar months, text of statements.
- `QueueExact`, `OneEntry` and `Conserved` exempt what an urgent purge with
  several pending entries leaves behind (`torn`, `scattered`), and
  rows that the recovery writes twice (`doubled`). After `torn` the model stops,
  because the queue holds pointers that the code follows blindly.

### The memory table: `ImtTable`

`Record` is `insert_accounting_structure()`: the element used last, the chain, an
element whose counters are zero, a new element, a new pool. A query is
a call of `process_query_data()`, by the plugin (process 0, which does nothing else
meanwhile) or by a child. Both take the same steps: `Visit` tests and reports an
element, `Reset` raises its flag or, in the plugin and for a whole key, zeroes it,
`Move` goes on, `End` turns to the next request. Between any two steps of a child
the plugin may insert, answer and erase.

- Extra primitives (BGP, NAT, MPLS, custom ones) are part of the key, but an element
  has pointers to them only, into the plugin's private heap (`acct.c:239`, `:395`). To
  a child they lead to what was there at its fork: `far` is the set of elements
  given a key since. Comparing one of those comes to any outcome, or follows a
  pointer to nothing and kills the child (`Lost`, `Outcomes`, `Visit`). The whole-key
  comparison gets so far only when the signature, which is shared, agrees (keys with
  one signature are left out); a query for everything (`all`) compares nothing.
  `WalkExact` therefore holds a child that compares only to the elements that had
  their key at its fork, in its second request as in its first.
- Bytes stand for bytes and packets. Classes, passwords, and queries that touch no
  counters are left out.
- Pools mapped after the fork of a child are not in its address space: a child
  that follows a pointer there is killed.
- `Conserved` exempts keys whose element changed between a child's report and its
  reset (`raced`). `OneEntry` and, for whole keys, `WalkExact` hold until an element
  in use has its counters at zero (`holed`): such an element is given to any key
  that passes, and the key may have another one further down.

### The packet path: `IpFrag`, `IpFlow`, `Conntrack`, `PacketPath`

Each table is one record, and a handler that prunes, searches, recycles and
creates is a composition of operators on it, in the order of the code. A packet
is its tuple, TCP flags and sequence number, length, whether it has payload,
the class its payload reveals and the port it announces: pattern matching and
the text of FTP, SIP and RTSP are reduced to their outcome. Of a first
fragment's transport header the ports alone are kept for those that follow: these
show the flow table a sequence number and flags read from their payload
(`FragBytes`). What a helper did not find in an announcement is zero and
matches anything (`Fits`). The IPv6 halves are the same code on other types; link layers and
tunnels keep no state across packets.

### The collector: `Templates`, `XflowStatus`, `Collector`

An exporter sends datagrams, sequences of sets, that the network delivers, loses,
delays or doubles. `Collector` takes a datagram set by set and stops where the
code does. The file of templates is a sequence of lines, one of which can be
cut short by a full disk; a crash can fall between the truncation and the
write of a line. A template is its type, the length of its known fixed fields
(`fix`) and of those it does not know (`ext`), whether it has fields of variable length
(`vlen`), and its scope; options are about sampling. `insert_opt_template()` swaps the
bytes of `ext` a second time and counts a variable field as 65535 (`OptionsEntry`,
`Swapped`), so that options with such fields have a wrong length. A
template without fields has length 0, with which a set is read for ever
(`Endless`): the daemon is gone until it is restarted. Padding as long as the shortest
record is read as records. Left out: the decoding of single fields, options about classes,
`disable_opt_scope_check`, NetFlow v1 to v8, sFlow.

- `FreshOrNone` exempts keys that change between data and options, which
  `update_template_in_file()` looks up by type, and files with a cut line, where
  it and `delete_line_from_file()` count differently.
- `LostOnlyAfterPadding` exempts options whose length the code gets wrong
  (`Counted`): their records are passed over without any padding.
- `JudgedRight` speaks of datagrams after one that was read to its end: what
  aborts a datagram leaves the count of records short. Nor does it speak of a gap
  of `SeqWrap` numbers or more, which a number that wraps cannot show.
- `CollectorAssumption` types the datagrams (`FlowSetType`) and tells exporters apart by
  address and source id, as `search_status_table()` does. Two that differ in the protocol
  version alone would share an entry.

## 3. Runs

| Run | Instance | Shows |
|---|---|---|
| `ring_reader` | 3 slots, sequence numbers 0..3, 4 commits: the core laps the plugin; immediate and sampled-out buffers, a doorbell socket for one datagram, timeouts | `TypeOK`, `SleepArmed`, `WholeOrNothing`, `TakesInOrder` (= `RewindsOneAtMost`, `MatchMeansNext`), `SignalledIsRead` (liveness) |
| `imt_reader` | 2 slots, 3 commits, 4 records, a socket for 2 datagrams, SIGINT at any step of a commit | `ImtChannelSound` (= `ImtTypeOK`, `ImtExact`, `ImtAlarmIsReal`), `ImtGapCounted`, `ImtShutdownFlushed` |
| `pcache` | 2 buckets, 2 scratch nodes (the second lies past the area), 3 timeslots, 4 records, late and early stamps, two classes, 1 writer | `CacheSound` (= `TypeOK`, `QueueIsCache`, `OneEntryPerKey`, `PendingFits`), `WritersBounded`, `Conserved`, also for class accumulators |
| `pcache_drain` | both ends accounted (`sum_host`), room for all, startup delay | `Drains` (liveness), `ImplementsLedger` (refinement) |
| `sql_cache` | 2 buckets, 2 further entries, queue of 3, 3 keys, 4 records, 1 writer, 3 configurations of database, backup and delay | `CacheSound` (= `TypeOK`, `ListsSound`, `LruSorted`), `QueueSound` (= `QueueExact`, `OneEntry`), `Conserved`, `NotEarly` |
| `imt_table` | 2 buckets of 2 keys, 2 pools of 1 element, 4 records, 2 of 7 queries, 1 child | `TableSound` (= `TypeOK`, `Chained`, `LruReachable`, `OneEntry`), `Conserved`, `WalkExact` |
| `packet_path` | 3 keys of fragments on 3 nodes, 3 conversations on 2 nodes, 1 expectation, with or without the port it is for, 4 packets within 5 seconds, failing allocations | `TablesSound` (= `FragTypeOK`, `FragAccounted`, `LruSorted`, `StaleRootAfterSkip`, `FlowAccounted`, `CtBounded`), `OwnFragments` (= `OwnPorts`, `OwnBytes`), `RoomKept` (= `RefusedOnlyFull`, `RefusedOnlyBusy`), `ClassesEarned` (= `GrantedByControl`, `ClassForgotten`), `FlowsExact` (= `CountedOnce`, `MovedOnce`) |
| `collector` | 2 sources of an exporter, 3 datagrams around the wrap of the sequence number, 2 mishaps, a status table of 4, empty templates and options with an unknown field | `TemplatesKept` (= `FreshOrNone`, `OneLineEach`), `LostOnlyAfterPadding`, `JudgedRight`, `RateLatest`, `StatusSound` (= `TypeOK`, `StatusAccounted`) |
| `thread_pool` | 2 workers, 3 callers, 4 jobs, one endless, a spurious wakeup | `Exclusive`, `OnceEach`, `NobodyHangs` (= `Served`, `Allocates`; liveness) |
| `bgp_peers` | 3 slots, 4 routers (one not admitted), 3 connections, 2 bursts out of all kinds of messages, one of length 0 among them, one tick beyond the hold time | `PeersSound` (= `TypeOK`, `OnePerPeer`, `BatchBound`), `RoutesOwned`, `Watched`, `BoundedWait` |
| `bgp_rib` | 2 peers in one bucket, 5 prefixes that nest and branch, 4 of 6 messages, any number of closes, 1 lookup | `RibIsAdj`, `RefsExact`, `TreeSound` |
| `bgp_segments` | 1 slot, well-formed messages only | **violation** of `Reassembled`: a header cut at the start of the buffer closes the session |

A property that is followed by its parts is their conjunction; each part is a
definition of its own, and each has a mutant that breaks it (`ThreadPool`'s
`TypeOK` is not run because it is part of `PoolInv`, which is proved).

**Why the bounds are enough.** The ring instances have fewer slots than commits, so
that slots are reused, and so few sequence numbers that they wrap; one datagram fills
the socket. The cache instance holds three entries, a fourth if the node past its area
is good, fewer than the rows that can be in use, with keys that collide; the queue can
be entirely pending, entirely due, or mixed. In the SQL cache a key collides with
another, entries can be retired and reused within the time simulated, and the queue
fills. The memory table has room for two elements beyond its buckets, so that a pool
is mapped while a child walks, an element passes from one bucket's chain to the
other's after an erase, and memory runs out; elements at zero come from resets there.
The packet tables are smaller than the number of keys and time goes beyond every lifetime; allocations of the fragment table
fail where the flow table takes no part (`NodeAllocated`), and a fragment of one key
alone meets the flow table (`MixedKeys`). The collector sees a redefinition, a restart
and a use of the template, in any order. The pool has more callers than workers and
more jobs than callers. The BGP instance has a table that fills and empties, a router
that comes back before and after its session is stale, descriptors handed out again,
and bucket counts small enough for two descriptors to share buckets. In the RIB two
peers share a node, an attribute and a bucket; nodes are leaves, inner nodes with and
without routes, and the default route; four messages suffice for an object to be
shared, replaced, given back and made anew. Bounds (`MaxRecords`, `MaxCommits`,
`MaxConns`, `MaxSends`, `MaxClock`, `MaxSlot`, `MaxSpurious`, `MaxNow`, `MaxTime`,
`MaxPackets`, `MaxDatagrams`, `MaxMishaps`, `MaxQueries`, `MaxUpdates`, `MaxLookups`)
only limit what the environment does. Because of these bounds behaviours end, hence
`CHECK_DEADLOCK FALSE`; that nobody hangs is stated by liveness properties instead.

**Fairness.** `RingReader`: the plugin is a process the kernel schedules, and the core
finishes a commit it has begun; nothing makes the core begin one. `PCache`: the plugin
goes on with what it started, time passes, and the refresh deadline is served again
and again. The Kafka, AMQP and MongoDB plugins serve it after every timeout of
`poll()`. The print plugin compares an unassigned variable after a timeout and serves
the deadline for certain only when a buffer arrives: for it `Drains` presupposes
traffic. (`Drains` is run with a scratch area that does not fill, so nothing is
written past it.) Strong fairness is used because records keep interrupting the idle
state. `ThreadPool`: each thread is scheduled, and a free mutex that stays free is
taken; jobs that are not endless return. The other modules state safety only: packets,
datagrams, records and queries are handled to their end within a step or bounded
steps; `ImtShutdownFlushed` says in which state the plugin must be, not that it gets
anywhere. In `BgpPeers` `BoundedWait` is a safety form of liveness: a readable peer
waits for fewer reads than the searched part of the table has slots, as long as that
part keeps its size and the reads end (`ReadForEver` does not). When `max_peers_idx`
changes, the same index starts the search elsewhere (`rr % max_idx`), so the count
begins anew; a bound over all such changes does not hold: with five slots one round
can shrink the searched part from five to three (a router displaces its stale
connection in the last slot while another connection closes), and under endless churn
of this kind the round-robin may pass a peer by again and again (`bgp/bgp.c:574`
promises fairness without a bound).

## 4. Proofs

The assumptions are the named `ASSUME`s of the component modules, which TLC
evaluates in the runs, and what a theorem's own `ASSUME` states. TLC had
checked every property on the instance of a run before it was proved.

### The channel: `ChannelProofs`

For every ring size, record size, traffic, socket capacity and number of laps:

- `ReaderTypeCorrect`: `Spec => []TypeOK`. The invariant adds `SlotInRing`: `rslot`
  may be one past the end only before the wrap test, and wherever the plugin
  loads from the ring it is a slot. In particular sequence numbers stay below
  `MAX_SEQNUM` on both sides.
- `SleepIsArmed`: assuming that SIGINT is not delivered between lowering `wakeup`
  and ringing. The core is the only one to lower `wakeup`, and then it is at
  `"signal"` until the datagram is in the socket, or is refused by a socket that
  holds others and so cannot block the plugin; the plugin goes to `"poll"` only
  through the store that raises `wakeup`.
- `BuffersAreWhole` (`WholeOrNothing`): assuming a ring of more than one slot and SIGINT
  in `{"fill", "seq"}`, that is between two buffers or while one is set up. With one
  slot the core protects the slot it has just committed.
- `ImtChannelIsSound` (`ImtChannelSound`): without assumptions, SIGINT may come at any
  step. With one slot every buffer is reused under its doorbell (`ioverrun`), and
  SIGINT within a commit sets `icut`.

`CoreSlots` is the part both readers share: a slot is *sealed*
from the store of its sequence number until the core comes round to protect it,
and a sealed slot holds the commit it names, or announces no record yet; which
slots are unused in the first lap; and `last_buf_off` points to a sealed slot. The
print plugin's invariant `WholeInv` adds what it expects (`Numbered`: the number
after the last buffer's, then that buffer's own) and, while it copies, that the
slot it reads from is still sealed (`Reading`). The memory plugin has a datagram
per buffer, so `InPace` can count: each commit was taken, is in the plugin's hands,
is in the socket, or is about to be rung, in this order. Both hold until the core
laps the plugin (`overrun`).

`BuffersInOrder` (`TakesInOrder`) and `GapsAreCounted` (`ImtGapCounted`), under the
condition of `BuffersAreWhole` on SIGINT but for a ring of any size, go on where an
overrun ends those: nothing is known of the content of a slot any more, but of its age
it is.

- `CoreLatest`, about the core alone, says which commit each slot was last used
  for: commits go round the ring one by one (`Turning`), so a slot is never more
  than a lap old (`Dated`), sealed or not, and `last_buf_off` is one buffer behind at
  most (`Trailing`).
- From this, `NumberTells`: a slot whose number is the one after commit `a`'s is of
  commit `a + 1`, or of one a multiple of `MAX_SEQNUM` later. It needs
  `MAX_SEQNUM > NSlots`, which `RingAssumption` states.
- The print plugin's `OrderInv` derives its place in the ring and the number it
  expects from the commit it took last (`Counted`, `Placed`), but for a resync that
  caught a slot under protection: then it expects 0, and the core is about a lap
  ahead (`Lost`). The memory plugin's `GapInv` says that what it copies is less
  than a lap behind what it took before (`Fresh`).

Both properties were restated when the proof of their first form failed. A slot
read while the core has it under protection shows `seq` -1, and the plugin then
expects 0: if a buffer numbered 0 is the next it meets, it is taken as following
the previous one whatever is between. TLC shows it with `PipeCap = 1` in
`ImtReader.cfg` when `Aligned` is dropped. `InStep` and `Aligned` exempt this case, and
`Unseen` a core that is a whole multiple ahead.

### The cache: `TableFacts`, `PCacheProofs`

For every number of buckets, scratch nodes and writers, hash function, class
assignment and record:

- `WritersAreBounded`.
- `CacheIsSound`, in every state but those after the node past the scratch area was
  written over memory in use, in which `pc` is `"astray"` and nothing is left to be
  claimed. The invariant `CacheInv` describes the chains by phase: filled
  (the queue is exactly what is in use, each once, in its bucket, one per key and
  timeslot), marked by a purge, flushed. That the entries a purge sets aside find
  room when they are put back (`PendingFits`, the hazard at `plugin_common.c:562`) needs a
  count: `RoomFor` says that nodes used, plus entries set aside, minus one for every
  empty bucket among those they hash to, do not exceed the nodes that are granted,
  the one past the end included.
- `LedgerImplemented`: `PCache` implements `Ledger`, assuming there are no classes
  (`Classes = {0}`) and SIGINT comes outside of purges. With classes,
  `FinishedEntries` finds an entry of class zero committed in the meantime: bytes
  move out of a row that is being settled, which the ledger forbids. `Settling` says
  which entries are committed when, and that those of one row are all due or none,
  so that a row leaves as a whole.
- `AllConserved` (`Conserved`, with classes): assuming `~SumHosts` and SIGINT between
  records. Beside `Settling` it needs `Accumulated`, `Traces` and `Backed` (what an
  accumulator counts is in an entry of class zero, of a timeslot the accumulator
  spans), `Carried` (what the record under way takes from it is there to be taken),
  and `Balanced` (the sum with the record under way). With `SumHosts` the second
  insertion of a record may meet the accumulator the first one left.

`TableFacts` proves the facts about sums over finite sets (`SumStep`, `SumRemove`,
`SumSplit`, `SumRenumbered`, ...) that the accounts need. The induction behind them is
over sets: `NatSetInduction` and `FiniteInduction` state it for a *set* that is closed
under the step, which the provers can instantiate, unlike the library's rules.

### The pool: `ThreadPoolProofs`

For every number of workers, callers and jobs, `PoolInvariant`: `Spec => []PoolInv`,
from which `PoolExclusive` and `PoolOnceEach` follow. Neither `Exclusive` nor
`OnceEach` is inductive. `PoolInv` adds `GoFollows` (how `go` follows a worker's
position, so that a worker on its way back is not taken for idle), `Bootstrap`
(nobody calls before the pool exists, and the worker being created belongs to the
creator alone), and `OnePlace` (a job on its way is with one caller or one worker,
never two).

### The BGP thread: `BgpPeersProofs`

For every number of slots, buckets, routers, descriptors and messages, with no
assumption but `BgpAssumption`: `PeersAreSound`, `RoutesAreOwned`, `AllWatched` and
`WaitIsBounded`, from one invariant `PeersInv`. Its heart is `Table(peers, rib, bkp)`,
preserved by closing a slot, by giving one away and by parsing: open slots have
different descriptors, closed slots are empty, the watched set is their descriptors,
and every RIB entry is of the established session in its slot *and* in the bucket its
descriptor selects; without the bucket the routes of a session whose slot is closed
could not be found through `Modulo`. `Batches` counts the connections admitted in an
interval against what is left of the batch, and `Waiting` is the ranking behind
`BoundedWait`, whose waits are counted in reads that end: a slot at distance k from
the start of the search has seen `max_idx - 1 - k` reads at most. What
`bgp_parse_msg()` does to a burst of any length is proved by induction over a
recursive function (`ParseResult`).

The attempt to prove `BoundedWait` as it was first stated, with the size of the
whole table for a bound and over any change of `max_peers_idx`, failed for the
reason given in section 3; the property was restated.

### The packet path: `PacketPathProofs`

For every number of nodes, buckets, keys and packets, every hash function, every
set of lifetimes and intervals and a `malloc()` that fails when it likes, with no
assumption but those of the modules (`CaptureAssumption`, `FragAssumption`,
`CtAssumption`, `FlowAssumption`, `PathAssumption`): `PathTablesAreSound`,
`FragmentsAreOwn`, `RoomIsKept`, `ClassesAreEarned`, `FlowsAreExact`. They follow from
`PathInvariant`, whose three parts are about one table each and meet in the packet that
passes from the first to the second. The bounds of the runs (`MaxTime`, `MaxPackets`,
`MixedKeys`, `NodeAllocated`) are in the specification; the proofs use none of them.

- `FragInv`. `Filed` (`TableFacts`) says that buckets and list hold the same nodes,
  each once and in the bucket of its key; `Ascending` that the list is in the order of
  deadlines, without which a prune that stops at the first live node leaves dead ones.
  `FragHonest` is what makes `OwnPorts` and `OwnBytes` true: while the deadline of a
  node has not passed, its ports are those of the datagram on the way, and the bytes
  put by are of that datagram, except the ports in a node that was recycled
  (`carried`): there (`ip_frag.c:217`) the code gives a fragment ports of another
  datagram, so `FragmentsAreOwn` does not say that ports are own whatever a node held
  before. `FragTimes` keeps deadlines after the last emergency prune, hence
  `RefusedOnlyFull`. That a node is neither valid nor expired in the second of its
  deadline needs the comparison of lines 88 and 126 to be exact.
- `FlowInv`. `Normal` keys make both directions meet in one node. `TableTrue` ties the
  table to the history: the time in a node is that of the direction's last packet, or
  zero if that one is older than some lifetime, and a direction without a node
  is that old. `FlagsOK` is what `is_expired_uni()` relies on without saying so: a
  direction has no flags, or one of SYN, FIN and RST; with ACK alone it would never
  expire. `TableOwes` is the account behind `MovedOnce`: what a node has gathered
  does not exceed what was accounted or put by and not handed over since.
  A packet between two equal ends has one direction only (`Mirrored`).
- `CtInv`. An announcement is used at most once, which counting cannot show when
  two announcements are alike; `Backed` names for each grant and for each expectation
  still in the table the announcement it came from, both injectively. `CtBounded` needs
  `Len(ct) + ctLeft <= CtNodes + 1`: the first expectation of an empty table is free.

### The memory table: `ImtTableProofs`

For every number of buckets, size and number of pools, hash function, children,
records and queries, with no assumption but `ImtTableAssumption`, and using none of
the bounds of the run: `TableIsSound`, `WalksAreExact`, `BytesConserved`.

- Chains are pointers, and the models follow them by a recursive function on places
  (`ChainIn`). `IsChain` describes the same sequence without recursion: it starts at
  the bucket, each element's `next` is the one after it, the last has none, and places
  ascend, because an element is only ever linked behind those taken from the pools
  before it. `ChainIs` shows that such a sequence *is* the chain, and `ChainsKept`,
  `ChainExtended` and `OnOnce` what a new link does to it. That places ascend is also
  why a chain has no cycle and a walk ends.
- `TableInv` has three parts beside the types. `Memory`: an element with a key is
  in the chain of its key's bucket, chains are disjoint, pools are used up in
  order. `Lone`, until an element in use is at zero (`holed`): one element per key.
  `Calls`: a query stands on an element of a pool it has mapped, and only a
  child has elements it cannot compare (`Heap`). `TableSound` follows;
  none of its parts is inductive without `Memory`.
- `Walks`: of a query whose table was not erased since it began, what it has
  reported lies `Behind` it; what it could see when it began and lies behind it is
  reported, and the rest can still be seen and is ahead; none of it is `far`, unless
  nothing is compared. The plugin only links
  new elements at the end, so nothing that is ahead moves behind.
- `Balance` is `Conserved`. `ShownIs` turns what can be seen of a key into a sum over
  all places, and `ShownChanges` says how it changes when one place does, which is
  all that any step but an erase does to it.

### The collector: `CollectorProofs`

For every number of exporters, set of datagrams, size of the status table, wrap of the
sequence number and number of mishaps, with no assumption but `StatusAssumption` and
`CollectorAssumption`, and using none of the bounds of the run: `StatusIsSound`,
`TemplatesAreKept`, `RecordsAreRead`, `VerdictsAreRight`, `RatesAreLatest`. They follow from
`CollectorInv`:

- `FileIsCache`. A line of the file is of a template in the cache and, unless the key was
  retyped, of its last version. That is what a restart needs (`LoadedAgrees`), and
  `StepsKeep` shows it for *every* state the file goes through while a template is saved,
  so a crash may fall between any two of them. It makes the line deleted the right one:
  with no line cut short and one line of each key, the number counted by
  `update_template_in_file()` is the place of the line.
- `Lengths`. The length of an entry that no padding spoilt is that of its fixed fields
  or, with a field of variable length, zero or one (`Fits`): none is above the length
  of a set that holds a record, so the set is read, and without padding it leaves one
  of these again. Options are read by the length `insert_opt_template()` computed;
  `RecordsAreRead` is about them where that one is right (`Counted`).
- `StatusOK` writes the account as a sum over the table (`Charge`), which a new entry or
  sampler raises by one.
- `RatesOK`: the samplers of an entry are those announced for it that found room, each
  once, with their last rates.
- `Follows`: after a datagram read to its end, the number expected of an exporter, entry
  and increment together, is the one that follows it, modulo the wrap. That the
  verdict then tells the next datagram from any other less than a wrap away is
  `NearRemainders` and `AddRemainder` (`TableFacts`).

`SetStep` says what one set of a datagram may do, and is carried over a datagram of any
length by induction (`NatSetInduction`) over the recursive function in `AllRead`;
`ProcessKeeps` is the whole handler, `StartedIs` a start after a crash or a restart.

`JudgedRight` was first stated for gaps of any size. The proof failed: a datagram
exactly `SeqWrap` numbers ahead is counted good. No run is long enough to show it, the
numbers of the code being 32 bits wide; the property now says so.

### Only model-checked

Liveness (`SignalledIsRead`, `Drains`, `NobodyHangs`) needs fairness and ENABLED.
`ImtShutdownFlushed` is an invariant without a proof yet: it needs what `CoreSlots`
says of slots, but with SIGINT at any step of a commit. The RIB (`RibIsAdj`,
`RefsExact`, `TreeSound`) is built on a RECURSIVE operator that TLC needs. `SqlCache`
(`CacheSound`, `QueueSound`, `Conserved`) has no proofs yet. What `Templates` and
`XflowStatus` say of the bytes of a set (`RecordLen`, `SetLen`) is used as defined;
that it is what exporters write is an assumption of the model.

## 5. What the runs say about the code

Two statements of comments are contradicted. Segmented messages are reassembled
(`bgp_msg.c:58`, against the test at line 51): the run `bgp_segments` and `findings`
show it. An entry of the SQL cache in use always sits on the queue
(`sql_common.c:573`): after an urgent purge line 937 copies back `sizeof` a pointer,
that is one pending entry; the others are on no queue and are never written.
`SqlCache` stops there (`torn`); `InuseQueued` in the place of `QueueSound` in
`SqlCache.cfg` makes TLC print such a behaviour.
What the properties guard against is in `hazards`. Behaviour that was met while
modelling and that a maintainer would want to know of:

- channel: a half-published slot header can be accepted, and the buffer is then
  taken as empty (`plugin_hooks.c:454`); the buffer committed at shutdown can stay
  unread (`print_plugin.c:194`), at the latest when the plugins are sent SIGINT two
  seconds later (`signals.c:142`); a doorbell for a buffer already taken makes the
  plugin report missing data and take it again;
- RIB: the core thread's lookup takes a lock without synchronisation and nobody
  gives it back. Nodes that were looked up stay for ever; when the BGP thread adds
  or deletes a route at the same moment a lock can be lost, after which the
  assertion that a node without a lock has no routes fails (`bgp_table.c:368`).
  The route found is not protected at all. Malformed messages and
  attributes that come twice keep references (`lost`);
- BGP: a message of length 0 is accepted, and the thread that parses it never
  returns (`bgp_msg.c:48`, `:59`);
- aggregation cache: the scratch area is used from its second node on and one node
  beyond its end, when the cache is full (`plugin_common.c:720`); the urgent purge can
  free nothing and recurse (`plugin_common.c:542`); class accumulators can be counted
  twice after it;
- SQL: rows of a failed statement are written to the backup twice or not at
  all, depending on the database;
- memory table: what arrives between a child's report and its reset is lost,
  two resetting queries report the same bytes, a child is killed by a pool
  mapped after its fork; it compares keys with extra primitives through pointers
  into its own heap, so that it misses elements made since its fork, reports wrong ones
  or is killed (`acct.c:93`, `:239`, `server.c:266`); `lock` is never taken back, flows are
  not reset;
- fragments: a recycled node keeps `got_first` and the ports of its previous
  datagram; a prune that empties the table leaves a pointer to a freed node;
- templates: one that changes type, or a cut line, lets the file bring an old
  version back after a restart; options with a field that is not known, or one of
  variable length, have a wrong length and their records are passed over
  (`nfv9_template.c:1034`); a template without fields, once data come for it, stops
  the daemon (`nfacctd.c:1446`, `:1590`).

Hazards beside those of `PROJECT.json`, in the code but outside what a property
states:

| Where | What | In the models |
|---|---|---|
| `plugin_hooks.c:478` | a full doorbell socket loses the datagram after `wakeup` was lowered | `WritePipe`; under `SleepArmed` |
| `plugin_common.c:274`, `:280` | accumulators gathered over two timeslots exceed the class-zero entry; those taken before an urgent purge end up in neither class | exempt from `Conserved` (`mixed`) |
| `plugin_common.c:780`, `sql_common.c:1066` | SIGINT in the middle of a purge or insertion: entries written twice or not at all | the runs deliver it between records (`ExitWindow`) |
| `plugin_common.c:562` | pending entries are put back without a search | `CacheSound` |
| `plugin_common.c:720` | the last node granted lies past the scratch area | `WriteBeyond`; nothing is claimed after it |
| `plugin_common.c:879` | with monthly history a record stamped at the very end of a month stays in the month that ended | timeslots have a fixed length |
| `print_plugin.c:215` | `timeout` is compared but never assigned: whether a timeout purges is left to the build | both outcomes; see *Fairness* |
| `util.c:2493` | `CHLD_WARNING` is never set, although CONFIG-KEYS sends the last writer allowed to recovery | the limit as the code has it |
| `bgp/bgp_msg.c:59` | lengths below 19 are accepted; with 0 the loop does not advance | `ReadForEver`; `"BADHDR"` follows lengths 1 to 18 |
| `bgp/bgp.c:299` | with one of the two batch keys `bp_batch` is read uninitialised | excluded by `BgpAssumption` |
| `bgp/bgp.c:493` | a refused duplicate keeps its place in the batch | `BatchBound` |
| `bgp/bgp.c:513`, `:545` | a full table refuses the router whose stale session fills it; no hold timer | reachable in `BgpPeers`, no property forbids it |
| `bgp/bgp_table.c:254` | a node that was looked up is never unlocked | `looks`; under `TreeSound` |
| `bgp/bgp_util.c:620` | an AS4_PATH without an AS_PATH is merged with nothing | excluded by `RibAssumption` |
| `bgp/bgp_msg.c:850` | ORIGIN is stored into `local_pref` | the MED stands for numbers |
| `thread_pool.c:139` | the creator looks at `go` before or after the new thread lowered it | `Allocates` |
| `thread_pool.c:182` | `deallocate_thread_pool()` frees the wrong worker | no caller |
| `ip_frag.c:126`, `:146` | in the second of its deadline a node is neither valid nor expired; a spent budget also bars recycling | `FragAccounted`, `RefusedOnlyFull` |
| `ip_frag.c:239` | the prune stops at the first node that is not stale | `LruSorted` |
| `conntrack.c:430` | a used expectation does not give its node back to the budget | `CtBounded` |
| `ip_flow.c:190`, `:339`; `classifier.c:214`; `nl.c:190` | a full table, equal ports, inherited classes, sequence numbers and flags read from payload | `RefusedOnlyBusy`, `FlowAccounted`, `ClassForgotten`, `CountedOnce` |
| `nfv9_template.c:281`, `:324` | a cut line is not counted; a template that changes type keeps its old line | exempt from `FreshOrNone` |
| `nfv9_template.c:1034` | the length of an unknown field is byte-swapped twice in options templates | `OptionsEntry`; exempt from `LostOnlyAfterPadding` (`Counted`) |
| `nfv9_template.c:114`, `:789` | a template without fields has length 0, and a set is read for ever | `Endless` crashes the daemon |
| `nfacctd.c:1334`; `xflow_status.c:96` | an abandoned datagram leaves its count short; number 0 stands for none | exempt from, and under, `JudgedRight` |
| `xflow_status.c:63` | exporters, their entries for all sources and samplers compete for one budget | `StatusAccounted` |
| `nfacctd.c:1482` | a full status table: options data go through a null pointer | `OptionsData` crashes the daemon |
| `util.c:2295` | the name of the copied file overflows its buffer by one | no buffers |
| `sql_common.c:368`, `:446`, `:586`, `:940` | pending entries behind committed ones; a purge beyond the limit of writers; the edge of a timeslot; a full pending queue | `OneEntry`, `Conserved`, `QueueExact` |
| `sql_common.c:540` | `sql_cache_search()` accepts a later timeslot | classes are left out |
| `sql_common.c:945` | memory finished under a startup delay: a loop that forks writers | `Urgent`, `Retry` |
| `pgsql_plugin.c:572`, `:877`; `mysql_plugin.c:405` | rows written twice to the backup, or lost; the backup connection goes to `sql_host` | `PgTimes`, `MyTimes`; exempt from `Conserved` |
| `memory.c:55`, `:122` | pools handed out again after an erase; pools a child has not mapped | `Chained`, `LruReachable`; `Onward` |
| `acct.c:390`, `:366` | a reset flag left on a free element; memory finished until the next erase | exempt from, and under, `Conserved` |
| `acct.c:239`, `:395`; `server.c:266`, `:379` | extra primitives on the plugin's heap, compared by a child | `Lost`, `Outcomes`; exempt from, and under, `WalkExact` |
| `acct.c:166`, `:494`; `imt_plugin.c:272` | accumulators against a flagged element; flows that are not reset; `lock` never taken back | left out; the lock is as in the code |

## 6. Not modelled

- BMP, telemetry: the loops are those of `BgpPeers`, BMP's tables those of `BgpRib`.
  What is their own is the parsing of messages.
- Table dumps, AMQP, Kafka, MongoDB, ZeroMQ, tee: calls into client libraries
  and sockets around the caches that are modelled.
- nfprobe, sfprobe, isisd, nDPI: derived from other projects or vendored.
- Maps, configuration, packet handlers, field decoding, link layers, the client:
  parsing and conversion, field by field, with little or no state across
  records. This is most of the source by lines.

## 7. Plan

Theorems next: `ListsSound` and `QueueExact` of `SqlCache`, whose chains are doubly linked
and not in the order of places, so that the facts of `ImtTableProofs` do not carry over.
`BgpTable` declares a recursive operator for TLC; the tree can be reasoned about once
`NodeDelete` is written as a recursive function.

Models after that: next-hop and default lookups in the RIB; UDP peers of the
telemetry daemon that expire; `SqlCache` shown to implement `Ledger` like `PCache`;
class accumulators in `SqlCache` and `ImtTable`.
