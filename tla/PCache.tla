------------------------------- MODULE PCache -------------------------------
(***************************************************************************)
(* The aggregation cache shared by the print, AMQP, Kafka and MongoDB      *)
(* plugins (plugin_common.c) with the writers it forks (dump_writers_* in  *)
(* util.c).                                                                *)
(*                                                                         *)
(* The plugin is one process.  Its steps are split where another actor     *)
(* can cut in: between the parts of a purge (SIGINT, a writer's exit) and  *)
(* between records.  A bucket's chain is the sequence of entries reached   *)
(* from the bucket along next; nodes of the scratch area are counted.      *)
(* Time is counted in timeslots.  The bytes counter stands for the three   *)
(* counters, which are treated alike.                                      *)
(***************************************************************************)
EXTENDS Integers, Sequences, FiniteSetsExt, Functions, Subsequences

CONSTANTS
  Buckets,        \* config.print_cache_entries buckets
  Hash(_),        \* P_cache_modulo(): the bucket of a key
  ScratchNodes,   \* sa.num nodes for conflict chains
  Hosts,          \* addresses; 0 is the zeroed address
  Flows,          \* <<src, dst>> of the records received
  Classes,        \* classes a record may carry; 0 is "unknown"
  SumHosts,       \* aggregate: sum_host, insert_func = P_sum_host_insert
  Sizes,          \* bytes of a record
  Delay,          \* startup delay, in timeslots
  Stamps,         \* timeslot of a record relative to the current one
  MaxWriters,     \* config.dump_max_writers
  ExitWindow,     \* control states at which SIGINT may be delivered
  MaxSlot,        \* bound: last timeslot
  MaxRecords      \* bound: records received

NoHost == 0

Keys == [src : Hosts, dst : Hosts, class : Classes]
Slots == 1 .. MaxSlot

\* what bytes are accounted to, whatever the class: a pair of addresses in a
\* timeslot
Pairs == IF SumHosts THEN Hosts \X {NoHost} ELSE Flows
Rows == Pairs \X Slots

(***************************************************************************)
(* Pending entries are re-inserted after a purge into the chains they came *)
(* from; for that a key's bucket must be a function of the key.            *)
(***************************************************************************)
ASSUME CacheAssumption ==
  /\ Buckets # {} /\ IsFiniteSet(Buckets)
  /\ \A k \in Keys : Hash(k) \in Buckets
  /\ ScratchNodes \in Nat /\ Delay \in Nat /\ MaxSlot \in Nat \ {0}
  /\ MaxWriters \in Nat \ {0} /\ MaxRecords \in Nat
  /\ NoHost \in Hosts /\ Flows \subseteq Hosts \X Hosts
  /\ 0 \in Classes /\ Classes \subseteq Nat
  /\ Sizes \subseteq Nat \ {0} /\ Stamps \subseteq Int
  /\ SumHosts \in BOOLEAN

VARIABLES
  pc,        \* idle, insert, safe, marked, forked, flushed, exited, astray
  urgent,    \* the purge under way is the one of safe_action
  rec,       \* prim_ptrs->data: the record being inserted
  calls,     \* calls of P_cache_insert() still to make for it
  chain,     \* bucket -> entries reached from it
  queue,     \* queries_queue: <<bucket, position>> of the entries in use
  container, \* pqq_container: entries set aside by P_cache_mark_flush()
  saUsed,    \* nodes of the scratch area taken since the last purge
  base,      \* basetime
  newBase,   \* new_basetime, 0 when not set
  acc,       \* flow -> bytes accumulated while it had no class
  fresh,     \* flow -> that accumulator was started after flushtime
  cls,       \* flow -> the class it was given, 0 before
  accSlots,  \* history: flow -> timeslots whose bytes are in its accumulator
  mixed,     \* history: an accumulator spans two timeslots or met an urgent purge
  listed,    \* pids in dump_writers.list
  alive,     \* writers still running
  fed,       \* history: bytes received, by row
  written,   \* history: bytes handed to a writer, by row
  lost,      \* history: bytes dropped, by row
  pendLost,  \* history: "Pending entries will be lost" was logged
  nrec       \* records received

cacheVars == <<chain, queue, container, saUsed>>
timeVars == <<base, newBase>>
classVars == <<acc, fresh, cls, accSlots, mixed>>
writerVars == <<listed, alive>>
ledgerVars == <<fed, written, lost, pendLost>>
vars == <<pc, urgent, rec, calls, cacheVars, timeVars, classVars, writerVars,
          ledgerVars, nrec>>

ZeroKey == [src |-> NoHost, dst |-> NoHost, class |-> 0]
FreeEntry == [valid |-> "free", key |-> ZeroKey, base |-> 0, bytes |-> 0]
NoRecord == [key |-> ZeroKey, base |-> 0, bytes |-> 0, ba |-> 0, ok |-> FALSE]
ZeroRows == [r \in Rows |-> 0]

Init ==
  /\ pc = "idle" /\ urgent = FALSE /\ rec = NoRecord /\ calls = << >>
  /\ chain = [b \in Buckets |-> <<FreeEntry>>]
  /\ queue = << >> /\ container = << >> /\ saUsed = 0
  /\ base = 1 /\ newBase = 0
  /\ acc = [f \in Flows |-> 0] /\ fresh = [f \in Flows |-> FALSE]
  /\ cls = [f \in Flows |-> 0]
  /\ accSlots = [f \in Flows |-> {}] /\ mixed = FALSE
  /\ listed = 0 /\ alive = 0
  /\ fed = ZeroRows /\ written = ZeroRows /\ lost = ZeroRows
  /\ pendLost = FALSE /\ nrec = 0

-----------------------------------------------------------------------------
RowOf(e) == <<<<e.key.src, e.key.dst>>, e.base>>

Places == {p \in Buckets \X (1 .. ScratchNodes + 1) : p[2] <= Len(chain[p[1]])}
EntryAt(p) == chain[p[1]][p[2]]
InUse == {p \in Places : EntryAt(p).valid = "inuse"}
Committed == {p \in Places : EntryAt(p).valid = "committed"}

\* bytes of row r in the entries at a set of places, and in a sequence of entries
BytesAt(P, r) == SumFunction([p \in {p \in P : RowOf(EntryAt(p)) = r} |-> EntryAt(p).bytes])
BytesIn(q, r) == SumFunction([i \in {i \in DOMAIN q : RowOf(q[i]) = r} |-> q[i].bytes])

(***************************************************************************)
(* The positions at which the walk along a chain ends: an entry of the     *)
(* same key and timeslot, or one that is not in use.                       *)
(***************************************************************************)
\* mutant: the timeslot is not compared
Matches_AnySlot(e, k, t) == e.key = k

Matches(e, k, t) == e.key = k /\ e.base = t

\* mutant: the walk only looks for a free entry
Stops_FreeOnly(c, k, t) == {i \in DOMAIN c : c[i].valid # "inuse"}

Stops(c, k, t) == {i \in DOMAIN c : c[i].valid # "inuse" \/ Matches(c[i], k, t)}

\* mutant: one node too many
NodeLeft_OffByOne == saUsed <= ScratchNodes

(***************************************************************************)
(* P_cache_attach_new_node() moves sa.ptr on before it returns it: node 0  *)
(* is never used, and the last one granted, number ScratchNodes, starts    *)
(* where the area ends.  What is written to it is undefined behaviour:     *)
(* either malloc() has left that much unused behind the area (it rounds    *)
(* large ones up to a page) and the node is as good as the others, or      *)
(* memory in use is overwritten (WriteBeyond).                             *)
(***************************************************************************)
NodeLeft == saUsed + 1 <= ScratchNodes
PastEnd == saUsed + 1 = ScratchNodes

\* P_cache_search(): an entry that matches is returned even if it is free
Found(c, k, t) ==
  Stops(c, k, t) # {} /\ Matches(c[Min(Stops(c, k, t))], k, t)

(***************************************************************************)
(* One call of insert_func.  P_sum_host_insert() clears the destination    *)
(* and calls P_cache_insert() twice, the second time with the destination  *)
(* it has put by as source.                                                *)
(***************************************************************************)
KeepSrc == -1
ClearDst(k) == IF SumHosts THEN [k EXCEPT !.dst = NoHost] ELSE k
InsertFunc(k) == IF SumHosts THEN <<KeepSrc, k.dst>> ELSE <<KeepSrc>>

(***************************************************************************)
(* The classifier, upstream of the channel: bytes of a flow without a      *)
(* class are accumulated; the record with which it gets its class carries  *)
(* the accumulator along (cst) and later ones carry nothing.               *)
(***************************************************************************)
HandleClassAccumulators(f, c, n, t) ==
  \/ /\ Classes = {0} /\ UNCHANGED classVars
  \/ /\ Classes # {0} /\ c = 0
     /\ acc' = [acc EXCEPT ![f] = @ + n]
     /\ fresh' = [fresh EXCEPT ![f] = acc[f] = 0 \/ @]
     /\ accSlots' = [accSlots EXCEPT ![f] = @ \cup {t}]
     /\ UNCHANGED <<cls, mixed>>
  \/ /\ c # 0
     /\ acc' = [acc EXCEPT ![f] = 0]
     /\ cls' = [cls EXCEPT ![f] = c]
     /\ accSlots' = [accSlots EXCEPT ![f] = {}]
     /\ mixed' = (mixed \/ (t \in accSlots[f] /\ accSlots[f] # {t}))
     /\ UNCHANGED fresh

(***************************************************************************)
(* A record of n bytes of flow f arrives from the channel.  Its ok tells   *)
(* whether cst.stamp is not older than flushtime.                          *)
(***************************************************************************)
Receive(f, c, n, t) ==
  /\ pc = "idle" /\ nrec < MaxRecords /\ t \in Slots
  /\ cls[f] # 0 => c = cls[f]
  /\ LET key == [src |-> f[1], dst |-> f[2], class |-> c]
         rows == IF SumHosts THEN {<<<<f[i], NoHost>>, t>> : i \in 1 .. 2}
                 ELSE {<<f, t>>}
     IN /\ rec' = [key |-> ClearDst(key), base |-> t, bytes |-> n,
                   ba |-> IF c = 0 THEN 0 ELSE acc[f], ok |-> fresh[f]]
        /\ calls' = InsertFunc(key)
        /\ fed' = [r \in Rows |-> IF r \in rows THEN fed[r] + n ELSE fed[r]]
  /\ HandleClassAccumulators(f, c, n, t)
  /\ pc' = "insert" /\ nrec' = nrec + 1
  /\ UNCHANGED <<urgent, cacheVars, timeVars, writerVars, written, lost,
                 pendLost>>

(***************************************************************************)
(* P_cache_insert().  Before a classified record is accounted, its         *)
(* accumulator is taken out of the entry of class zero, or discarded if    *)
(* there is no such entry or it is older than the last flush.              *)
(***************************************************************************)
ZeroClass(r) == [r.key EXCEPT !.class = 0]
HasAccumulator(r) == r.ba > 0 /\ r.key.class # 0

\* mutant: the accumulator may be older than the last flush
Subtractable_Unstamped(r) == Found(chain[Hash(ZeroClass(r))], ZeroClass(r), r.base)

Subtractable(r) ==
  r.ok /\ Found(chain[Hash(ZeroClass(r))], ZeroClass(r), r.base)

SubtractAccumulator(r) ==
  LET b == Hash(ZeroClass(r))
      i == Min(Stops(chain[b], ZeroClass(r), r.base))
  IN IF HasAccumulator(r) /\ Subtractable(r)
     THEN [chain EXCEPT ![b][i].bytes = @ - Min({@, r.ba})]
     ELSE chain

KeepAccumulator(r) ==
  [r EXCEPT !.ba = IF HasAccumulator(r) /\ ~Subtractable(r) THEN 0 ELSE @]

CurrentRecord ==
  IF Head(calls) = KeepSrc THEN rec ELSE [rec EXCEPT !.key.src = Head(calls)]

NewEntry(r) ==
  [valid |-> "inuse", key |-> r.key, base |-> r.base, bytes |-> r.bytes + r.ba]

Insert ==
  /\ pc = "insert"
  /\ LET r  == KeepAccumulator(CurrentRecord)
         ch == SubtractAccumulator(CurrentRecord)
         b  == Hash(r.key)
         S  == Stops(ch[b], r.key, r.base)
         i  == Min(S)
     IN /\ rec' = r
        /\ \/ /\ S # {} /\ ch[b][i].valid = "inuse"      \* summing counters
              /\ chain' = [ch EXCEPT ![b][i].bytes = @ + r.bytes + r.ba]
              /\ UNCHANGED <<queue, saUsed>>
           \/ /\ S # {} /\ ch[b][i].valid # "inuse"      \* free: (re)start it
              /\ chain' = [ch EXCEPT ![b][i] = NewEntry(r)]
              /\ queue' = Append(queue, <<b, i>>)
              /\ UNCHANGED saUsed
           \/ /\ S = {} /\ NodeLeft     \* attach a node
              /\ chain' = [ch EXCEPT ![b] = Append(@, NewEntry(r))]
              /\ queue' = Append(queue, <<b, Len(ch[b]) + 1>>)
              /\ saUsed' = saUsed + 1
  /\ calls' = Tail(calls)
  /\ pc' = IF Len(calls) = 1 THEN "idle" ELSE "insert"
  /\ UNCHANGED <<urgent, container, timeVars, classVars, writerVars,
                 ledgerVars, nrec>>

\* "Finished cache entries": goto safe_action
FinishedEntries ==
  /\ pc = "insert"
  /\ LET r  == KeepAccumulator(CurrentRecord)
         ch == SubtractAccumulator(CurrentRecord)
     IN /\ Stops(ch[Hash(r.key)], r.key, r.base) = {}
        /\ ~NodeLeft
        /\ rec' = r
        /\ chain' = ch
  /\ pc' = "safe"
  /\ UNCHANGED <<urgent, calls, queue, container, saUsed, timeVars, classVars,
                 writerVars, ledgerVars, nrec>>

-----------------------------------------------------------------------------
(***************************************************************************)
(* A purge, on a flush event (at any time between records: the refresh     *)
(* deadline) or from safe_action.  P_cache_mark_flush() commits the        *)
(* entries of timeslots that are due and sets the others aside.            *)
(***************************************************************************)
CommitBase == IF newBase # 0 THEN newBase ELSE base
Due(e) == CommitBase >= e.base + Delay

Pending == Kept(queue, {p \in Range(queue) : ~Due(EntryAt(p))})
SetAside == [i \in DOMAIN Pending |-> EntryAt(Pending[i])]

\* the queued cells at the places C are committed, the others freed
Revalidate(C) ==
  [b \in Buckets |-> [i \in DOMAIN chain[b] |->
     IF <<b, i>> \notin Range(queue) THEN chain[b][i]
     ELSE [chain[b][i] EXCEPT !.valid = IF <<b, i>> \in C THEN "committed"
                                        ELSE "free"]]]

\* mutant: entries set aside are committed as well
MarkFlush_CommitsAll ==
  /\ pc \in {"idle", "safe"}
  /\ urgent' = (pc = "safe")
  /\ container' = SetAside
  /\ chain' = Revalidate(Range(queue))
  /\ pc' = "marked"
  /\ UNCHANGED <<rec, calls, queue, saUsed, timeVars, classVars, writerVars,
                 ledgerVars, nrec>>

MarkFlush ==
  /\ pc \in {"idle", "safe"}
  /\ urgent' = (pc = "safe")
  /\ container' = SetAside
  /\ chain' = Revalidate({p \in Range(queue) : Due(EntryAt(p))})
  /\ pc' = "marked"
  /\ UNCHANGED <<rec, calls, queue, saUsed, timeVars, classVars, writerVars,
                 ledgerVars, nrec>>

(***************************************************************************)
(* dump_writers_count() forgets the writers that are gone; if the list is  *)
(* still full no writer is forked and the committed entries are dropped,   *)
(* as they are when fork() fails.  The child of a fork writes the          *)
(* committed entries.                                                      *)
(***************************************************************************)
\* mutant: the limit is passed by one
Alert_OffByOne == alive > MaxWriters

Alert == alive = MaxWriters

AddBytes(f, P) == [r \in Rows |-> f[r] + BytesAt(P, r)]

ForkWriter ==
  /\ pc = "marked"
  /\ \/ /\ ~Alert
        /\ alive' = alive + 1
        /\ listed' = alive + 1
        /\ written' = AddBytes(written, Committed)
        /\ UNCHANGED lost
     \/ /\ listed' = alive          \* CHLD_ALERT, or fork() returns -1
        /\ lost' = AddBytes(lost, Committed)
        /\ UNCHANGED <<alive, written>>
  /\ pc' = "forked"
  /\ UNCHANGED <<urgent, rec, calls, cacheVars, timeVars, classVars, fed,
                 pendLost, nrec>>

\* a writer's exit is reaped by the kernel (SIGCHLD is ignored)
WriterExit ==
  /\ alive > 0
  /\ alive' = alive - 1
  /\ UNCHANGED <<pc, urgent, rec, calls, cacheVars, timeVars, classVars, listed,
                 ledgerVars, nrec>>

(***************************************************************************)
(* P_cache_flush() frees every queued cell, unlinks it and rewinds the     *)
(* scratch area.  A flush event also takes a new flushtime and forgets     *)
(* new_basetime; safe_action does neither.                                 *)
(***************************************************************************)
\* mutant: the scratch area is not rewound
Flush_NoRewind ==
  /\ pc = "forked"
  /\ chain' = [b \in Buckets |->
                 IF <<b, 1>> \in Range(queue)
                 THEN <<[chain[b][1] EXCEPT !.valid = "free"]>>
                 ELSE chain[b]]
  /\ queue' = << >> /\ UNCHANGED saUsed
  /\ \/ /\ urgent /\ UNCHANGED <<newBase, fresh>>
        /\ mixed' = (mixed \/ rec.ba > 0 \/ \E f \in Flows : acc[f] > 0)
     \/ /\ ~urgent /\ newBase' = 0 /\ fresh' = [f \in Flows |-> FALSE]
        /\ UNCHANGED mixed
  /\ pc' = "flushed"
  /\ UNCHANGED <<urgent, rec, calls, container, base, acc, cls, accSlots,
                 writerVars, ledgerVars, nrec>>

\* mutant: new_basetime outlives the flush event
Flush_KeepsNewBase ==
  /\ pc = "forked"
  /\ chain' = [b \in Buckets |->
                 IF <<b, 1>> \in Range(queue)
                 THEN <<[chain[b][1] EXCEPT !.valid = "free"]>>
                 ELSE chain[b]]
  /\ queue' = << >> /\ saUsed' = 0
  /\ \/ /\ urgent /\ UNCHANGED <<newBase, fresh>>
        /\ mixed' = (mixed \/ rec.ba > 0 \/ \E f \in Flows : acc[f] > 0)
     \/ /\ ~urgent /\ UNCHANGED newBase /\ fresh' = [f \in Flows |-> FALSE]
        /\ UNCHANGED mixed
  /\ pc' = "flushed"
  /\ UNCHANGED <<urgent, rec, calls, container, base, acc, cls, accSlots,
                 writerVars, ledgerVars, nrec>>

Flush ==
  /\ pc = "forked"
  /\ chain' = [b \in Buckets |->
                 IF <<b, 1>> \in Range(queue)
                 THEN <<[chain[b][1] EXCEPT !.valid = "free"]>>
                 ELSE chain[b]]
  /\ queue' = << >> /\ saUsed' = 0
  /\ \/ /\ urgent /\ UNCHANGED <<newBase, fresh>>
        /\ mixed' = (mixed \/ rec.ba > 0 \/ \E f \in Flows : acc[f] > 0)
     \/ /\ ~urgent /\ newBase' = 0 /\ fresh' = [f \in Flows |-> FALSE]
        /\ UNCHANGED mixed
  /\ pc' = "flushed"
  /\ UNCHANGED <<urgent, rec, calls, container, base, acc, cls, accSlots,
                 writerVars, ledgerVars, nrec>>

(***************************************************************************)
(* P_cache_insert_pending(), one entry of the container at a time: the     *)
(* first cell of its chain that is not in use, or a new node.              *)
(***************************************************************************)
\* mutant: an entry put back at the head of a chain is not queued
InsertPending_NotQueued ==
  /\ pc = "flushed" /\ container # << >>
  /\ LET e == Head(container)
         b == Hash(e.key)
         F == {i \in DOMAIN chain[b] : chain[b][i].valid # "inuse"}
         n == [e EXCEPT !.valid = "inuse"]
     IN \/ /\ F # {}
           /\ chain' = [chain EXCEPT ![b] = Append(SubSeq(@, 1, Min(F) - 1), n)]
           /\ UNCHANGED queue
           /\ container' = Tail(container)
           /\ UNCHANGED <<saUsed, lost, pendLost>>
        \/ /\ F = {} /\ NodeLeft
           /\ chain' = [chain EXCEPT ![b] = Append(@, n)]
           /\ queue' = Append(queue, <<b, Len(chain[b]) + 1>>)
           /\ saUsed' = saUsed + 1
           /\ container' = Tail(container)
           /\ UNCHANGED <<lost, pendLost>>
        \/ /\ F = {} /\ ~NodeLeft
           /\ lost' = [r \in Rows |-> lost[r] + BytesIn(container, r)]
           /\ pendLost' = TRUE
           /\ container' = << >>
           /\ UNCHANGED <<chain, queue, saUsed>>
  /\ UNCHANGED <<pc, urgent, rec, calls, timeVars, classVars, writerVars, fed,
                 written, nrec>>

InsertPending ==
  /\ pc = "flushed" /\ container # << >>
  /\ LET e == Head(container)
         b == Hash(e.key)
         F == {i \in DOMAIN chain[b] : chain[b][i].valid # "inuse"}
         n == [e EXCEPT !.valid = "inuse"]
     IN \/ /\ F # {}
           /\ chain' = [chain EXCEPT ![b] = Append(SubSeq(@, 1, Min(F) - 1), n)]
           /\ queue' = Append(queue, <<b, Min(F)>>)
           /\ container' = Tail(container)
           /\ UNCHANGED <<saUsed, lost, pendLost>>
        \/ /\ F = {} /\ NodeLeft
           /\ chain' = [chain EXCEPT ![b] = Append(@, n)]
           /\ queue' = Append(queue, <<b, Len(chain[b]) + 1>>)
           /\ saUsed' = saUsed + 1
           /\ container' = Tail(container)
           /\ UNCHANGED <<lost, pendLost>>
        \/ /\ F = {} /\ ~NodeLeft
           /\ lost' = [r \in Rows |-> lost[r] + BytesIn(container, r)]
           /\ pendLost' = TRUE
           /\ container' = << >>
           /\ UNCHANGED <<chain, queue, saUsed>>
  /\ UNCHANGED <<pc, urgent, rec, calls, timeVars, classVars, writerVars, fed,
                 written, nrec>>

\* back to the main loop, or "try to insert again" through insert_func
PurgeDone ==
  /\ pc = "flushed" /\ container = << >>
  /\ \/ /\ ~urgent
        /\ pc' = "idle"
        /\ UNCHANGED <<rec, calls>>
     \/ /\ urgent
        /\ pc' = "insert"
        /\ rec' = [rec EXCEPT !.key = ClearDst(rec.key)]
        /\ calls' = InsertFunc(rec.key) \o Tail(calls)
  /\ UNCHANGED <<urgent, cacheVars, timeVars, classVars, writerVars,
                 ledgerVars, nrec>>

(***************************************************************************)
(* A record, or an entry put back, is given the node past the end, and     *)
(* that overwrites memory in use: what the plugin does from there on is    *)
(* not known, and nothing is claimed of it.                                *)
(***************************************************************************)
NeedsNode ==
  \/ /\ pc = "insert"
     /\ Stops(chain[Hash(CurrentRecord.key)], CurrentRecord.key, rec.base) = {}
  \/ /\ pc = "flushed" /\ container # << >>
     /\ \A i \in DOMAIN chain[Hash(Head(container).key)] :
          chain[Hash(Head(container).key)][i].valid = "inuse"

WriteBeyond ==
  /\ NeedsNode /\ PastEnd
  /\ pc' = "astray"
  /\ UNCHANGED <<urgent, rec, calls, cacheVars, timeVars, classVars, writerVars,
                 ledgerVars, nrec>>

-----------------------------------------------------------------------------
\* P_update_time_reference(): now has moved past the end of the timeslot
UpdateTimeReference ==
  /\ pc = "idle" /\ base < MaxSlot
  /\ newBase' = base
  /\ base' = base + 1
  /\ UNCHANGED <<pc, urgent, rec, calls, cacheVars, classVars, writerVars,
                 ledgerVars, nrec>>

(***************************************************************************)
(* SIGINT: P_exit_now() commits and writes the whole queue itself, unless  *)
(* the list of writers is full.                                            *)
(***************************************************************************)
ExitNow ==
  /\ pc \in ExitWindow
  /\ chain' = Revalidate(Range(queue))
  /\ listed' = alive
  /\ \/ /\ ~Alert
        /\ written' = AddBytes(written, Range(queue))
        /\ UNCHANGED lost
     \/ /\ Alert
        /\ lost' = AddBytes(lost, Range(queue))
        /\ UNCHANGED written
  /\ pc' = "exited"
  /\ UNCHANGED <<urgent, rec, calls, queue, container, saUsed, timeVars,
                 classVars, alive, fed, pendLost, nrec>>

PluginStep ==
  \/ Insert \/ FinishedEntries
  \/ ForkWriter \/ Flush \/ InsertPending \/ PurgeDone

Next ==
  \/ \E f \in Flows, c \in Classes, n \in Sizes, d \in Stamps :
       Receive(f, c, n, base + d)
  \/ PluginStep \/ MarkFlush \/ WriteBeyond
  \/ WriterExit \/ UpdateTimeReference \/ ExitNow

Spec == Init /\ [][Next]_vars

(***************************************************************************)
(* The plugin goes on with what it has begun; the refresh deadline comes   *)
(* round again and again and time passes.  The Kafka, AMQP and MongoDB     *)
(* plugins serve the deadline when poll() times out and with every buffer, *)
(* the print plugin for certain only with every buffer (its test after a   *)
(* timeout reads an unassigned variable): for it traffic has to go on.     *)
(***************************************************************************)
FairSpec ==
  /\ Spec
  /\ WF_vars(PluginStep) /\ SF_vars(MarkFlush) /\ SF_vars(UpdateTimeReference)

TypeOK ==
  /\ pc \in {"idle", "insert", "safe", "marked", "forked", "flushed", "exited",
            "astray"}
  /\ urgent \in BOOLEAN /\ pendLost \in BOOLEAN
  /\ rec \in [key : Keys, base : 0 .. MaxSlot, bytes : Nat, ba : Nat,
              ok : BOOLEAN]
  /\ calls \in Seq(Hosts \cup {KeepSrc})
  /\ chain \in [Buckets -> Seq([valid : {"free", "inuse", "committed"},
                               key : Keys, base : 0 .. MaxSlot, bytes : Nat])]
  /\ \A i \in DOMAIN queue : queue[i] \in Places
  /\ saUsed \in 0 .. ScratchNodes
  /\ base \in Slots /\ newBase \in 0 .. MaxSlot
  /\ acc \in [Flows -> Nat] /\ fresh \in [Flows -> BOOLEAN]
  /\ cls \in [Flows -> Classes]
  /\ accSlots \in [Flows -> SUBSET Slots] /\ mixed \in BOOLEAN
  /\ listed \in Nat /\ alive \in Nat /\ nrec \in Nat
  /\ fed \in [Rows -> Nat] /\ written \in [Rows -> Nat] /\ lost \in [Rows -> Nat]

-----------------------------------------------------------------------------
BetweenPurges == pc \in {"idle", "insert", "safe"}

\* Outside a purge queries_queue lists every entry in use, once: an entry that
\* is missing would never be written or freed, one listed twice would be
\* written twice.
QueueIsCache ==
  BetweenPurges =>
    /\ Range(queue) = InUse
    /\ \A i, j \in DOMAIN queue : queue[i] = queue[j] => i = j

\* A key and timeslot has at most one entry in use, although pending entries
\* are put back by P_cache_insert_pending() without looking for a match.
OneEntryPerKey ==
  \A p, q \in InUse :
    Matches(EntryAt(p), EntryAt(q).key, EntryAt(q).base) => p = q

\* The entries set aside by a purge always find room again: the "Pending
\* entries will be lost" branch of P_cache_insert_pending() is never taken.
PendingFits == ~pendLost

\* However writers come and go, at most dump_max_writers of them run, and the
\* list never misses a running one.
WritersBounded == alive <= listed /\ listed <= MaxWriters

Held(r) ==
  BytesAt(IF pc = "marked" THEN InUse \cup Committed ELSE InUse, r)
  + BytesIn(container, r)

\* Every byte received is in the cache, handed to a writer or dropped with a
\* warning, in the row it belongs to, and none is counted twice, also when a
\* flow's bytes move from class zero to its class.  Excepted are accumulators that
\* span two timeslots (MIN() caps what is taken out, all of it is added) and those
\* an urgent purge meets (P_cache_insert() takes them out of an entry already
\* written, or has taken them out and discards them when it tries again).
Conserved ==
  pc \in {"idle", "exited"} /\ ~mixed =>
    \A r \in Rows : fed[r] = Held(r) + written[r] + lost[r]

\* The cache implements the ledger: a row is settled as a whole and once.
L == INSTANCE Ledger WITH held <- [r \in Rows |-> Held(r)]
ImplementsLedger == L!Spec

\* What is accounted leaves the cache once its timeslot is due, as long as the
\* plugin does not get to the node past the scratch area.
Drains ==
  \A r \in {x \in Rows : x[2] + Delay <= MaxSlot} :
    (Held(r) > 0) ~> (Held(r) = 0)

\* The structure of the cache after any sequence of insertions, urgent and timed
\* purges (P_cache_insert(), P_cache_insert_pending(), P_cache_flush()): types,
\* the queue is what is in use, keys have one entry, and pending entries fit in,
\* up to the point at which the node past the end of the scratch area is written
\* over memory in use (P_cache_attach_new_node()).
CacheSound == TypeOK /\ QueueIsCache /\ OneEntryPerKey /\ PendingFits
=============================================================================
