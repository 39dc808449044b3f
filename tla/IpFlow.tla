------------------------------- MODULE IpFlow -------------------------------
(***************************************************************************)
(* The IPv4 flow table (ip_flow.c) with the classification of flows        *)
(* (classifier.c) that hangs on its nodes: bidirectional flows, lifetimes  *)
(* by TCP state, recycled nodes, prunes, tentatives, inherited classes,    *)
(* class accumulators.  The IPv6 half is the same code over other headers. *)
(*                                                                         *)
(* A packet is a record of its tuple, its TCP flags and sequence number,   *)
(* its length, the bytes of earlier fragments it stands for as well        *)
(* (frag_sum_bytes), whether it has payload, the class its payload reveals *)
(* and the port of the data connection it announces, 0 if the message has  *)
(* no number there (atoi()).                                               *)
(***************************************************************************)
EXTENDS Conntrack

CONSTANTS
  FlowBuckets,             \* config.flow_hashsz buckets
  HashFlow(_),             \* hash_flow(): the bucket of a normalised tuple
  FlowNodes,               \* flt_total_nodes at start
  FLOW_GENERIC_LIFETIME,
  FLOW_TCPEST_LIFETIME,
  FLOW_TCPSYN_LIFETIME,
  FLOW_TCPFIN_LIFETIME,
  FLOW_TCPRST_LIFETIME,
  FLOW_TABLE_PRUNE_INTERVAL,
  FLOW_TABLE_EMER_PRUNE_INTERVAL,
  Tentatives,              \* config.classifier_tentatives
  HelperClasses            \* classes that have a conntrack helper

FlowLifetimes == {FLOW_GENERIC_LIFETIME, FLOW_TCPEST_LIFETIME, FLOW_TCPSYN_LIFETIME,
                  FLOW_TCPFIN_LIFETIME, FLOW_TCPRST_LIFETIME}

\* a direction never seen (last = 0) counts as expired, the clock is that late
ASSUME FlowAssumption ==
  /\ FlowLifetimes \subseteq Nat /\ \A l \in FlowLifetimes : l < StartTime
  /\ {FLOW_TABLE_PRUNE_INTERVAL, FLOW_TABLE_EMER_PRUNE_INTERVAL} \subseteq Nat
  /\ FlowNodes \in Nat /\ Tentatives \in Nat /\ HelperClasses \subseteq Nat \ {0}

VARIABLES
  flow,          \* the flow table
  flowDeadline,  \* flt_prune_deadline
  flowEmergency, \* flt_emergency_prune
  verdict,       \* what the last call left in packet_ptrs
  lastSeen,      \* history: direction -> time of its last packet accepted
  unknown,       \* history: direction -> bytes accounted to class zero
  putby,         \* history: direction -> frag_sum_bytes kept from the counters
  moved          \* history: direction -> bytes handed over to a class

flowVars == <<flow, flowDeadline, flowEmergency, verdict, lastSeen, unknown, putby, moved>>

FlowIds == 1 .. FlowNodes
Dirs == {0, 1}
Rev(i) == 1 - i

\* the flags evaluate_tcp_flags() looks at
TcpFlags == {"SYN", "ACK", "FIN", "RST"}

\* what is known of a packet, and what is left of it when only its header is
HeaderRec == [src : Nat, dst : Nat, sport : Nat, dport : Nat, proto : STRING,
              flags : SUBSET TcpFlags, seq : Nat]
NoPort == -1   \* nothing is announced
PacketRec == [src : Nat, dst : Nat, sport : Nat, dport : Nat, proto : STRING,
              flags : SUBSET TcpFlags, seq : Nat, len : Nat, extra : Nat,
              payload : BOOLEAN, reveals : Nat, announces : Nat \cup {NoPort}]

(***************************************************************************)
(* normalize_flow(): the higher port first, then the higher address.  idx  *)
(* tells whether the packet was turned round.                              *)
(***************************************************************************)
\* mutant: equal ports are not ordered by address
Reversed_PortsOnly(p) == p.sport < p.dport

Reversed(p) == p.sport < p.dport \/ (p.sport = p.dport /\ p.src < p.dst)

Idx(p) == IF Reversed(p) THEN 1 ELSE 0
FlowKey(p) == IF Reversed(p) THEN <<p.dst, p.src, p.dport, p.sport, p.proto>>
              ELSE <<p.src, p.dst, p.sport, p.dport, p.proto>>
Direction(p) == <<p.src, p.dst, p.sport, p.dport, p.proto>>
Opposite(d) == <<d[2], d[1], d[4], d[3], d[5]>>

NewFlowNode(key) ==
  [key |-> key, last |-> [i \in Dirs |-> 0], tcp_flags |-> [i \in Dirs |-> {}],
   last_tcp_seq |-> 0, class |-> [i \in Dirs |-> 0],
   tentatives |-> [i \in Dirs |-> 0], ba |-> [i \in Dirs |-> 0], helper |-> FALSE]
FreeFlow == NewFlowNode(<< >>)

EmptyFlows == [chain |-> [b \in FlowBuckets |-> << >>], lru |-> << >>,
               node |-> [n \in FlowIds |-> FreeFlow], left |-> FlowNodes]

NoVerdict == [new_flow |-> FALSE, refused |-> FALSE, class |-> 0, ba |-> 0, at |-> 0,
              due |-> FALSE, early |-> FALSE, over |-> FALSE]

FlowInit ==
  /\ flow = EmptyFlows
  /\ flowDeadline = now + FLOW_TABLE_PRUNE_INTERVAL /\ flowEmergency = 0
  /\ verdict = NoVerdict
  /\ lastSeen = << >> /\ unknown = << >> /\ putby = << >> /\ moved = << >>

-----------------------------------------------------------------------------
(***************************************************************************)
(* is_expired_uni() and is_expired() at time t.  A TCP direction without   *)
(* flags is established.                                                   *)
(***************************************************************************)
IsTcp(key) == key # << >> /\ key[5] = "tcp"

IsExpiredUni(t, nd, i) ==
  LET idle(life) == t > nd.last[i] + life
  IN IF ~IsTcp(nd.key) THEN idle(FLOW_GENERIC_LIFETIME)
     ELSE IF nd.tcp_flags[i] = {} THEN idle(FLOW_TCPEST_LIFETIME)
     ELSE \/ "SYN" \in nd.tcp_flags[i] /\ idle(FLOW_TCPSYN_LIFETIME)
          \/ "FIN" \in nd.tcp_flags[i] /\ idle(FLOW_TCPFIN_LIFETIME)
          \/ "RST" \in nd.tcp_flags[i] /\ idle(FLOW_TCPRST_LIFETIME)

\* mutant: one idle direction is enough
IsExpired_Either(t, nd) == \E i \in Dirs : IsExpiredUni(t, nd, i)

IsExpired(t, nd) == \A i \in Dirs : IsExpiredUni(t, nd, i)

(***************************************************************************)
(* evaluate_tcp_flags(): the third packet of a handshake clears the flags  *)
(* of both directions, SYN and SYN-ACK set those of one, FIN and RST those *)
(* of both.                                                                *)
(***************************************************************************)
Handshaken(nd, i, p) ==
  /\ "SYN" \in nd.tcp_flags[i] /\ {"SYN", "ACK"} \subseteq nd.tcp_flags[Rev(i)]
  /\ p.seq = nd.last_tcp_seq + 1

EvaluateTcpFlags(nd, i, p) ==
  LET base == IF Handshaken(nd, i, p) THEN [d \in Dirs |-> {}] ELSE nd.tcp_flags
      syn  == IF "SYN" \in p.flags
              THEN [base EXCEPT ![i] = {"SYN"} \cup (p.flags \cap {"ACK"})] ELSE base
      fin  == IF p.flags \cap {"FIN", "RST"} # {} THEN [d \in Dirs |-> p.flags] ELSE syn
  IN IF ~IsTcp(nd.key) THEN nd
     ELSE [nd EXCEPT !.tcp_flags = fin,
                     !.last_tcp_seq = IF "SYN" \in p.flags /\ "ACK" \notin p.flags
                                      THEN p.seq ELSE @]

\* clear_tcp_flow_cmn()
ClearDirection(nd, i) ==
  [nd EXCEPT !.last[i] = 0, !.tcp_flags[i] = {}, !.class[i] = 0,
             !.tentatives[i] = 0, !.ba[i] = 0]

-----------------------------------------------------------------------------
(***************************************************************************)
(* evaluate_classifiers().  init_class_accumulators() restarts a direction *)
(* and lets it inherit the class of a live reverse one; a conntrack        *)
(* expectation overrides both.                                             *)
(***************************************************************************)
\* mutant: the class of an expired reverse direction is inherited
Inherited_Any(nd, i) == nd.class[Rev(i)]

Inherited(nd, i) == IF IsExpiredUni(nd.last[i], nd, Rev(i)) THEN 0 ELSE nd.class[Rev(i)]

InitClass(nd, i, ctClass) ==
  LET n1 == [nd EXCEPT !.tentatives[i] = Tentatives, !.ba[i] = 0,
                       !.class[i] = Inherited(nd, i),
                       !.helper = @ /\ ~IsExpiredUni(nd.last[i], nd, Rev(i))]
  IN IF ctClass = 0 THEN n1
     ELSE [n1 EXCEPT !.class = [d \in Dirs |-> ctClass], !.helper = FALSE]

(***************************************************************************)
(* handle_class_accumulators(): bytes of a direction without a class are   *)
(* gathered while there are tentatives, then forgotten; with a class they  *)
(* are handed over.  frag_sum_bytes goes to the accumulator and is reset,  *)
(* so that the counters of the plugins do not see it.                      *)
(***************************************************************************)
Gathers(nd, i) == nd.class[i] = 0 /\ nd.tentatives[i] > 0

\* mutant: the accumulator survives the hand-over
Accumulate_Keeps(nd, i, p) ==
  IF Gathers(nd, i)
  THEN [nd EXCEPT !.ba[i] = @ + p.len + p.extra,
                  !.tentatives[i] = IF p.payload THEN @ - 1 ELSE @]
  ELSE [nd EXCEPT !.tentatives[i] = 0]

Accumulate(nd, i, p) ==
  IF Gathers(nd, i)
  THEN [nd EXCEPT !.ba[i] = @ + p.len + p.extra,
                  !.tentatives[i] = IF p.payload THEN @ - 1 ELSE @]
  ELSE [nd EXCEPT !.ba[i] = 0, !.tentatives[i] = 0]

\* a packet without payload is not looked into
Reveals(nd, i, p) ==
  IF Gathers(nd, i) /\ p.payload THEN p.reveals ELSE 0

Classified(nd, i, p) ==
  IF Reveals(nd, i, p) = 0 THEN nd
  ELSE [nd EXCEPT !.class = [d \in Dirs |-> p.reveals],
                  !.helper = p.reveals \in HelperClasses]

HandedOver(nd, i) == IF nd.class[i] = 0 THEN 0 ELSE nd.ba[i]

-----------------------------------------------------------------------------
(***************************************************************************)
(* The table: search, create, prune.                                       *)
(***************************************************************************)
FlowsIn(t) == Range(t.lru)

\* mutant: the walk stops at the first live node, as that of the fragments does
PruneFlows_StopsEarly(t) ==
  LET gone == {t.lru[i] : i \in {j \in DOMAIN t.lru :
                                   \A h \in 1 .. j : IsExpired(now, t.node[t.lru[h]])}}
      keep == FlowIds \ gone
  IN [chain |-> [b \in FlowBuckets |-> Kept(t.chain[b], keep)],
      lru |-> Kept(t.lru, keep),
      node |-> [n \in FlowIds |-> IF n \in gone THEN FreeFlow ELSE t.node[n]],
      left |-> t.left + Cardinality(gone)]

\* prune_old_flows(): the whole list is walked
PruneFlows(t) ==
  LET gone == {n \in FlowsIn(t) : IsExpired(now, t.node[n])}
      keep == FlowIds \ gone
  IN [chain |-> [b \in FlowBuckets |-> Kept(t.chain[b], keep)],
      lru |-> Kept(t.lru, keep),
      node |-> [n \in FlowIds |-> IF n \in gone THEN FreeFlow ELSE t.node[n]],
      left |-> t.left + Cardinality(gone)]

FlowHits(t, p) == {n \in FlowsIn(t) : t.node[n].key = FlowKey(p)}

FlowExpired(t, p) ==
  {i \in DOMAIN t.chain[HashFlow(FlowKey(p))] :
     IsExpired(now, t.node[t.chain[HashFlow(FlowKey(p))][i]])}

\* create_flow(): an expired node of the bucket is recycled, else one allocated
FlowPlaced(t, p) ==
  LET b == HashFlow(FlowKey(p))
      E == FlowExpired(t, p)
      n == IF E # {} THEN t.chain[b][Min(E)] ELSE Min(FlowIds \ FlowsIn(t))
  IN [id |-> n,
      tab |-> IF E # {}
              THEN [t EXCEPT !.lru = Append(Kept(@, FlowIds \ {n}), n),
                             !.node[n] = NewFlowNode(FlowKey(p))]
              ELSE [t EXCEPT !.lru = Append(@, n), !.chain[b] = Append(@, n),
                             !.node[n] = NewFlowNode(FlowKey(p)), !.left = @ - 1]]

FlowDue == now > flowDeadline
FlowSwept == IF FlowDue THEN PruneFlows(flow) ELSE flow

Get(f, d) == IF d \in DOMAIN f THEN f[d] ELSE 0
Put(f, d, v) == [x \in DOMAIN f \cup {d} |-> IF x = d THEN v ELSE f[x]]

(***************************************************************************)
(* A packet of direction i of node n: what is written, nd3, from what was  *)
(* known before its bytes were counted, nd2, and what histories note of    *)
(* it; and what its control connection expects or a data connection used.  *)
(***************************************************************************)
Entered(t, n, p, new, hit, nd2, nd3) ==
  LET i == Idx(p)
      d == Direction(p)
      idle(q) == now - Get(lastSeen, q)
  IN /\ flow' = [t EXCEPT !.node[n] = nd3]
     /\ verdict' = [new_flow |-> new, refused |-> FALSE, class |-> nd3.class[i],
                    ba |-> HandedOver(nd2, i), at |-> now,
                    due |-> \A l \in FlowLifetimes : idle(d) > l,
                    early |-> \A l \in FlowLifetimes : idle(d) <= l,
                    over |-> /\ hit.class = 0 /\ p.reveals = 0
                             /\ \A l \in FlowLifetimes, q \in {d, Opposite(d)} : idle(q) > l]
     /\ lastSeen' = Put(lastSeen, d, now)
     /\ unknown' = Put(unknown, d, Get(unknown, d) +
                         IF nd3.class[i] # 0 THEN 0
                         ELSE p.len + IF Gathers(nd2, i) THEN 0 ELSE p.extra)
     /\ putby' = Put(putby, d, Get(putby, d) + IF Gathers(nd2, i) THEN p.extra ELSE 0)
     /\ moved' = Put(moved, d, Get(moved, d) + HandedOver(nd2, i))

Expected(p, hit, nd3) ==
  LET class == nd3.class[Idx(p)]
  IN /\ granted' = IF hit.class = 0 THEN granted
                   ELSE Append(granted, [src |-> p.src, dst |-> p.dst, proto |-> p.proto,
                                         sport |-> p.sport, class |-> hit.class, at |-> now])
     /\ IF nd3.helper /\ class # 0 /\ p.payload /\ p.announces # NoPort /\ hit.class = 0
        THEN InsertConntrack([src |-> p.src, dst |-> p.dst, proto |-> "tcp",
                              sport |-> p.announces, class |-> class, stamp |-> now])
        ELSE ct' = hit.ct /\ UNCHANGED <<ctLeft, asked>>

\* the packet is taken by node n of table t, as the first of its direction or as
\* another one of it
Accept(t, n, p, new) ==
  LET i == Idx(p)
  IN \E nd0 \in {IF new THEN ClearDirection(t.node[n], i) ELSE t.node[n]},
        hit \in {IF new THEN SearchConntrack(p) ELSE [class |-> 0, ct |-> ct]} :
     \E nd1 \in {[EvaluateTcpFlags(nd0, i, p) EXCEPT !.last[i] = now]} :
     \E nd2 \in {Classified(IF new THEN InitClass(nd1, i, hit.class) ELSE nd1, i, p)} :
     \E nd3 \in {Accumulate(nd2, i, p)} :
        Entered(t, n, p, new, hit, nd2, nd3) /\ Expected(p, hit, nd3)

FlowFound(p) ==
  /\ \E t \in {FlowSwept} : \E n \in FlowHits(t, p) :
       /\ n = Min(FlowHits(t, p))
       /\ \E new \in {IsExpiredUni(now, t.node[n], Idx(p))} : Accept(t, n, p, new)
  /\ UNCHANGED flowEmergency

FlowCreate(p) ==
  /\ FlowHits(FlowSwept, p) = {} /\ FlowSwept.left > 0
  /\ \E r \in {FlowPlaced(FlowSwept, p)} : Accept(r.tab, r.id, p, TRUE)
  /\ UNCHANGED flowEmergency

\* "Flow/4 buffer full. Skipping flows."
FlowRefuse(p) ==
  /\ FlowHits(FlowSwept, p) = {}
  /\ FlowSwept.left = 0 \/ (MallocFails /\ FlowExpired(FlowSwept, p) = {})
  /\ LET must == now > flowEmergency + FLOW_TABLE_EMER_PRUNE_INTERVAL
     IN /\ flow' = IF must THEN PruneFlows(FlowSwept) ELSE FlowSwept
        /\ flowEmergency' = IF must THEN now ELSE flowEmergency
  /\ verdict' = [NoVerdict EXCEPT !.refused = TRUE, !.at = now]
  /\ UNCHANGED <<lastSeen, unknown, putby, moved, ctVars>>

\* ip_flow_handler()
FlowHandler(p) ==
  /\ FlowFound(p) \/ FlowCreate(p) \/ FlowRefuse(p)
  /\ flowDeadline' = IF FlowDue THEN now + FLOW_TABLE_PRUNE_INTERVAL ELSE flowDeadline

-----------------------------------------------------------------------------
\* Buckets, list and budget of the flow table agree, and no two nodes hold the
\* same flow: both directions of a conversation meet in one node.
FlowAccounted ==
  /\ \A i, j \in DOMAIN flow.lru : flow.lru[i] = flow.lru[j] => i = j
  /\ flow.left + Len(flow.lru) = FlowNodes
  /\ FlowsIn(flow) = UNION {Range(flow.chain[b]) : b \in FlowBuckets}
  /\ \A m, n \in FlowsIn(flow) :
       LET k == flow.node[m].key l == flow.node[n].key
       IN k \in {l, Opposite(l)} => m = n

\* A direction idle for longer than every lifetime is counted as a new flow, and
\* one idle for no longer than the shortest lifetime is not, whatever was pruned,
\* recycled or seen in the other direction meanwhile.
CountedOnce ==
  (verdict.due => verdict.new_flow) /\ (verdict.early => ~verdict.new_flow)

\* A conversation idle in both directions for longer than every lifetime has lost
\* its class, even when its node is still there: it has to be revealed or
\* announced anew.
ClassForgotten == verdict.over => verdict.class = 0

\* The bytes handed over to a class were accounted to class zero before, in the
\* same direction, or were put by for them in the fragment table, and each of
\* them is handed over once.
MovedOnce == \A d \in DOMAIN moved : moved[d] <= unknown[d] + putby[d]

\* Flows and the bytes of their classes are counted once, and when they are due.
FlowsExact == CountedOnce /\ MovedOnce

\* Flows are refused for lack of room only while no node of the table has been
\* expired for longer than FLOW_TABLE_EMER_PRUNE_INTERVAL.
RefusedOnlyBusy ==
  verdict.refused /\ verdict.at = now =>
    \A n \in FlowsIn(flow) :
      ~IsExpired(now - FLOW_TABLE_EMER_PRUNE_INTERVAL - 1, flow.node[n])
=============================================================================
