----------------------------- MODULE PacketPath -----------------------------
(***************************************************************************)
(* ip_handler() of the packet daemons (nl.c) for TCP and UDP over IPv4: a  *)
(* fragment goes through the fragment table, which restores its ports or   *)
(* drops it, and what is left goes through the flow table.                 *)
(***************************************************************************)
EXTENDS IpFrag, IpFlow

CONSTANTS
  Packets,       \* whole packets on the wire
  Header(_),     \* the transport header of the datagram with a key
  FragBytes,     \* sequence numbers and TCP flags that bytes of a payload look like
  FragLens,      \* lengths of fragments
  MixedKeys,     \* bound: keys of fragments when flows are handled as well
  MaxPackets     \* bound: packets of a behaviour

ASSUME PathAssumption ==
  /\ MaxPackets \in Nat /\ FragLens \subseteq Nat /\ MixedKeys \subseteq Keys
  /\ Packets \subseteq PacketRec /\ FragBytes \subseteq [seq : Nat, flags : SUBSET TcpFlags]
  /\ \A k \in Keys : Header(k) \in HeaderRec
  /\ \A p \in Packets : HashFlow(FlowKey(p)) \in FlowBuckets
  /\ \A k \in Keys : HashFlow(FlowKey(Header(k))) \in FlowBuckets

VARIABLES
  handleFlows,   \* config.handle_flows
  seen           \* packets so far

pathVars == <<now, fragVars, ctVars, flowVars, handleFlows, seen>>

PathInit ==
  /\ ClockInit /\ FragInit /\ CtInit /\ FlowInit
  /\ handleFlows \in BOOLEAN /\ seen = 0

\* packet_ptrs is that of one packet: the next one, or a second in which none came,
\* finds nothing of it; that the last fragment was refused is kept as history
NoFragment ==
  /\ answer' = [NoAnswer EXCEPT !.skipped = answer.skipped]
  /\ UNCHANGED <<frag, pruneDeadline, emergency, sent>>
NoFlow ==
  /\ verdict' = NoVerdict
  /\ UNCHANGED <<flow, flowDeadline, flowEmergency, lastSeen, unknown, putby, moved, ctVars>>

\* a packet that is not a fragment
WholePacket(p) ==
  /\ handleFlows
  /\ FlowHandler(p)
  /\ NoFragment

(***************************************************************************)
(* What the flow table is shown of a fragment.  Only the first four bytes  *)
(* of the transport header, the ports, are kept for the other fragments:   *)
(* their sequence number and TCP flags are bytes of the payload.           *)
(***************************************************************************)
AsPacket(first, len, bytes, ans) ==
  LET h == Header(ans.tlhdr[1])
      own == IF first THEN h ELSE bytes
  IN [src |-> h.src, dst |-> h.dst, sport |-> h.sport, dport |-> h.dport,
      proto |-> h.proto, seq |-> own.seq, flags |-> own.flags,
      len |-> len, extra |-> ans.sum_bytes, payload |-> TRUE, reveals |-> 0,
      announces |-> NoPort]

\* bound: the allocations of the fragment table fail in behaviours without flows
NodeAllocated == ~handleFlows \/ ~answer'.skipped \/ Swept.left = 0

\* a fragment too short to read TCP flags from is dropped: "Snaplen issue ?"
Fragment(k, first, len) ==
  /\ FragHandler(k, first, len) /\ NodeAllocated
  /\ IF frag'.wild \/ ~answer'.ret \/ ~handleFlows THEN NoFlow
     ELSE \/ \E p \in {AsPacket(first, len, b, answer') : b \in FragBytes} : FlowHandler(p)
          \/ NoFlow

\* bound: fewer keys where the flow table takes part as well
FragKeys == IF handleFlows THEN MixedKeys ELSE Keys

IpHandler ==
  /\ seen < MaxPackets /\ seen' = seen + 1
  /\ \/ \E p \in Packets : WholePacket(p)
     \/ \E k \in FragKeys, first \in BOOLEAN, len \in FragLens : Fragment(k, first, len)
  /\ UNCHANGED <<now, handleFlows>>

\* bound: no time passes after the last packet, of which only packets take note
Time ==
  /\ seen < MaxPackets
  /\ Tick /\ NoFragment /\ NoFlow /\ UNCHANGED <<handleFlows, seen>>

PathNext == IpHandler \/ Time

PathSpec == PathInit /\ [][PathNext]_pathVars

\* The three tables of the packet path keep their buckets, lists and budgets
\* together through creation, recycling and prunes (ip_frag.c, ip_flow.c,
\* conntrack.c).
TablesSound ==
  /\ FragTypeOK /\ FragAccounted /\ LruSorted /\ StaleRootAfterSkip
  /\ FlowAccounted /\ CtBounded

\* What a fragment is given is of its own datagram (ip_fragment_handler()), but for
\* the ports in a node recycled with got_first set.
OwnFragments == OwnPorts /\ OwnBytes

\* Neither table refuses a packet while it has been full of dead nodes for longer
\* than its emergency prune is held back.
RoomKept == RefusedOnlyFull /\ RefusedOnlyBusy

\* A flow has a class because its own packets, or a control connection not long
\* ago, gave it one (evaluate_classifiers(), search_conntrack()).
ClassesEarned == GrantedByControl /\ ClassForgotten
=============================================================================
